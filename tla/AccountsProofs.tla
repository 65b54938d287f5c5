--------------------------- MODULE AccountsProofs ---------------------------
(* The invariants and action properties of Accounts, for any number of      *)
(* requests, usernames, tokens and invites and for either value of the      *)
(* switches, and the proof that Accounts implements LoginLimiter.           *)
EXTENDS Accounts, FiniteSetTheorems, TLAPS

-----------------------------------------------------------------------------
(* Activations *)

\* What the type says of the locals at each place of a handler.
LEMMA Locals ==
    ASSUME NEW a \in Activation
    PROVE  /\ a.pc \in {"setup_insert", "claim_insert", "claim_consume",
                        "login_lookup", "login_wrong", "login_right",
                        "login_session", "auth_user", "admin"} =>
                a.user \in Username
           /\ a.pc \in {"claim_insert", "claim_consume", "invite_list"} =>
                a.invite \in Invite
           /\ a.pc \in {"login_lookup", "login_wrong", "login_right"} =>
                a.ip \in Ip
           /\ a.pc \in {"auth_user", "admin"} => a.token \in Token
  BY DEF Activation

\* Moving on inside a handler keeps the locals.
LEMMA MovesOn ==
    ASSUME NEW a \in Activation
    PROVE  /\ a.pc = "login_lookup" =>
                \A v \in {"login_wrong", "login_right"} :
                  [a EXCEPT !.pc = v] \in Activation
           /\ a.pc = "claim_insert" => [a EXCEPT !.pc = "claim_consume"] \in Activation
           /\ a.pc = "auth_user" => [a EXCEPT !.pc = "admin"] \in Activation
  BY DEF Activation

LEMMA Starts ==
    /\ Idle \in Activation
    /\ \A n \in Username :
         /\ [pc |-> "setup_insert", user |-> n] \in Activation
         /\ [pc |-> "login_session", user |-> n] \in Activation
         /\ \A i \in Invite :
              [pc |-> "claim_insert", user |-> n, invite |-> i] \in Activation
         /\ \A ip \in Ip :
              [pc |-> "login_lookup", user |-> n, ip |-> ip] \in Activation
         /\ \A t \in Token :
              [pc |-> "auth_user", user |-> n, token |-> t] \in Activation
    /\ \A i \in Invite : [pc |-> "invite_list", invite |-> i] \in Activation
  BY DEF Activation, Idle

-----------------------------------------------------------------------------
(* Type correctness.  A session belongs to an account because a login ends  *)
(* in create_session only after it has found the account: the type          *)
(* invariant is inductive only together with CheckedRowsRemain.                *)

IInv == TypeOK /\ CheckedRowsRemain

LEMMA IInvInit == Init => IInv
<1> SUFFICES ASSUME Init PROVE IInv
  OBVIOUS
<1>1. TypeOK
  BY Starts DEF Init, TypeOK
<1>2. CheckedRowsRemain
  BY DEF Init, CheckedRowsRemain, At, Idle
<1> QED
  BY <1>1, <1>2 DEF IInv

\* A step that only replaces the activation of one request keeps the types
\* when the new activation is one.
LEMMA ContinueType ==
    ASSUME TypeOK, NEW r \in Request, NEW a \in Activation, Continue(r, a)
    PROVE  req' \in [Request -> Activation] /\ page' = "none"
  BY DEF TypeOK, Continue

\* The tables stay tables, and the activations stay activations.
LEMMA TypeNext == IInv /\ [Next]_vars => TypeOK'
<1> SUFFICES ASSUME IInv, [Next]_vars PROVE TypeOK'
  OBVIOUS
<1> USE DEF IInv
<1>1. ASSUME NEW r \in Request, NEW a \in Activation, Continue(r, a),
             UNCHANGED dbVars
      PROVE  TypeOK'
  BY <1>1, ContinueType DEF TypeOK, dbVars, userVars, sessionVars, inviteVars
<1>2. ASSUME NEW r \in Request, NEW ip \in Ip, LoginThrottled(r, ip)
      PROVE  TypeOK'
  BY <1>2 DEF LoginThrottled, TypeOK, dbVars, userVars, sessionVars, inviteVars
<1>3. ASSUME NEW r \in Request, NEW n \in Username,
             \/ SetupCount(r, n)
             \/ \E ip \in Ip : LoginCheck(r, n, ip)
             \/ \E i \in Invite : ClaimValid(r, i, n)
      PROVE  TypeOK'
  <2>1. CASE SetupCount(r, n)
    BY <1>1, <2>1, Starts DEF SetupCount
  <2>2. ASSUME NEW ip \in Ip, LoginCheck(r, n, ip) PROVE TypeOK'
    BY <1>1, <2>2, Starts DEF LoginCheck
  <2>3. ASSUME NEW i \in Invite, ClaimValid(r, i, n) PROVE TypeOK'
    BY <1>1, <2>3, Starts DEF ClaimValid
  <2> QED
    BY <1>3, <2>1, <2>2, <2>3
<1>4. ASSUME NEW r \in Request, SetupInsert(r) PROVE TypeOK'
  <2>1. req[r].user \in Username
    BY <1>4, Locals DEF SetupInsert, At, TypeOK
  <2>2. req' \in [Request -> Activation] /\ page' = "none"
    BY <1>4, ContinueType, Starts DEF SetupInsert, Finish
  <2> QED
    BY <1>4, <2>1, <2>2
       DEF SetupInsert, CreateUser, TypeOK, sessionVars, inviteVars
<1>5. ASSUME NEW r \in Request, ClaimInsert(r) PROVE TypeOK'
  <2>1. req[r].user \in Username /\ req[r].invite \in Invite
    BY <1>5, Locals DEF ClaimInsert, At, TypeOK
  <2>2. [req[r] EXCEPT !.pc = "claim_consume"] \in Activation
    BY <1>5, MovesOn DEF ClaimInsert, At, TypeOK
  <2>3. req' \in [Request -> Activation] /\ page' = "none"
    BY <1>5, <2>2, ContinueType DEF ClaimInsert
  <2> QED
    BY <1>5, <2>1, <2>3
       DEF ClaimInsert, CreateUser, TypeOK, sessionVars, inviteVars
<1>6. ASSUME NEW r \in Request,
             NameTaken(r) \/ CsrfRefused(r) \/ Disconnect(r) \/ LoginWrong(r)
      PROVE  TypeOK'
  BY <1>1, <1>6, Starts DEF NameTaken, CsrfRefused, Disconnect, LoginWrong, Finish
<1>7. ASSUME NEW r \in Request, ClaimConsume(r) PROVE TypeOK'
  <2>1. req[r].invite \in Invite
    BY <1>7, Locals DEF ClaimConsume, At, TypeOK
  <2>2. req' \in [Request -> Activation] /\ page' = "none"
    BY <1>7, ContinueType, Starts DEF ClaimConsume, Finish
  <2> QED
    BY <1>7, <2>1, <2>2 DEF ClaimConsume, TypeOK, userVars, sessionVars
<1>8. ASSUME NEW r \in Request, LoginLookup(r) PROVE TypeOK'
  <2>1. req[r] \in Activation /\ req[r].pc = "login_lookup"
    BY <1>8 DEF LoginLookup, At, TypeOK
  <2>2. PICK v \in {"login_wrong", "login_right"} :
          Continue(r, [req[r] EXCEPT !.pc = v])
    BY <1>8 DEF LoginLookup
  <2>3. [req[r] EXCEPT !.pc = v] \in Activation
    BY <2>1, MovesOn
  <2> QED
    BY <1>1, <1>8, <2>2, <2>3 DEF LoginLookup
<1>9. ASSUME NEW r \in Request, LoginRight(r) PROVE TypeOK'
  <2>1. req[r].user \in Username
    BY <1>9, Locals DEF LoginRight, At, TypeOK
  <2> QED
    BY <1>1, <1>9, <2>1, Starts DEF LoginRight
<1>10. ASSUME NEW r \in Request, NEW t \in Token, LoginSession(r, t)
       PROVE  TypeOK'
  <2>1. req[r].user \in Username /\ req[r].user \in users
    BY <1>10, Locals DEF LoginSession, At, TypeOK, CheckedRowsRemain
  <2>2. req' \in [Request -> Activation] /\ page' = "none"
    BY <1>10, ContinueType, Starts DEF LoginSession, Finish
  <2> QED
    BY <1>10, <2>1, <2>2 DEF LoginSession, TypeOK, userVars, inviteVars
<1>11. ASSUME NEW r \in Request, NEW t \in Token, AuthSession(r, t)
       PROVE  TypeOK'
  <2>1. owner[t] \in Username
    BY <1>11 DEF AuthSession, Live, TypeOK
  <2> QED
    BY <1>1, <1>11, <2>1, Starts DEF AuthSession
<1>12. ASSUME NEW r \in Request, AuthUser(r) PROVE TypeOK'
  <2>1. [req[r] EXCEPT !.pc = "admin"] \in Activation
    BY <1>12, MovesOn DEF AuthUser, At, TypeOK
  <2>2. CASE req[r].user \in admins
    BY <1>1, <1>12, <2>1, <2>2 DEF AuthUser
  <2>3. CASE req[r].user \notin admins
    BY <1>1, <1>12, <2>3, Starts DEF AuthUser, Finish
  <2> QED
    BY <2>2, <2>3
<1>13. ASSUME NEW r \in Request, NEW i \in Invite, InviteInsert(r, i)
       PROVE  TypeOK'
  <2>1. req[r].user \in Username
    BY <1>13, Locals DEF InviteInsert, At, TypeOK
  <2>2. req' \in [Request -> Activation] /\ page' = "none"
    BY <1>13, ContinueType, Starts DEF InviteInsert
  <2> QED
    BY <1>13, <2>1, <2>2 DEF InviteInsert, TypeOK, userVars, sessionVars
<1>14. ASSUME NEW r \in Request, InviteList(r) PROVE TypeOK'
  <2>1. req[r].invite \in Invite
    BY <1>14, Locals DEF InviteList, At, TypeOK
  <2>2. req' \in [Request -> Activation] /\ page' = "none"
    BY <1>14, ContinueType, Starts DEF InviteList, Finish
  <2> QED
    BY <1>14, <2>1, <2>2 DEF InviteList, TypeOK, userVars, sessionVars
<1>15. ASSUME NEW t \in Token, Logout(t) \/ Expire(t) PROVE TypeOK'
  BY <1>15 DEF Logout, Expire, TypeOK, userVars, inviteVars
<1>16. ASSUME NEW i \in Invite, InvitePage(i) PROVE TypeOK'
  BY <1>16 DEF InvitePage, TypeOK, dbVars, userVars, sessionVars, inviteVars
<1>17. CASE Tick
  BY <1>17 DEF Tick, TypeOK, dbVars, userVars, sessionVars, inviteVars
<1>u. Unconsumed(Request) \subseteq users /\ \A r \in Request : Unconsumed({r}) \subseteq users
  BY DEF Unconsumed, At, CheckedRowsRemain
<1>18. CASE Restart
  BY <1>18, <1>u, Starts DEF Restart, TypeOK, sessionVars, inviteVars
<1>19. CASE UNCHANGED vars
  BY <1>19 DEF vars, TypeOK, dbVars, userVars, sessionVars, inviteVars
<1>20. ASSUME NEW r \in Request, DbFails(r) PROVE TypeOK'
  <2>1. req' \in [Request -> Activation] /\ page' = "none"
    BY <1>20, ContinueType, Starts DEF DbFails, Finish
  <2> QED
    BY <1>20, <1>u, <2>1 DEF DbFails, TypeOK, sessionVars, inviteVars
<1> QED
  BY <1>2, <1>3, <1>4, <1>5, <1>6, <1>7, <1>8, <1>9, <1>10, <1>11, <1>12,
     <1>13, <1>14, <1>15, <1>16, <1>17, <1>18, <1>19, <1>20 DEF Next

-----------------------------------------------------------------------------
(* Accounts and invites only accumulate *)

\* No step removes an account, changes one, or reassigns an invite or a token.
Accumulates ==
    /\ users \subseteq users'
    /\ admins \subseteq admins'
    /\ admins' \cap users = admins
    /\ \A n \in users : via'[n] = via[n]
    /\ \A i \in Invite : creator[i] # None => creator'[i] = creator[i]
    /\ used \subseteq used'
    /\ \A t \in Token : owner[t] # None => owner'[t] = owner[t]

LEMMA CreateUserAccumulates ==
    ASSUME TypeOK, NEW n \in Username, NEW b \in BOOLEAN, NEW i,
           CreateUser(n, b, i), UNCHANGED <<sessionVars, inviteVars>>
    PROVE  Accumulates
  BY DEF TypeOK, CreateUser, Accumulates, sessionVars, inviteVars

LEMMA StepAccumulates == TypeOK /\ [Next]_vars => Accumulates
<1> SUFFICES ASSUME TypeOK, [Next]_vars PROVE Accumulates
  OBVIOUS
<1>1. ASSUME UNCHANGED <<users, admins, via, creator, used, owner>> PROVE Accumulates
  BY <1>1 DEF Accumulates, TypeOK
<1>2. ASSUME NEW r \in Request, SetupInsert(r) PROVE Accumulates
  <2>1. req[r].user \in Username
    BY <1>2, Locals DEF SetupInsert, At, TypeOK
  <2> QED
    BY <1>2, <2>1, CreateUserAccumulates DEF SetupInsert
<1>3. ASSUME NEW r \in Request, ClaimInsert(r) PROVE Accumulates
  <2>1. req[r].user \in Username
    BY <1>3, Locals DEF ClaimInsert, At, TypeOK
  <2> QED
    BY <1>3, <2>1, CreateUserAccumulates DEF ClaimInsert
<1>4. ASSUME NEW r \in Request, ClaimConsume(r) PROVE Accumulates
  BY <1>4 DEF ClaimConsume, Accumulates, TypeOK, userVars, sessionVars
<1>5. ASSUME NEW r \in Request, NEW i \in Invite, InviteInsert(r, i)
      PROVE  Accumulates
  BY <1>5 DEF InviteInsert, Accumulates, TypeOK, userVars, sessionVars
<1>6. ASSUME NEW r \in Request, InviteList(r) PROVE Accumulates
  BY <1>1, <1>6 DEF InviteList, userVars, sessionVars
<1>7. ASSUME NEW r \in Request, NEW n \in Username,
             \/ SetupCount(r, n)
             \/ \E ip \in Ip : LoginCheck(r, n, ip)
             \/ \E i \in Invite : ClaimValid(r, i, n)
      PROVE  Accumulates
  BY <1>1, <1>7 DEF SetupCount, LoginCheck, ClaimValid, dbVars, userVars, sessionVars, inviteVars
<1>8. ASSUME NEW r \in Request,
             \/ NameTaken(r) \/ CsrfRefused(r) \/ Disconnect(r) \/ DbFails(r)
             \/ LoginLookup(r) \/ LoginWrong(r) \/ LoginRight(r) \/ AuthUser(r)
             \/ \E ip \in Ip : LoginThrottled(r, ip)
      PROVE  Accumulates
  BY <1>1, <1>8 DEF NameTaken, CsrfRefused, Disconnect, DbFails, LoginLookup,
       LoginWrong, LoginRight, AuthUser, LoginThrottled, dbVars, userVars,
       sessionVars, inviteVars
<1>9. ASSUME NEW r \in Request, NEW t \in Token, AuthSession(r, t)
      PROVE  Accumulates
  BY <1>1, <1>9 DEF AuthSession, dbVars, userVars, sessionVars, inviteVars
<1>10. ASSUME NEW t \in Token, Logout(t) \/ Expire(t) PROVE Accumulates
  BY <1>1, <1>10 DEF Logout, Expire, userVars, inviteVars
<1>11. ASSUME NEW i \in Invite, InvitePage(i) PROVE Accumulates
  BY <1>1, <1>11 DEF InvitePage, dbVars, userVars, sessionVars, inviteVars
<1>12. CASE Tick \/ Restart \/ UNCHANGED vars
  BY <1>1, <1>12 DEF Tick, Restart, vars, dbVars, userVars, sessionVars, inviteVars
<1>13. ASSUME NEW r \in Request, NEW t \in Token, LoginSession(r, t)
       PROVE  Accumulates
  BY <1>13 DEF LoginSession, Accumulates, TypeOK, userVars, inviteVars
<1> QED
  BY <1>2, <1>3, <1>4, <1>5, <1>6, <1>7, <1>8, <1>9, <1>10, <1>11, <1>12, <1>13
     DEF Next

-----------------------------------------------------------------------------
(* The rows a handler has found remain *)

\* CheckedRowsRemain for one request.
CheckedAt(r) ==
    /\ req[r].pc \in {"login_right", "login_session"} => req[r].user \in users
    /\ req[r].pc = "auth_user" =>
         req[r].user \in users /\ owner[req[r].token] = req[r].user
    /\ req[r].pc = "admin" =>
         req[r].user \in admins /\ owner[req[r].token] = req[r].user
    /\ req[r].pc \in {"claim_insert", "claim_consume"} =>
         creator[req[r].invite] # None
    /\ req[r].pc = "claim_consume" =>
         req[r].user \in users /\ via[req[r].user] = req[r].invite

LEMMA CheckedEverywhere ==
    /\ CheckedRowsRemain <=> \A r \in Request : CheckedAt(r)
    /\ CheckedRowsRemain' <=> \A r \in Request : CheckedAt(r)'
  BY DEF CheckedRowsRemain, CheckedAt, At

\* Nothing that accumulates makes the checks of a request that has not moved
\* stale.
LEMMA CheckSurvives ==
    ASSUME TypeOK, Accumulates, NEW r \in Request, CheckedAt(r), req'[r] = req[r]
    PROVE  CheckedAt(r)'
<1>1. req[r] \in Activation
  BY DEF TypeOK
<1>2. /\ req[r].pc \in {"claim_insert", "claim_consume"} => req[r].invite \in Invite
      /\ req[r].pc \in {"auth_user", "admin"} =>
           req[r].token \in Token /\ req[r].user # None
  BY <1>1, Locals, NoneAssumption
<1> QED
  BY <1>2 DEF TypeOK, Accumulates, CheckedAt

\* A step of one request: what it has found out is all there is to check.
LEMMA OneMoves ==
    ASSUME IInv, Accumulates, NEW r \in Request, CheckedAt(r)',
           \A s \in Request \ {r} : req'[s] = req[s]
    PROVE  CheckedRowsRemain'
<1> SUFFICES ASSUME NEW s \in Request \ {r} PROVE CheckedAt(s)'
  BY CheckedEverywhere
<1> QED
  BY CheckSurvives, CheckedEverywhere DEF IInv

\* A step that leaves every activation alone.
LEMMA NoneMoves ==
    ASSUME IInv, Accumulates, req' = req
    PROVE  CheckedRowsRemain'
<1> SUFFICES ASSUME NEW s \in Request PROVE CheckedAt(s)'
  BY CheckedEverywhere
<1> QED
  BY CheckSurvives, CheckedEverywhere DEF IInv

\* A request that answers, or starts with nothing but its form, has checked
\* nothing yet.
LEMMA NothingToCheck ==
    ASSUME IInv, Accumulates, NEW r \in Request, NEW a, Continue(r, a),
           a.pc \in {"idle", "setup_insert", "login_lookup", "login_wrong",
                     "invite_list"}
    PROVE  CheckedRowsRemain'
<1>1. req'[r] = a /\ \A s \in Request \ {r} : req'[s] = req[s]
  BY DEF Continue, IInv, TypeOK
<1>2. CheckedAt(r)'
  BY <1>1 DEF CheckedAt
<1> QED
  BY <1>1, <1>2, OneMoves

LEMMA ChecksNext == IInv /\ [Next]_vars => CheckedRowsRemain'
<1> SUFFICES ASSUME IInv, [Next]_vars PROVE CheckedRowsRemain'
  OBVIOUS
<1>0. Accumulates
  BY StepAccumulates DEF IInv
<1>1. ASSUME NEW r \in Request, NEW a, Continue(r, a), CheckedAt(r)'
      PROVE  CheckedRowsRemain'
  BY <1>0, <1>1, OneMoves DEF Continue, IInv, TypeOK
<1>2. ASSUME NEW r \in Request,
             \/ SetupInsert(r) \/ NameTaken(r) \/ ClaimConsume(r)
             \/ LoginWrong(r) \/ CsrfRefused(r) \/ Disconnect(r)
             \/ InviteList(r) \/ DbFails(r)
      PROVE  CheckedRowsRemain'
  <2>1. Continue(r, Idle)
    BY <1>2 DEF SetupInsert, NameTaken, ClaimConsume, LoginWrong, CsrfRefused,
                Disconnect, InviteList, DbFails, Finish
  <2> QED
    BY <1>0, <2>1, NothingToCheck DEF Idle
<1>3. ASSUME NEW r \in Request, NEW n \in Username, SetupCount(r, n)
      PROVE  CheckedRowsRemain'
  BY <1>0, <1>3, NothingToCheck DEF SetupCount
<1>4. ASSUME NEW r \in Request, NEW n \in Username, NEW ip \in Ip,
             LoginCheck(r, n, ip)
      PROVE  CheckedRowsRemain'
  BY <1>0, <1>4, NothingToCheck DEF LoginCheck
<1>5. ASSUME NEW r \in Request, NEW n \in Username, NEW i \in Invite,
             ClaimValid(r, i, n)
      PROVE  CheckedRowsRemain'
  <2>1. req'[r] = [pc |-> "claim_insert", user |-> n, invite |-> i]
    BY <1>5 DEF ClaimValid, Continue, IInv, TypeOK
  <2>2. creator'[i] # None
    BY <1>5 DEF ClaimValid, InviteValid, Pending, dbVars, inviteVars
  <2>3. CheckedAt(r)'
    BY <2>1, <2>2 DEF CheckedAt
  <2> QED
    BY <1>1, <1>5, <2>3 DEF ClaimValid
<1>6. ASSUME NEW r \in Request, ClaimInsert(r) PROVE CheckedRowsRemain'
  <2>1. /\ req[r] \in Activation /\ req[r].pc = "claim_insert"
        /\ req[r].user \in Username /\ creator[req[r].invite] # None
    BY <1>6, Locals DEF ClaimInsert, At, IInv, TypeOK, CheckedRowsRemain
  <2>2. req'[r] = [req[r] EXCEPT !.pc = "claim_consume"]
    BY <1>6 DEF ClaimInsert, Continue, IInv, TypeOK
  <2>3. /\ req'[r].pc = "claim_consume"
        /\ req'[r].invite = req[r].invite /\ req'[r].user = req[r].user
    BY <2>1, <2>2 DEF Activation
  <2>4. creator' = creator
    BY <1>6 DEF ClaimInsert, inviteVars
  <2>5. req[r].user \in users' /\ via'[req[r].user] = req[r].invite
    BY <1>6, <2>1 DEF ClaimInsert, CreateUser, IInv, TypeOK
  <2>6. CheckedAt(r)'
    BY <2>1, <2>3, <2>4, <2>5 DEF CheckedAt
  <2> QED
    BY <1>1, <1>6, <2>6 DEF ClaimInsert
<1>7. ASSUME NEW r \in Request, LoginLookup(r) PROVE CheckedRowsRemain'
  <2>1. PICK v \in {"login_wrong", "login_right"} :
          /\ v = "login_right" => req[r].user \in users
          /\ Continue(r, [req[r] EXCEPT !.pc = v])
    BY <1>7 DEF LoginLookup
  <2>2. req[r] \in Activation /\ req[r].pc = "login_lookup"
    BY <1>7 DEF LoginLookup, At, IInv, TypeOK
  <2>3. req'[r] = [req[r] EXCEPT !.pc = v]
    BY <2>1 DEF Continue, IInv, TypeOK
  <2>4. req'[r].pc = v /\ req'[r].user = req[r].user
    BY <2>2, <2>3 DEF Activation
  <2>5. users' = users
    BY <1>7 DEF LoginLookup, dbVars, userVars
  <2>6. CheckedAt(r)'
    BY <2>1, <2>4, <2>5 DEF CheckedAt
  <2> QED
    BY <1>1, <2>1, <2>6
<1>8. ASSUME NEW r \in Request, LoginRight(r) PROVE CheckedRowsRemain'
  <2>1. req[r].user \in users
    BY <1>8 DEF LoginRight, At, IInv, CheckedRowsRemain
  <2>2. req'[r] = [pc |-> "login_session", user |-> req[r].user]
    BY <1>8 DEF LoginRight, Continue, IInv, TypeOK
  <2>3. users' = users
    BY <1>8 DEF LoginRight, dbVars, userVars
  <2>4. CheckedAt(r)'
    BY <2>1, <2>2, <2>3 DEF CheckedAt
  <2> QED
    BY <1>1, <1>8, <2>4 DEF LoginRight
<1>9. ASSUME NEW r \in Request, NEW t \in Token, LoginSession(r, t)
      PROVE  CheckedRowsRemain'
  BY <1>0, <1>9, NothingToCheck DEF LoginSession, Finish, Idle
<1>10. ASSUME NEW r \in Request, NEW t \in Token, AuthSession(r, t)
       PROVE  CheckedRowsRemain'
  <2>1. owner[t] \in users
    BY <1>10 DEF AuthSession, Live, IInv, TypeOK
  <2>2. req'[r] = [pc |-> "auth_user", user |-> owner[t], token |-> t]
    BY <1>10 DEF AuthSession, Continue, IInv, TypeOK
  <2>3. users' = users /\ owner' = owner
    BY <1>10 DEF AuthSession, dbVars, userVars, sessionVars
  <2>4. CheckedAt(r)'
    BY <2>1, <2>2, <2>3 DEF CheckedAt
  <2> QED
    BY <1>1, <1>10, <2>4 DEF AuthSession
<1>11. ASSUME NEW r \in Request, AuthUser(r) PROVE CheckedRowsRemain'
  <2>1. CASE req[r].user \in admins
    <3>1. req[r] \in Activation /\ req[r].pc = "auth_user"
      BY <1>11 DEF AuthUser, At, IInv, TypeOK
    <3>2. Continue(r, [req[r] EXCEPT !.pc = "admin"])
      BY <1>11, <2>1 DEF AuthUser
    <3>3. req'[r] = [req[r] EXCEPT !.pc = "admin"]
      BY <3>2 DEF Continue, IInv, TypeOK
    <3>4. /\ req'[r].pc = "admin" /\ req'[r].user = req[r].user
          /\ req'[r].token = req[r].token
      BY <3>1, <3>3 DEF Activation
    <3>5. /\ admins' = admins /\ owner' = owner
          /\ owner[req[r].token] = req[r].user
      BY <1>11, <3>1 DEF AuthUser, dbVars, userVars, sessionVars, IInv, CheckedRowsRemain, At
    <3>6. CheckedAt(r)'
      BY <2>1, <3>4, <3>5 DEF CheckedAt
    <3> QED
      BY <1>1, <3>2, <3>6
  <2>2. CASE req[r].user \notin admins
    BY <1>0, <1>11, <2>2, NothingToCheck DEF AuthUser, Finish, Idle
  <2> QED
    BY <2>1, <2>2
<1>12. ASSUME NEW r \in Request, NEW i \in Invite, InviteInsert(r, i)
       PROVE  CheckedRowsRemain'
  BY <1>0, <1>12, NothingToCheck DEF InviteInsert
<1>13. ASSUME NEW r \in Request, NEW ip \in Ip, LoginThrottled(r, ip)
       PROVE  CheckedRowsRemain'
  BY <1>0, <1>13, NoneMoves DEF LoginThrottled
<1>14. ASSUME NEW t \in Token, Logout(t) \/ Expire(t) PROVE CheckedRowsRemain'
  BY <1>0, <1>14, NoneMoves DEF Logout, Expire
<1>15. ASSUME NEW i \in Invite, InvitePage(i) PROVE CheckedRowsRemain'
  BY <1>0, <1>15, NoneMoves DEF InvitePage
<1>16. CASE Tick \/ UNCHANGED vars
  BY <1>0, <1>16, NoneMoves DEF Tick, vars
<1>17. CASE Restart
  BY <1>17 DEF Restart, CheckedRowsRemain, At, Idle
<1> QED
  BY <1>2, <1>3, <1>4, <1>5, <1>6, <1>7, <1>8, <1>9, <1>10, <1>11, <1>12,
     <1>13, <1>14, <1>15, <1>16, <1>17 DEF Next

LEMMA IInvNext == IInv /\ [Next]_vars => IInv'
  BY TypeNext, ChecksNext DEF IInv

\* Type correctness of the tables and activations.
THEOREM TypeCorrect == Spec => []TypeOK
<1>1. IInv => TypeOK
  BY DEF IInv
<1> QED
  BY <1>1, IInvInit, IInvNext, PTL DEF Spec

\* The rows a handler found are there and unchanged when it acts on them,
\* whatever interleaves, fails or restarts in between.
THEOREM CheckedRowsRemainHolds == Spec => []CheckedRowsRemain
<1>1. IInv => CheckedRowsRemain
  BY DEF IInv
<1> QED
  BY <1>1, IInvInit, IInvNext, PTL DEF Spec

\* No step takes an existing account over.
THEOREM AccountsFinalHolds == Spec => AccountsAreFinal
<1>1. Accumulates => [/\ users \subseteq users'
                      /\ admins' \cap users = admins
                      /\ \A n \in users : via'[n] = via[n]]_vars
  BY DEF Accumulates
<1> QED
  BY <1>1, StepAccumulates, TypeCorrect, PTL DEF Spec, AccountsAreFinal

-----------------------------------------------------------------------------
(* Who may do what: the invariants about admins, invites and members *)

\* Accounts appear in two places only, invite rows in one, used_at in one.
LEMMA Writers ==
    ASSUME [Next]_vars
    PROVE  \/ \E r \in Request : SetupInsert(r) \/ ClaimInsert(r)
           \/ /\ UNCHANGED <<users, admins, via>>
              /\ creator' = creator \/ \E r \in Request, i \in Invite : InviteInsert(r, i)
              /\ used' = used \/ \E r \in Request : ClaimConsume(r)
<1>1. ASSUME NEW r \in Request, NEW n \in Username,
             \/ SetupCount(r, n)
             \/ \E ip \in Ip : LoginCheck(r, n, ip)
             \/ \E i \in Invite : ClaimValid(r, i, n)
      PROVE  UNCHANGED <<users, admins, via, creator, used>>
  BY <1>1 DEF SetupCount, LoginCheck, ClaimValid, dbVars, userVars, inviteVars
<1>2. ASSUME NEW r \in Request,
             \/ NameTaken(r) \/ CsrfRefused(r) \/ Disconnect(r) \/ DbFails(r)
             \/ LoginLookup(r) \/ LoginWrong(r) \/ LoginRight(r) \/ AuthUser(r)
             \/ \E ip \in Ip : LoginThrottled(r, ip)
      PROVE  UNCHANGED <<users, admins, via, creator, used>>
  BY <1>2 DEF NameTaken, CsrfRefused, Disconnect, DbFails, LoginLookup,
       LoginWrong, LoginRight, AuthUser, LoginThrottled, dbVars, userVars, inviteVars
<1>3. ASSUME NEW r \in Request, NEW t \in Token,
             LoginSession(r, t) \/ AuthSession(r, t)
      PROVE  UNCHANGED <<users, admins, via, creator, used>>
  BY <1>3 DEF LoginSession, AuthSession, dbVars, userVars, inviteVars
<1>4. ASSUME NEW t \in Token, Logout(t) \/ Expire(t)
      PROVE  UNCHANGED <<users, admins, via, creator, used>>
  BY <1>4 DEF Logout, Expire, userVars, inviteVars
<1>5. ASSUME NEW i \in Invite, InvitePage(i)
      PROVE  UNCHANGED <<users, admins, via, creator, used>>
  BY <1>5 DEF InvitePage, dbVars, userVars, inviteVars
<1>6. CASE Tick \/ Restart \/ UNCHANGED vars
  BY <1>6 DEF Tick, Restart, vars, dbVars, userVars, inviteVars
<1>7. ASSUME NEW r \in Request, InviteList(r)
      PROVE  UNCHANGED <<users, admins, via, creator, used>>
  BY <1>7 DEF InviteList, userVars
<1>8. ASSUME NEW r \in Request, ClaimConsume(r)
      PROVE  UNCHANGED <<users, admins, via, creator>>
  BY <1>8 DEF ClaimConsume, userVars
<1>9. ASSUME NEW r \in Request, NEW i \in Invite, InviteInsert(r, i)
      PROVE  UNCHANGED <<users, admins, via, used>>
  BY <1>9 DEF InviteInsert, userVars
<1> QED
  BY <1>1, <1>2, <1>3, <1>4, <1>5, <1>6, <1>7, <1>8, <1>9 DEF Next

\* The invariant needs all four parts at once: a claim makes a member only of
\* an invite with a creator, who is an admin, so there is one.
Vouched ==
    SomeAdmin /\ InvitesFromAdmins /\ MembersWereInvited /\ UsedInvitesGaveAccounts

LEMMA VouchedInit == Init => Vouched
  BY DEF Init, Vouched, SomeAdmin, InvitesFromAdmins, MembersWereInvited,
         UsedInvitesGaveAccounts

LEMMA VouchedNext == IInv /\ Vouched /\ [Next]_vars => Vouched'
<1> SUFFICES ASSUME IInv, Vouched, [Next]_vars PROVE Vouched'
  OBVIOUS
<1>0. Accumulates
  BY StepAccumulates DEF IInv
<1> USE DEF IInv, Vouched
<1>1. ASSUME NEW r \in Request, SetupInsert(r) PROVE Vouched'
  <2> DEFINE n == req[r].user
  <2>1. n \in Username
    BY <1>1, Locals DEF SetupInsert, At, TypeOK
  <2>2. /\ n \notin users /\ users' = users \cup {n} /\ admins' = admins \cup {n}
        /\ creator' = creator /\ used' = used
    BY <1>1 DEF SetupInsert, CreateUser, inviteVars
  <2>3. SomeAdmin'
    BY <2>2 DEF SomeAdmin
  <2>4. InvitesFromAdmins'
    BY <2>2 DEF InvitesFromAdmins
  <2>5. MembersWereInvited'
    BY <1>0, <2>2 DEF MembersWereInvited, Accumulates
  <2>6. UsedInvitesGaveAccounts'
    BY <1>0, <2>2 DEF UsedInvitesGaveAccounts, Accumulates
  <2> QED
    BY <2>3, <2>4, <2>5, <2>6
<1>2. ASSUME NEW r \in Request, ClaimInsert(r) PROVE Vouched'
  <2> DEFINE n == req[r].user
  <2> DEFINE i == req[r].invite
  <2>1. n \in Username /\ i \in Invite
    BY <1>2, Locals DEF ClaimInsert, At, TypeOK
  <2>2. creator[i] # None
    BY <1>2 DEF ClaimInsert, At, CheckedRowsRemain
  <2>3. creator[i] \in admins
    BY <2>1, <2>2 DEF InvitesFromAdmins
  <2>4. /\ n \notin users /\ users' = users \cup {n} /\ admins' = admins
        /\ via'[n] = i /\ creator' = creator /\ used' = used
    BY <1>2, <2>1 DEF ClaimInsert, CreateUser, inviteVars, TypeOK
  <2>5. i # None
    BY <2>1, NoneAssumption
  <2>6. SomeAdmin'
    BY <2>3, <2>4 DEF SomeAdmin
  <2>7. InvitesFromAdmins'
    BY <2>4 DEF InvitesFromAdmins
  <2>8. MembersWereInvited'
    BY <1>0, <2>3, <2>4, <2>5 DEF MembersWereInvited, Accumulates
  <2>9. UsedInvitesGaveAccounts'
    BY <1>0, <2>4 DEF UsedInvitesGaveAccounts, Accumulates
  <2> QED
    BY <2>6, <2>7, <2>8, <2>9
<1>3. ASSUME UNCHANGED <<users, admins, via>>,
             creator' = creator \/ \E r \in Request, i \in Invite : InviteInsert(r, i),
             used' = used \/ \E r \in Request : ClaimConsume(r)
      PROVE  Vouched'
  <2>1. users' = users /\ admins' = admins /\ via' = via
    BY <1>3
  <2>2. SomeAdmin'
    BY <2>1 DEF SomeAdmin
  <2>3. InvitesFromAdmins'
    <3>1. ASSUME NEW r \in Request, NEW i \in Invite, InviteInsert(r, i)
          PROVE  InvitesFromAdmins'
      <4>1. req[r].user \in admins
        BY <3>1 DEF InviteInsert, At, CheckedRowsRemain
      <4> QED
        BY <2>1, <3>1, <4>1 DEF InviteInsert, InvitesFromAdmins, TypeOK
    <3> QED
      BY <1>3, <2>1, <3>1 DEF InvitesFromAdmins
  <2>4. MembersWereInvited'
    <3> SUFFICES ASSUME NEW n \in users \ admins
                 PROVE  via[n] # None /\ creator'[via[n]] \in admins
      BY <2>1 DEF MembersWereInvited
    <3>1. via[n] \in Invite /\ creator[via[n]] \in admins
      BY DEF MembersWereInvited, TypeOK
    <3>2. creator[via[n]] # None
      BY <3>1, NoneAssumption DEF TypeOK
    <3> QED
      BY <1>0, <3>1, <3>2, NoneAssumption DEF Accumulates
  <2>5. UsedInvitesGaveAccounts'
    <3>1. ASSUME NEW r \in Request, ClaimConsume(r)
          PROVE  UsedInvitesGaveAccounts'
      <4>1. \E n \in users : via[n] = req[r].invite
        BY <3>1 DEF ClaimConsume, At, CheckedRowsRemain
      <4> QED
        BY <2>1, <3>1, <4>1 DEF ClaimConsume, UsedInvitesGaveAccounts
    <3> QED
      BY <1>3, <2>1, <3>1 DEF UsedInvitesGaveAccounts
  <2> QED
    BY <2>2, <2>3, <2>4, <2>5
<1> QED
  BY <1>1, <1>2, <1>3, Writers

LEMMA VouchedHolds == Spec => []Vouched
<1>1. Init => IInv /\ Vouched
  BY IInvInit, VouchedInit
<1>2. (IInv /\ Vouched) /\ [Next]_vars => (IInv /\ Vouched)'
  BY IInvNext, VouchedNext
<1> QED
  BY <1>1, <1>2, PTL DEF Spec

\* Nobody is ever locked out of administration: while there is an account
\* there is an admin.
THEOREM SomeAdminHolds == Spec => []SomeAdmin
<1>1. Vouched => SomeAdmin
  BY DEF Vouched
<1> QED
  BY <1>1, VouchedHolds, PTL

\* Every invite there is was created by an admin.
THEOREM InvitesFromAdminsHolds == Spec => []InvitesFromAdmins
<1>1. Vouched => InvitesFromAdmins
  BY DEF Vouched
<1> QED
  BY <1>1, VouchedHolds, PTL

\* Every account that is not an admin's came from an admin's invite.
THEOREM MembersWereInvitedHolds == Spec => []MembersWereInvited
<1>1. Vouched => MembersWereInvited
  BY DEF Vouched
<1> QED
  BY <1>1, VouchedHolds, PTL

\* An invite is used up only when it has given somebody an account.
THEOREM UsedInvitesHolds == Spec => []UsedInvitesGaveAccounts
<1>1. Vouched => UsedInvitesGaveAccounts
  BY DEF Vouched
<1> QED
  BY <1>1, VouchedHolds, PTL

-----------------------------------------------------------------------------
(* The windows between a check and its use *)

\* Where a request can be after a step, and what was true when it got there.
LEMMA Arrivals ==
    ASSUME TypeOK, [Next]_vars, NEW s \in Request
    PROVE  \/ req'[s] = req[s]
           \/ req'[s].pc \in {"idle", "login_lookup", "login_wrong",
                              "login_right", "login_session", "invite_list"}
           \/ req'[s].pc = "setup_insert" /\ users = {}
           \/ req'[s].pc = "claim_insert" /\ InviteValid(req'[s].invite)
           \/ /\ req'[s].pc = "claim_consume"
              /\ req[s].pc = "claim_insert" /\ req'[s].invite = req[s].invite
           \/ req'[s].pc = "auth_user" /\ Live(req'[s].token)
           \/ /\ req'[s].pc = "admin"
              /\ req[s].pc = "auth_user" /\ req'[s].token = req[s].token
<1> DEFINE Arrived ==
      \/ req'[s] = req[s]
      \/ req'[s].pc \in {"idle", "login_lookup", "login_wrong",
                         "login_right", "login_session", "invite_list"}
      \/ req'[s].pc = "setup_insert" /\ users = {}
      \/ req'[s].pc = "claim_insert" /\ InviteValid(req'[s].invite)
      \/ /\ req'[s].pc = "claim_consume"
         /\ req[s].pc = "claim_insert" /\ req'[s].invite = req[s].invite
      \/ req'[s].pc = "auth_user" /\ Live(req'[s].token)
      \/ /\ req'[s].pc = "admin"
         /\ req[s].pc = "auth_user" /\ req'[s].token = req[s].token
<1> SUFFICES Arrived
  OBVIOUS
<1>0. ASSUME NEW r \in Request, NEW a, Continue(r, a)
      PROVE  req'[s] = IF s = r THEN a ELSE req[s]
  BY <1>0 DEF Continue, TypeOK
<1>1. ASSUME NEW r \in Request,
             \/ SetupInsert(r) \/ NameTaken(r) \/ ClaimConsume(r)
             \/ LoginWrong(r) \/ CsrfRefused(r) \/ Disconnect(r)
             \/ InviteList(r) \/ DbFails(r)
             \/ \E t \in Token : LoginSession(r, t)
      PROVE  Arrived
  <2>1. Continue(r, Idle)
    BY <1>1 DEF SetupInsert, NameTaken, ClaimConsume, LoginWrong, CsrfRefused,
                Disconnect, InviteList, DbFails, LoginSession, Finish
  <2> QED
    BY <1>0, <2>1 DEF Idle
<1>2. ASSUME NEW r \in Request, NEW n \in Username, SetupCount(r, n)
      PROVE  Arrived
  BY <1>0, <1>2 DEF SetupCount
<1>3. ASSUME NEW r \in Request, NEW n \in Username, NEW ip \in Ip,
             LoginCheck(r, n, ip)
      PROVE  Arrived
  BY <1>0, <1>3 DEF LoginCheck
<1>4. ASSUME NEW r \in Request, NEW n \in Username, NEW i \in Invite,
             ClaimValid(r, i, n)
      PROVE  Arrived
  BY <1>0, <1>4 DEF ClaimValid
<1>5. ASSUME NEW r \in Request, ClaimInsert(r) PROVE Arrived
  <2>1. req[r] \in Activation /\ req[r].pc = "claim_insert"
    BY <1>5 DEF ClaimInsert, At, TypeOK
  <2>2. /\ [req[r] EXCEPT !.pc = "claim_consume"].pc = "claim_consume"
        /\ [req[r] EXCEPT !.pc = "claim_consume"].invite = req[r].invite
    BY <2>1 DEF Activation
  <2> QED
    BY <1>0, <1>5, <2>1, <2>2 DEF ClaimInsert
<1>6. ASSUME NEW r \in Request, LoginLookup(r) PROVE Arrived
  <2>1. PICK v \in {"login_wrong", "login_right"} :
          Continue(r, [req[r] EXCEPT !.pc = v])
    BY <1>6 DEF LoginLookup
  <2>2. req[r] \in Activation /\ req[r].pc = "login_lookup"
    BY <1>6 DEF LoginLookup, At, TypeOK
  <2>3. [req[r] EXCEPT !.pc = v].pc = v
    BY <2>2 DEF Activation
  <2> QED
    BY <1>0, <2>1, <2>3
<1>7. ASSUME NEW r \in Request, LoginRight(r) PROVE Arrived
  BY <1>0, <1>7 DEF LoginRight
<1>8. ASSUME NEW r \in Request, NEW t \in Token, AuthSession(r, t)
      PROVE  Arrived
  BY <1>0, <1>8 DEF AuthSession
<1>9. ASSUME NEW r \in Request, AuthUser(r) PROVE Arrived
  <2>1. req[r] \in Activation /\ req[r].pc = "auth_user"
    BY <1>9 DEF AuthUser, At, TypeOK
  <2>2. /\ [req[r] EXCEPT !.pc = "admin"].pc = "admin"
        /\ [req[r] EXCEPT !.pc = "admin"].token = req[r].token
    BY <2>1 DEF Activation
  <2>3. CASE req[r].user \in admins
    <3>1. req'[s] = IF s = r THEN [req[r] EXCEPT !.pc = "admin"] ELSE req[s]
      BY <1>0, <1>9, <2>3 DEF AuthUser
    <3> QED
      BY <2>1, <2>2, <3>1
  <2>4. CASE req[r].user \notin admins
    BY <1>0, <1>9, <2>4 DEF AuthUser, Finish, Idle
  <2> QED
    BY <2>3, <2>4
<1>10. ASSUME NEW r \in Request, NEW i \in Invite, InviteInsert(r, i)
       PROVE  Arrived
  BY <1>0, <1>10 DEF InviteInsert
<1>11. ASSUME req' = req PROVE Arrived
  BY <1>11
<1>12. CASE Restart
  BY <1>12 DEF Restart, Idle
<1>13. ASSUME NEW r \in Request, NEW ip \in Ip, LoginThrottled(r, ip)
       PROVE  Arrived
  BY <1>11, <1>13 DEF LoginThrottled
<1>14. ASSUME NEW t \in Token, Logout(t) \/ Expire(t) PROVE Arrived
  BY <1>11, <1>14 DEF Logout, Expire
<1>15. ASSUME NEW i \in Invite, InvitePage(i) PROVE Arrived
  BY <1>11, <1>15 DEF InvitePage
<1>16. CASE Tick \/ UNCHANGED vars
  BY <1>11, <1>16 DEF Tick, vars
<1> HIDE DEF Arrived
<1> QED
  BY <1>1, <1>2, <1>3, <1>4, <1>5, <1>6, <1>7, <1>8, <1>9, <1>10, <1>12,
     <1>13, <1>14, <1>15, <1>16 DEF Next

\* Once there is an account no further request gets into setup.
LEMMA SetupWindow ==
    ASSUME TypeOK, [Next]_vars, users # {}
    PROVE  SettingUp' \subseteq SettingUp
  BY Arrivals DEF SettingUp, At

\* Once an invite is used no further claim of it gets past invite_valid.
LEMMA ClaimWindow ==
    ASSUME TypeOK, [Next]_vars, NEW i \in used
    PROVE  i \in used' /\ Claiming(i)' \subseteq Claiming(i)
<1>1. i \in used'
  BY StepAccumulates DEF Accumulates
<1>2. Claiming(i)' \subseteq Claiming(i)
  <2> SUFFICES ASSUME NEW s \in Request, req'[s].pc = "claim_insert",
                      req'[s].invite = i
               PROVE  req'[s] = req[s]
    BY DEF Claiming, At
  <2> QED
    BY Arrivals DEF InviteValid, Pending
<1> QED
  BY <1>1, <1>2

\* A used invite stays used, and lets no further claim in.
THEOREM ClaimsCloseHolds == Spec => ClaimsClose
<1>1. TypeOK /\ [Next]_vars =>
        [\A i \in used : i \in used' /\ Claiming(i)' \subseteq Claiming(i)]_vars
  BY ClaimWindow
<1> QED
  BY <1>1, TypeCorrect, PTL DEF Spec, ClaimsClose

\* A session that has ended stays ended: only create_session adds a row, and
\* for a token that was never issued.
LEMMA NoRevival ==
    ASSUME TypeOK, [Next]_vars, NEW t \in Token, Issued(t), ~Live(t)
    PROVE  ~Live(t)'
<1>1. ASSUME NEW r \in Request, NEW u \in Token, LoginSession(r, u)
      PROVE  ~Live(t)'
  BY <1>1 DEF LoginSession, Live, Issued
<1>2. ASSUME NEW u \in Token, Logout(u) \/ Expire(u) PROVE ~Live(t)'
  BY <1>2 DEF Logout, Expire, Live
<1>3. ASSUME UNCHANGED sessionVars PROVE ~Live(t)'
  BY <1>3 DEF sessionVars, Live
<1>4. ASSUME NEW r \in Request, NEW n \in Username,
             \/ SetupCount(r, n)
             \/ \E ip \in Ip : LoginCheck(r, n, ip)
             \/ \E i \in Invite : ClaimValid(r, i, n)
      PROVE  ~Live(t)'
  BY <1>3, <1>4 DEF SetupCount, LoginCheck, ClaimValid, dbVars
<1>5. ASSUME NEW r \in Request,
             \/ SetupInsert(r) \/ ClaimInsert(r) \/ NameTaken(r)
             \/ ClaimConsume(r) \/ LoginLookup(r) \/ LoginWrong(r)
             \/ LoginRight(r) \/ AuthUser(r) \/ CsrfRefused(r)
             \/ Disconnect(r) \/ InviteList(r) \/ DbFails(r)
             \/ \E ip \in Ip : LoginThrottled(r, ip)
             \/ \E i \in Invite : InviteInsert(r, i)
             \/ \E u \in Token : AuthSession(r, u)
      PROVE  ~Live(t)'
  BY <1>3, <1>5 DEF SetupInsert, ClaimInsert, NameTaken, ClaimConsume,
       LoginLookup, LoginWrong, LoginRight, AuthUser, CsrfRefused, Disconnect,
       InviteList, DbFails, LoginThrottled, InviteInsert, AuthSession, dbVars
<1>6. ASSUME NEW i \in Invite, InvitePage(i) PROVE ~Live(t)'
  BY <1>3, <1>6 DEF InvitePage, dbVars
<1>7. CASE Tick \/ Restart \/ UNCHANGED vars
  BY <1>3, <1>7 DEF Tick, Restart, vars, dbVars
<1> QED
  BY <1>1, <1>2, <1>4, <1>5, <1>6, <1>7 DEF Next

\* After a session has ended, the requests acting with it only finish.
THEOREM SessionsCloseHolds == Spec => SessionsClose
<1>1. ASSUME TypeOK, [Next]_vars, NEW t \in Token, Issued(t), ~Live(t)
      PROVE  ~Live(t)' /\ ActingFor(t)' \subseteq ActingFor(t)
  BY <1>1, Arrivals, NoRevival DEF ActingFor
<1>2. TypeOK /\ [Next]_vars =>
        [\A t \in Token : Issued(t) /\ ~Live(t) =>
           ~Live(t)' /\ ActingFor(t)' \subseteq ActingFor(t)]_vars
  BY <1>1
<1> QED
  BY <1>2, TypeCorrect, PTL DEF Spec, SessionsClose

-----------------------------------------------------------------------------
(* The number of admins *)

AdminsInv == IsFiniteSet(admins) /\ AdminsBounded

LEMMA SettingUpFinite ==
    /\ IsFiniteSet(SettingUp) /\ Cardinality(SettingUp) \in Nat
    /\ Cardinality(SettingUp) <= Cardinality(Request)
    /\ IsFiniteSet(SettingUp') /\ Cardinality(SettingUp') \in Nat
    /\ Cardinality(SettingUp') <= Cardinality(Request)
    /\ Cardinality(Request) \in Nat
<1>1. SettingUp \subseteq Request /\ SettingUp' \subseteq Request
  BY DEF SettingUp
<1> QED
  BY <1>1, RequestAssumption, FS_Subset, FS_CardinalityType

LEMMA AdminsInit == Init => AdminsInv
<1> SUFFICES ASSUME Init PROVE AdminsInv
  OBVIOUS
<1> QED
  BY FS_EmptySet, SettingUpFinite DEF Init, AdminsInv, AdminsBounded

LEMMA AdminsNext == TypeOK /\ AdminsInv /\ [Next]_vars => AdminsInv'
<1> SUFFICES ASSUME TypeOK, AdminsInv, [Next]_vars PROVE AdminsInv'
  OBVIOUS
<1>0. Cardinality(admins) \in Nat
  BY FS_CardinalityType DEF AdminsInv
<1>1. ASSUME NEW r \in Request, SetupInsert(r) PROVE AdminsInv'
  <2> DEFINE n == req[r].user
  <2>1. n \notin admins /\ admins' = admins \cup {n}
    BY <1>1 DEF SetupInsert, CreateUser, TypeOK
  <2>2. IsFiniteSet(admins') /\ Cardinality(admins') = Cardinality(admins) + 1
    BY <2>1, FS_AddElement DEF AdminsInv
  <2>3. r \in SettingUp /\ SettingUp' = SettingUp \ {r}
    BY <1>1 DEF SetupInsert, SettingUp, At, Finish, Continue, Idle, TypeOK
  <2>4. Cardinality(SettingUp') = Cardinality(SettingUp) - 1
    BY <2>3, SettingUpFinite, FS_RemoveElement
  <2> QED
    BY <1>0, <2>2, <2>4, SettingUpFinite DEF AdminsInv, AdminsBounded
<1>2. ASSUME admins' = admins PROVE AdminsInv'
  <2>1. CASE users = {}
    <3>1. Cardinality(admins') = 0
      BY <1>2, <2>1, FS_EmptySet DEF TypeOK
    <3> QED
      BY <1>2, <3>1, SettingUpFinite DEF AdminsInv, AdminsBounded
  <2>2. CASE users # {}
    <3>1. SettingUp' \subseteq SettingUp
      BY <2>2, SetupWindow
    <3>2. Cardinality(SettingUp') <= Cardinality(SettingUp)
      BY <3>1, SettingUpFinite, FS_Subset
    <3> QED
      BY <1>0, <1>2, <3>2, SettingUpFinite DEF AdminsInv, AdminsBounded
  <2> QED
    BY <2>1, <2>2
<1>3. ASSUME NEW r \in Request, ClaimInsert(r) PROVE AdminsInv'
  BY <1>2, <1>3 DEF ClaimInsert, CreateUser
<1> QED
  BY <1>1, <1>2, <1>3, Writers

LEMMA AdminsInvHolds == Spec => []AdminsInv
  BY AdminsInit, AdminsNext, TypeCorrect, PTL DEF Spec

\* Setup never creates more admins than requests were being served at once.
THEOREM AdminsBoundedHolds == Spec => []AdminsBounded
<1>1. AdminsInv => AdminsBounded
  BY DEF AdminsInv
<1> QED
  BY <1>1, AdminsInvHolds, PTL

-----------------------------------------------------------------------------
(* The number of accounts an invite gives *)

\* The requests that have made their account and not consumed their invite.
Consuming(i) ==
    {r \in Request : req[r].pc = "claim_consume" /\ req[r].invite = i}

\* While an invite is unused, the accounts it gave are those of claims that are
\* about to consume it: that is what bounds them when it is used.
JoinedInv ==
    \A i \in Invite :
      /\ IsFiniteSet(Joined(i))
      /\ i \notin used => Joined(i) \subseteq {req[r].user : r \in Consuming(i)}
      /\ Cardinality(Joined(i)) + Cardinality(Claiming(i)) <= Cardinality(Request)

\* Different requests are before and after their create_user.
LEMMA RequestsBound ==
    ASSUME NEW C \in SUBSET Request, NEW D \in SUBSET Request, C \cap D = {},
           NEW q, NEW J, J \subseteq {q[r].user : r \in C}
    PROVE  /\ IsFiniteSet(J) /\ Cardinality(J) \in Nat /\ Cardinality(D) \in Nat
           /\ Cardinality(J) + Cardinality(D) <= Cardinality(Request)
<1> DEFINE Img == {q[r].user : r \in C}
           f == [r \in C |-> q[r].user]
<1>1. /\ IsFiniteSet(C) /\ Cardinality(C) \in Nat
      /\ IsFiniteSet(D) /\ Cardinality(D) \in Nat
      /\ IsFiniteSet(C \cup D) /\ Cardinality(C \cup D) \in Nat
      /\ Cardinality(C \cup D) <= Cardinality(Request) /\ Cardinality(Request) \in Nat
  <2>1. C \cup D \subseteq Request
    OBVIOUS
  <2> QED
    BY <2>1, RequestAssumption, FS_Subset, FS_CardinalityType
<1>2. Cardinality(C \cup D) = Cardinality(C) + Cardinality(D)
  <2>1. Cardinality(C \cap D) = 0
    BY FS_EmptySet
  <2>2. Cardinality(C \cup D) =
          Cardinality(C) + Cardinality(D) - Cardinality(C \cap D)
    BY <1>1, FS_Union, Zenon
  <2> QED
    BY <1>1, <2>1, <2>2
<1>3. f \in Surjection(C, Img)
  BY DEF Surjection
<1>4. IsFiniteSet(Img) /\ Cardinality(Img) <= Cardinality(C)
  BY <1>1, <1>3, FS_Surjection
<1>5. Cardinality(Img) \in Nat
  BY <1>4, FS_CardinalityType
<1>6. IsFiniteSet(J) /\ Cardinality(J) <= Cardinality(Img) /\ Cardinality(J) \in Nat
  <2> HIDE DEF Img
  <2> QED BY <1>4, FS_Subset, FS_CardinalityType DEF Img
<1> QED
  BY <1>1, <1>2, <1>4, <1>5, <1>6

\* A claim that has made its account stays where it is, consumes its invite, or
\* is cut off.
LEMMA ConsumerStays ==
    ASSUME TypeOK, [Next]_vars
    PROVE  /\ cut \subseteq cut'
           /\ \A s \in Request : req[s].pc = "claim_consume" =>
                \/ req'[s] = req[s]
                \/ req[s].invite \in used'
                \/ req[s].user \in cut'
<1> DEFINE Stays == \A s \in Request : req[s].pc = "claim_consume" =>
                      \/ req'[s] = req[s]
                      \/ req[s].invite \in used'
                      \/ req[s].user \in cut'
<1>1. ASSUME NEW r \in Request, NEW a, Continue(r, a), req[r].pc # "claim_consume",
             cut' = cut
      PROVE  cut \subseteq cut' /\ Stays
  BY <1>1 DEF Continue, TypeOK
<1>2. ASSUME req' = req, cut' = cut
      PROVE  cut \subseteq cut' /\ Stays
  BY <1>2
<1> HIDE DEF Stays
<1>3. ASSUME NEW r \in Request, SetupInsert(r) \/ ClaimInsert(r)
      PROVE  cut \subseteq cut' /\ Stays
  BY <1>1, <1>3 DEF SetupInsert, ClaimInsert, CreateUser, At, Finish
<1>4. ASSUME NEW r \in Request,
             \/ NameTaken(r) \/ LoginWrong(r) \/ LoginRight(r) \/ LoginLookup(r)
             \/ CsrfRefused(r) \/ Disconnect(r) \/ InviteList(r) \/ AuthUser(r)
             \/ \E i \in Invite : InviteInsert(r, i)
             \/ \E t \in Token : LoginSession(r, t) \/ AuthSession(r, t)
             \/ \E n \in Username : SetupCount(r, n)
             \/ \E n \in Username, ip \in Ip : LoginCheck(r, n, ip)
             \/ \E n \in Username, i \in Invite : ClaimValid(r, i, n)
      PROVE  cut \subseteq cut' /\ Stays
  <2>1. req[r].pc # "claim_consume" /\ cut' = cut /\ \E a : Continue(r, a)
    BY <1>4 DEF NameTaken, LoginWrong, LoginRight, LoginLookup, CsrfRefused,
         Disconnect, InviteList, AuthUser, InviteInsert, LoginSession, AuthSession,
         SetupCount, LoginCheck, ClaimValid, At, Finish, dbVars, userVars
  <2> QED
    BY <1>1, <2>1
<1>5. ASSUME NEW r \in Request, ClaimConsume(r)
      PROVE  cut \subseteq cut' /\ Stays
  BY <1>5 DEF ClaimConsume, Finish, Continue, TypeOK, userVars, Stays
<1>6. ASSUME NEW r \in Request, DbFails(r)
      PROVE  cut \subseteq cut' /\ Stays
  BY <1>6 DEF DbFails, Finish, Continue, Unconsumed, At, TypeOK, Stays
<1>7. CASE Restart
  BY <1>7 DEF Restart, Unconsumed, At, Stays
<1>8. ASSUME \/ Tick \/ UNCHANGED vars
             \/ \E t \in Token : Logout(t) \/ Expire(t)
             \/ \E i \in Invite : InvitePage(i)
             \/ \E r \in Request, ip \in Ip : LoginThrottled(r, ip)
      PROVE  cut \subseteq cut' /\ Stays
  BY <1>2, <1>8 DEF Tick, vars, Logout, Expire, InvitePage, LoginThrottled, dbVars, userVars
<1> QED
  BY <1>3, <1>4, <1>5, <1>6, <1>7, <1>8 DEF Next, Stays

LEMMA JoinedInit == Init => JoinedInv
<1> SUFFICES ASSUME Init, NEW i \in Invite
             PROVE  /\ Joined(i) = {} /\ Claiming(i) = {}
                    /\ IsFiniteSet({}) /\ Cardinality({}) + Cardinality({}) <= Cardinality(Request)
  BY DEF JoinedInv
<1>1. Joined(i) = {} /\ Claiming(i) = {}
  BY DEF Init, Joined, Claiming, At, Idle
<1>2. IsFiniteSet({}) /\ Cardinality({}) = 0
  BY FS_EmptySet
<1> QED
  BY <1>1, <1>2, RequestAssumption, FS_CardinalityType

\* An account joins with an invite in one place.
LEMMA JoinedMoves ==
    ASSUME IInv, [Next]_vars, NEW i \in Invite
    PROVE  \/ Joined(i)' \subseteq Joined(i)
           \/ \E r \in Claiming(i) :
                /\ ClaimInsert(r)
                /\ req[r].user \notin Joined(i)
                /\ Joined(i)' = Joined(i) \cup {req[r].user}
<1> USE DEF IInv
<1>1. cut \subseteq cut' /\ i # None
  BY ConsumerStays, NoneAssumption
<1>2. ASSUME UNCHANGED <<users, admins, via>>
      PROVE  Joined(i)' \subseteq Joined(i)
  BY <1>1, <1>2 DEF Joined
<1>3. ASSUME NEW r \in Request, SetupInsert(r)
      PROVE  Joined(i)' \subseteq Joined(i)
  BY <1>1, <1>3, Locals DEF SetupInsert, At, CreateUser, Joined, TypeOK
<1>4. ASSUME NEW r \in Request, ClaimInsert(r)
      PROVE  \/ Joined(i)' \subseteq Joined(i)
             \/ /\ r \in Claiming(i)
                /\ req[r].user \notin Joined(i)
                /\ Joined(i)' = Joined(i) \cup {req[r].user}
  <2> DEFINE n == req[r].user
  <2>1. /\ n \in Username /\ n \notin users /\ users' = users \cup {n}
        /\ via' = [via EXCEPT ![n] = req[r].invite] /\ cut' = cut
    BY <1>4, Locals DEF ClaimInsert, At, CreateUser, TypeOK
  <2>2. \A u \in users : via'[u] = via[u]
    BY <2>1 DEF TypeOK
  <2>3. via'[n] = req[r].invite /\ n \notin cut
    BY <2>1 DEF TypeOK
  <2>4. CASE req[r].invite = i
    BY <1>4, <2>1, <2>2, <2>3, <2>4 DEF Joined, Claiming, ClaimInsert
  <2>5. CASE req[r].invite # i
    BY <2>1, <2>2, <2>3, <2>5 DEF Joined
  <2> QED
    BY <2>4, <2>5
<1> QED
  BY <1>2, <1>3, <1>4, Writers

LEMMA JoinedNext == IInv /\ JoinedInv /\ [Next]_vars => JoinedInv'
<1> SUFFICES ASSUME IInv, JoinedInv, [Next]_vars, NEW i \in Invite
             PROVE  /\ IsFiniteSet(Joined(i)')
                    /\ i \notin used' =>
                         Joined(i)' \subseteq {req'[r].user : r \in Consuming(i)'}
                    /\ Cardinality(Joined(i)') + Cardinality(Claiming(i)') <=
                         Cardinality(Request)
  BY DEF JoinedInv
<1>1. /\ IsFiniteSet(Joined(i)) /\ Cardinality(Joined(i)) \in Nat
      /\ i \notin used => Joined(i) \subseteq {req[r].user : r \in Consuming(i)}
      /\ Cardinality(Joined(i)) + Cardinality(Claiming(i)) <= Cardinality(Request)
  BY FS_CardinalityType DEF JoinedInv
<1>2. /\ Claiming(i) \in SUBSET Request /\ Claiming(i)' \in SUBSET Request
      /\ Consuming(i)' \in SUBSET Request /\ Consuming(i)' \cap Claiming(i)' = {}
  BY DEF Claiming, Consuming, At
<1>3. /\ IsFiniteSet(Claiming(i)) /\ Cardinality(Claiming(i)) \in Nat
      /\ IsFiniteSet(Claiming(i)') /\ Cardinality(Claiming(i)') \in Nat
      /\ Cardinality(Request) \in Nat
  BY <1>2, RequestAssumption, FS_Subset, FS_CardinalityType
<1>4. CASE i \notin used'
  <2>1. i \notin used
    BY <1>4, StepAccumulates DEF Accumulates, IInv
  <2>2. ASSUME NEW n \in Joined(i) \cap Joined(i)'
        PROVE  n \in {req'[r].user : r \in Consuming(i)'}
    <3>1. PICK s \in Consuming(i) : req[s].user = n
      BY <1>1, <2>1, <2>2
    <3>2. n \notin cut'
      BY <2>2 DEF Joined
    <3>3. req'[s] = req[s]
      BY <1>4, <3>1, <3>2, ConsumerStays DEF Consuming, IInv
    <3> QED
      BY <3>1, <3>3 DEF Consuming
  <2>3. ASSUME NEW r \in Claiming(i), ClaimInsert(r)
        PROVE  req[r].user \in {req'[s].user : s \in Consuming(i)'}
    <3>1. /\ r \in Request /\ req[r] \in Activation
          /\ req[r].pc = "claim_insert" /\ req[r].invite = i
      BY <2>3 DEF Claiming, At, IInv, TypeOK
    <3>2. req'[r] = [req[r] EXCEPT !.pc = "claim_consume"]
      BY <2>3, <3>1 DEF ClaimInsert, Continue, IInv, TypeOK
    <3>3. /\ req'[r].pc = "claim_consume" /\ req'[r].invite = i
          /\ req'[r].user = req[r].user
      BY <3>1, <3>2 DEF Activation
    <3> QED
      BY <3>1, <3>3 DEF Consuming
  <2>4. Joined(i)' \subseteq {req'[r].user : r \in Consuming(i)'}
    BY <2>2, <2>3, JoinedMoves
  <2> QED
    BY <1>2, <2>4, RequestsBound
<1>5. CASE i \in used' /\ i \notin used
  <2>1. PICK r \in Request : ClaimConsume(r)
    BY <1>5, Writers DEF SetupInsert, ClaimInsert, inviteVars
  <2>2. Joined(i)' \subseteq Joined(i)
    BY <2>1, JoinedMoves DEF ClaimConsume, ClaimInsert, At, CreateUser, userVars
  <2>3. Claiming(i)' \subseteq Claiming(i)
    BY <2>1 DEF ClaimConsume, Finish, Continue, Idle, Claiming, At, IInv, TypeOK
  <2>4. /\ IsFiniteSet(Joined(i)') /\ Cardinality(Joined(i)') \in Nat
        /\ Cardinality(Joined(i)') <= Cardinality(Joined(i))
        /\ Cardinality(Claiming(i)') <= Cardinality(Claiming(i))
    BY <1>1, <1>3, <2>2, <2>3, FS_Subset, FS_CardinalityType
  <2> QED
    BY <1>1, <1>3, <1>5, <2>4
<1>6. CASE i \in used' /\ i \in used
  <2>1. Claiming(i)' \subseteq Claiming(i)
    BY <1>6, ClaimWindow DEF IInv
  <2>2. CASE Joined(i)' \subseteq Joined(i)
    <3>1. /\ IsFiniteSet(Joined(i)') /\ Cardinality(Joined(i)') \in Nat
          /\ Cardinality(Joined(i)') <= Cardinality(Joined(i))
          /\ Cardinality(Claiming(i)') <= Cardinality(Claiming(i))
      BY <1>1, <1>3, <2>1, <2>2, FS_Subset, FS_CardinalityType
    <3> QED
      BY <1>1, <1>3, <1>6, <3>1
  <2>3. ASSUME NEW r \in Claiming(i), ClaimInsert(r), req[r].user \notin Joined(i),
               Joined(i)' = Joined(i) \cup {req[r].user}
        PROVE  /\ IsFiniteSet(Joined(i)')
               /\ Cardinality(Joined(i)') + Cardinality(Claiming(i)') <= Cardinality(Request)
    <3>1. /\ IsFiniteSet(Joined(i)')
          /\ Cardinality(Joined(i)') = Cardinality(Joined(i)) + 1
      <4>1. /\ IsFiniteSet(Joined(i) \cup {req[r].user})
            /\ Cardinality(Joined(i) \cup {req[r].user}) =
                 IF req[r].user \in Joined(i) THEN Cardinality(Joined(i))
                                              ELSE Cardinality(Joined(i)) + 1
        BY <1>1, FS_AddElement, Zenon
      <4> QED
        BY <2>3, <4>1
    <3>2. r \notin Claiming(i)'
      <4>1. r \in Request /\ req[r] \in Activation /\ req[r].pc = "claim_insert"
        BY <2>3 DEF Claiming, At, IInv, TypeOK
      <4>2. req'[r] = [req[r] EXCEPT !.pc = "claim_consume"]
        BY <2>3, <4>1 DEF ClaimInsert, Continue, IInv, TypeOK
      <4>3. req'[r].pc = "claim_consume"
        BY <4>1, <4>2 DEF Activation
      <4> QED
        BY <4>3 DEF Claiming, At
    <3>3. Claiming(i)' \subseteq Claiming(i) \ {r}
      BY <2>1, <3>2
    <3>4. /\ IsFiniteSet(Claiming(i) \ {r})
          /\ Cardinality(Claiming(i) \ {r}) = Cardinality(Claiming(i)) - 1
      BY <1>3, <2>3, FS_RemoveElement
    <3>5. Cardinality(Claiming(i)') <= Cardinality(Claiming(i)) - 1
      BY <3>3, <3>4, FS_Subset
    <3> QED
      BY <1>1, <1>3, <3>1, <3>5
  <2> QED
    BY <1>6, <2>2, <2>3, JoinedMoves
<1> QED
  BY <1>4, <1>5, <1>6

\* However claims of one invite interleave, fail or are cut off, it gives no more
\* accounts than requests are served at a time, apart from those cut off.
THEOREM ClaimsBoundedHolds == Spec => []ClaimsBounded
<1>1. Init => IInv /\ JoinedInv
  BY IInvInit, JoinedInit
<1>2. (IInv /\ JoinedInv) /\ [Next]_vars => (IInv /\ JoinedInv)'
  BY IInvNext, JoinedNext
<1>3. JoinedInv => ClaimsBounded
  BY DEF JoinedInv, ClaimsBounded
<1> QED
  BY <1>1, <1>2, <1>3, PTL DEF Spec

-----------------------------------------------------------------------------
(* Where admins come from, and what an invite that cannot be read gives *)

LEMMA InviteesInit == Init => InviteesAreMembers
  BY DEF Init, InviteesAreMembers

LEMMA InviteesNext ==
    TypeOK /\ InviteesAreMembers /\ [Next]_vars => InviteesAreMembers'
<1> SUFFICES ASSUME TypeOK, InviteesAreMembers, [Next]_vars
             PROVE  InviteesAreMembers'
  OBVIOUS
<1>1. ASSUME NEW r \in Request, SetupInsert(r) \/ ClaimInsert(r)
      PROVE  InviteesAreMembers'
  <2>1. req[r].user \in Username
    BY <1>1, Locals DEF SetupInsert, ClaimInsert, At, TypeOK
  <2> QED
    BY <1>1, <2>1
       DEF SetupInsert, ClaimInsert, CreateUser, TypeOK, InviteesAreMembers
<1>2. ASSUME UNCHANGED <<users, admins, via>> PROVE InviteesAreMembers'
  BY <1>2 DEF InviteesAreMembers
<1> QED
  BY <1>1, <1>2, Writers

\* A claim never makes an admin: whoever was invited is a member for good.
THEOREM InviteesAreMembersHolds == Spec => []InviteesAreMembers
  BY InviteesInit, InviteesNext, TypeCorrect, PTL DEF Spec

\* The accounts without an invite are the admins, so the bound on admins is one
\* on the accounts setup makes: at most as many as requests are served at once.
LEMMA SetupAccounts ==
    ASSUME InviteesAreMembers, MembersWereInvited, TypeOK
    PROVE  {n \in users : via[n] = None} = admins
  BY DEF InviteesAreMembers, MembersWereInvited, TypeOK

\* "The first account created is an admin; everyone else joins via invite links"
\* (README.md:61-62) is right of a server that handles one request at a time:
\* only the interleaving of setups (AdminsBounded) takes it away.
THEOREM OneAtATime ==
    ASSUME Cardinality(Request) = 1
    PROVE  Spec => []OneAccountFromSetup
<1>1. TypeOK /\ AdminsInv /\ InviteesAreMembers /\ MembersWereInvited =>
        OneAccountFromSetup
  <2> SUFFICES ASSUME TypeOK, AdminsInv, InviteesAreMembers, MembersWereInvited
               PROVE  OneAccountFromSetup
    OBVIOUS
  <2>1. Cardinality(admins) \in Nat
    BY FS_CardinalityType DEF AdminsInv
  <2>2. Cardinality(admins) <= 1
    BY <2>1, SettingUpFinite DEF AdminsInv, AdminsBounded
  <2> QED
    BY <2>2, SetupAccounts DEF OneAccountFromSetup
<1> QED
  BY <1>1, TypeCorrect, AdminsInvHolds, InviteesAreMembersHolds,
     MembersWereInvitedHolds, PTL

LEMMA UnreadableInit == Init => UnreadableGiveNothing
  BY DEF Init, UnreadableGiveNothing, Idle

\* A claim starts only where invite_valid read the invite, so neither the
\* account nor the consumption at its end is one of an unreadable invite.
LEMMA UnreadableNext ==
    TypeOK /\ UnreadableGiveNothing /\ [Next]_vars => UnreadableGiveNothing'
<1> SUFFICES ASSUME TypeOK, UnreadableGiveNothing, [Next]_vars,
                    NEW i \in Unreadable
             PROVE  /\ i \notin used'
                    /\ \A n \in users' : via'[n] # i
                    /\ \A r \in Request :
                         req'[r].pc \in {"claim_insert", "claim_consume"} =>
                           req'[r].invite # i
  BY DEF UnreadableGiveNothing
<1>0. i \in Invite /\ i # None
  BY SwitchAssumption, NoneAssumption
<1>1. ASSUME NEW r \in Request,
             req'[r].pc \in {"claim_insert", "claim_consume"}
      PROVE  req'[r].invite # i
  BY <1>1, Arrivals DEF UnreadableGiveNothing, InviteValid
<1>2. i \notin used'
  <2>1. ASSUME NEW r \in Request, ClaimConsume(r) PROVE i \notin used'
    BY <2>1 DEF ClaimConsume, At, UnreadableGiveNothing
  <2>2. ASSUME NEW r \in Request, SetupInsert(r) \/ ClaimInsert(r)
        PROVE  used' = used
    BY <2>2 DEF SetupInsert, ClaimInsert, inviteVars
  <2> QED
    BY <2>1, <2>2, Writers DEF UnreadableGiveNothing
<1>3. ASSUME NEW n \in users' PROVE via'[n] # i
  <2>0. n \in users => via'[n] # i
    BY StepAccumulates DEF Accumulates, UnreadableGiveNothing
  <2>1. ASSUME NEW r \in Request, SetupInsert(r) PROVE via'[n] # i
    <3>1. req[r].user \in Username
      BY <2>1, Locals DEF SetupInsert, At, TypeOK
    <3> QED
      BY <1>0, <1>3, <2>0, <2>1, <3>1 DEF SetupInsert, CreateUser, TypeOK
  <2>2. ASSUME NEW r \in Request, ClaimInsert(r) PROVE via'[n] # i
    <3>1. req[r].user \in Username
      BY <2>2, Locals DEF ClaimInsert, At, TypeOK
    <3>2. req[r].invite # i
      BY <2>2 DEF ClaimInsert, At, UnreadableGiveNothing
    <3> QED
      BY <1>3, <2>0, <2>2, <3>1, <3>2 DEF ClaimInsert, CreateUser, TypeOK
  <2>3. ASSUME UNCHANGED <<users, admins, via>> PROVE via'[n] # i
    BY <1>3, <2>3 DEF UnreadableGiveNothing
  <2> QED
    BY <2>1, <2>2, <2>3, Writers
<1> QED
  BY <1>1, <1>2, <1>3

\* Whatever set of invites invite_valid fails on, none of them is ever claimed.
THEOREM UnreadableHolds == Spec => []UnreadableGiveNothing
  BY UnreadableInit, UnreadableNext, TypeCorrect, PTL DEF Spec

\* The program as it is built, where every pending invite is unreadable: nobody
\* ever joins by an invite, and the only accounts are the admins setup made.
THEOREM NobodyJoins ==
    ASSUME Unreadable = Invite
    PROVE  Spec => [](users = admins /\ used = {})
<1>1. TypeOK /\ UnreadableGiveNothing /\ MembersWereInvited =>
        users = admins /\ used = {}
  BY DEF TypeOK, UnreadableGiveNothing, MembersWereInvited
<1> QED
  BY <1>1, TypeCorrect, UnreadableHolds, MembersWereInvitedHolds, PTL

-----------------------------------------------------------------------------
(* Accounts implements LoginLimiter *)

LoginSteps == {"login_lookup", "login_wrong", "login_right"}

\* What a move of one request means for the limiter.
LEMMA TryingMoves ==
    ASSUME TypeOK, NEW r \in Request, NEW a, Continue(r, a)
    PROVE  Trying' = [Trying EXCEPT ![r] = IF a.pc \in LoginSteps THEN a.ip ELSE None]
  BY DEF Continue, Trying, LoginSteps, TypeOK

\* A request that was not trying and still is not.
LEMMA NotTrying ==
    ASSUME TypeOK, NEW r \in Request, NEW a, Continue(r, a),
           a.pc \notin LoginSteps, req[r].pc \notin LoginSteps
    PROVE  Trying' = Trying
  BY TryingMoves DEF Trying, LoginSteps

LEMMA LimiterInit == Init => Limiter!Init
  BY DEF Init, Limiter!Init, Trying, Idle

LEMMA LimiterStep == TypeOK /\ [Next]_vars => [Limiter!Next]_(Limiter!vars)
<1> SUFFICES ASSUME TypeOK, [Next]_vars PROVE [Limiter!Next]_(Limiter!vars)
  OBVIOUS
<1>0. ASSUME attempts' = attempts, Trying' = Trying
      PROVE  [Limiter!Next]_(Limiter!vars)
  BY <1>0 DEF Limiter!vars
<1>1. ASSUME NEW r \in Request, NEW n \in Username, NEW ip \in Ip,
             LoginCheck(r, n, ip)
      PROVE  Limiter!Next
  <2>1. Trying[r] = None
    BY <1>1 DEF LoginCheck, At, Trying
  <2>2. Trying' = [Trying EXCEPT ![r] = ip]
    BY <1>1, TryingMoves DEF LoginCheck, LoginSteps
  <2>3. Limiter!CheckPasses(r, ip)
    BY <1>1, <2>1, <2>2 DEF LoginCheck, Limiter!CheckPasses
  <2> QED
    BY <2>3 DEF Limiter!Next
<1>2. ASSUME NEW r \in Request, NEW ip \in Ip, LoginThrottled(r, ip)
      PROVE  Limiter!Next
  <2>1. Trying[r] = None /\ Trying' = Trying
    BY <1>2 DEF LoginThrottled, At, Trying
  <2>2. Limiter!CheckRefuses(r, ip)
    BY <1>2, <2>1 DEF LoginThrottled, Limiter!CheckRefuses
  <2> QED
    BY <2>2 DEF Limiter!Next
<1>3. ASSUME NEW r \in Request, LoginWrong(r) PROVE Limiter!Next
  <2>1. req[r].pc = "login_wrong" /\ req[r].ip \in Ip
    BY <1>3, Locals DEF LoginWrong, At, TypeOK
  <2>2. Trying[r] = req[r].ip /\ Trying[r] # None
    BY <2>1, NoneAssumption DEF Trying
  <2>3. Trying' = [Trying EXCEPT ![r] = None]
    BY <1>3, TryingMoves DEF LoginWrong, Finish, Idle, LoginSteps
  <2>4. Limiter!RecordFailure(r)
    BY <1>3, <2>2, <2>3 DEF LoginWrong, Limiter!RecordFailure
  <2> QED
    BY <2>4 DEF Limiter!Next
<1>4. ASSUME NEW r \in Request, LoginRight(r) PROVE Limiter!Next
  <2>1. req[r].pc = "login_right" /\ req[r].ip \in Ip
    BY <1>4, Locals DEF LoginRight, At, TypeOK
  <2>2. Trying[r] = req[r].ip /\ Trying[r] # None
    BY <2>1, NoneAssumption DEF Trying
  <2>3. Trying' = [Trying EXCEPT ![r] = None]
    BY <1>4, TryingMoves DEF LoginRight, LoginSteps
  <2>4. Limiter!RecordSuccess(r)
    BY <1>4, <2>2, <2>3 DEF LoginRight, Limiter!RecordSuccess
  <2> QED
    BY <2>4 DEF Limiter!Next
<1>5. ASSUME NEW r \in Request, LoginLookup(r)
      PROVE  [Limiter!Next]_(Limiter!vars)
  <2>1. PICK v \in {"login_wrong", "login_right"} :
          Continue(r, [req[r] EXCEPT !.pc = v])
    BY <1>5 DEF LoginLookup
  <2>2. req[r] \in Activation /\ req[r].pc = "login_lookup"
    BY <1>5 DEF LoginLookup, At, TypeOK
  <2>3. /\ [req[r] EXCEPT !.pc = v].pc = v
        /\ [req[r] EXCEPT !.pc = v].ip = req[r].ip
    BY <2>2 DEF Activation
  <2>4. Trying' = [Trying EXCEPT ![r] = req[r].ip]
    BY <2>1, <2>3, TryingMoves DEF LoginSteps
  <2>5. Trying[r] = req[r].ip
    BY <2>2 DEF Trying
  <2>6. Trying' = Trying
    BY <2>4, <2>5 DEF Trying
  <2> QED
    BY <1>0, <1>5, <2>6 DEF LoginLookup
<1>6. ASSUME NEW r \in Request, DbFails(r)
      PROVE  [Limiter!Next]_(Limiter!vars)
  <2>1. CASE req[r].pc = "login_lookup"
    <3>1. req[r].ip \in Ip
      BY <2>1, Locals DEF TypeOK
    <3>2. Trying[r] # None
      BY <2>1, <3>1, NoneAssumption DEF Trying
    <3>3. Trying' = [Trying EXCEPT ![r] = None]
      BY <1>6, TryingMoves DEF DbFails, Finish, Idle, LoginSteps
    <3>4. Limiter!Abandon(r)
      BY <1>6, <3>2, <3>3 DEF DbFails, Limiter!Abandon
    <3> QED
      BY <3>4 DEF Limiter!Next
  <2>2. CASE req[r].pc # "login_lookup"
    <3>1. req[r].pc \notin LoginSteps
      BY <1>6, <2>2 DEF DbFails, LoginSteps
    <3>2. Trying' = Trying
      BY <1>6, <3>1, NotTrying DEF DbFails, Finish, Idle, LoginSteps
    <3> QED
      BY <1>0, <1>6, <3>2 DEF DbFails
  <2> QED
    BY <2>1, <2>2
<1>7. CASE Tick
  BY <1>7 DEF Tick, Limiter!Next
<1>8. CASE Restart
  <2>1. Trying' = [r \in Request |-> None]
    BY <1>8 DEF Restart, Trying, Idle
  <2> QED
    BY <1>8, <2>1 DEF Restart, Limiter!Next, Limiter!Restart
<1>9. ASSUME NEW r \in Request,
             \/ SetupInsert(r) \/ NameTaken(r) \/ ClaimConsume(r)
             \/ CsrfRefused(r) \/ Disconnect(r) \/ InviteList(r)
             \/ \E t \in Token : LoginSession(r, t)
      PROVE  [Limiter!Next]_(Limiter!vars)
  <2>1. /\ Continue(r, Idle) /\ attempts' = attempts
        /\ req[r].pc \notin LoginSteps
    BY <1>9 DEF SetupInsert, NameTaken, ClaimConsume, CsrfRefused, Disconnect,
                InviteList, LoginSession, Finish, At, LoginSteps
  <2> QED
    BY <1>0, <2>1, NotTrying DEF Idle, LoginSteps
<1>10. ASSUME NEW r \in Request, NEW n \in Username, SetupCount(r, n)
       PROVE  [Limiter!Next]_(Limiter!vars)
  BY <1>0, <1>10, NotTrying DEF SetupCount, At, LoginSteps
<1>11. ASSUME NEW r \in Request, NEW n \in Username, NEW i \in Invite,
              ClaimValid(r, i, n)
       PROVE  [Limiter!Next]_(Limiter!vars)
  BY <1>0, <1>11, NotTrying DEF ClaimValid, At, LoginSteps
<1>12. ASSUME NEW r \in Request, ClaimInsert(r)
       PROVE  [Limiter!Next]_(Limiter!vars)
  <2>1. req[r] \in Activation /\ req[r].pc = "claim_insert"
    BY <1>12 DEF ClaimInsert, At, TypeOK
  <2>2. [req[r] EXCEPT !.pc = "claim_consume"].pc = "claim_consume"
    BY <2>1 DEF Activation
  <2>3. Trying' = Trying
    BY <1>12, <2>1, <2>2, NotTrying DEF ClaimInsert, LoginSteps
  <2> QED
    BY <1>0, <1>12, <2>3 DEF ClaimInsert
<1>13. ASSUME NEW r \in Request, NEW t \in Token, AuthSession(r, t)
       PROVE  [Limiter!Next]_(Limiter!vars)
  BY <1>0, <1>13, NotTrying DEF AuthSession, At, LoginSteps
<1>14. ASSUME NEW r \in Request, AuthUser(r)
       PROVE  [Limiter!Next]_(Limiter!vars)
  <2>1. req[r] \in Activation /\ req[r].pc = "auth_user"
    BY <1>14 DEF AuthUser, At, TypeOK
  <2>2. [req[r] EXCEPT !.pc = "admin"].pc = "admin"
    BY <2>1 DEF Activation
  <2>3. CASE req[r].user \in admins
    BY <1>0, <1>14, <2>1, <2>2, <2>3, NotTrying DEF AuthUser, LoginSteps
  <2>4. CASE req[r].user \notin admins
    BY <1>0, <1>14, <2>1, <2>4, NotTrying DEF AuthUser, Finish, Idle, LoginSteps
  <2> QED
    BY <2>3, <2>4
<1>15. ASSUME NEW r \in Request, NEW i \in Invite, InviteInsert(r, i)
       PROVE  [Limiter!Next]_(Limiter!vars)
  BY <1>0, <1>15, NotTrying DEF InviteInsert, At, LoginSteps
<1>16. ASSUME NEW t \in Token, Logout(t) \/ Expire(t)
       PROVE  [Limiter!Next]_(Limiter!vars)
  BY <1>0, <1>16 DEF Logout, Expire, Trying
<1>17. ASSUME NEW i \in Invite, InvitePage(i)
       PROVE  [Limiter!Next]_(Limiter!vars)
  BY <1>0, <1>17 DEF InvitePage, Trying
<1>18. CASE UNCHANGED vars
  BY <1>0, <1>18 DEF vars, Trying
<1> QED
  BY <1>1, <1>2, <1>3, <1>4, <1>5, <1>6, <1>7, <1>8, <1>9, <1>10, <1>11,
     <1>12, <1>13, <1>14, <1>15, <1>16, <1>17, <1>18 DEF Next

\* The login handler, interleaved with everything else, implements the
\* limiter's protocol: check, then exactly one report.
THEOREM LimiterProtocolHolds == Spec => LimiterProtocol
<1> QED
  BY LimiterInit, LimiterStep, TypeCorrect, PTL
     DEF Spec, LimiterProtocol, Limiter!Spec

\* A finite set of clients is one for the limiter as well.
LimiterProofs == INSTANCE LoginLimiterProofs
                   WITH Client <- Request, NoIp <- None, trying <- Trying

\* What LoginLimiter assumes of its constants holds of those Accounts gives it.
LEMMA LimiterAssumptions ==
    /\ LimiterProofs!IsFiniteSet(Request)
    /\ None \notin Ip
    /\ MaxAttempts \in Nat \ {0} /\ Window \in Nat \ {0}
<1>1. LimiterProofs!IsFiniteSet(Request)
  BY RequestAssumption, Zenon DEF LimiterProofs!IsFiniteSet, IsFiniteSet
<1> QED
  BY <1>1, NoneAssumption, LimitAssumption

\* The limiter Accounts uses is the one LoginLimiterProofs is about: tlapm has a
\* copy of every definition for each instance, equal when all are expanded.
LEMMA SameLimiter ==
    /\ Limiter!Init => LimiterProofs!Init
    /\ [Limiter!Next]_(Limiter!vars) => [LimiterProofs!Next]_(LimiterProofs!vars)
    /\ LimiterProofs!AttemptsBounded => Limiter!AttemptsBounded
<1>1. Limiter!Init => LimiterProofs!Init
  BY DEF Limiter!Init, Limiter!NoAttempts, LimiterProofs!Init,
         LimiterProofs!NoAttempts
<1>2. /\ \A S : LimiterProofs!Cardinality(S) = Limiter!Cardinality(S)
      /\ \A f, S : LimiterProofs!Restrict(f, S) = Limiter!Restrict(f, S)
  BY Zenon DEF LimiterProofs!Cardinality, Limiter!Cardinality,
         LimiterProofs!Restrict, Limiter!Restrict
<1>3. \A ip : /\ LimiterProofs!Fresh(ip) = Limiter!Fresh(ip)
              /\ LimiterProofs!Throttled(ip) = Limiter!Throttled(ip)
              /\ LimiterProofs!Retain(ip) = Limiter!Retain(ip)
              /\ LimiterProofs!Push(ip) = Limiter!Push(ip)
  BY <1>2, Zenon DEF LimiterProofs!Fresh, LimiterProofs!Throttled, LimiterProofs!Retain,
         LimiterProofs!Push, Limiter!Fresh, Limiter!Throttled, Limiter!Retain, Limiter!Push
<1>4. [Limiter!Next]_(Limiter!vars) => [LimiterProofs!Next]_(LimiterProofs!vars)
  BY <1>3, Zenon
     DEF Limiter!Next, Limiter!CheckPasses, Limiter!CheckRefuses,
         Limiter!RecordFailure, Limiter!RecordSuccess, Limiter!Abandon,
         Limiter!Tick, Limiter!Restart, Limiter!vars, Limiter!NoAttempts,
         LimiterProofs!Next, LimiterProofs!CheckPasses, LimiterProofs!CheckRefuses,
         LimiterProofs!RecordFailure, LimiterProofs!RecordSuccess, LimiterProofs!Abandon,
         LimiterProofs!Tick, LimiterProofs!Restart, LimiterProofs!vars,
         LimiterProofs!NoAttempts
<1>5. LimiterProofs!AttemptsBounded => Limiter!AttemptsBounded
  BY <1>2, Zenon DEF LimiterProofs!AttemptsBounded, LimiterProofs!InFlight,
               Limiter!AttemptsBounded, Limiter!InFlight
<1> QED
  BY <1>1, <1>4, <1>5

\* The bound on the limiter's entries holds where the limiter is used: behind
\* the login handler, whatever the other handlers do in between, and although
\* a failed user lookup or a restart takes logins out of flight unreported.
THEOREM LimiterBoundHolds == Spec => []Limiter!AttemptsBounded
<1> DEFINE Inv == LimiterProofs!TypeOK /\ LimiterProofs!AttemptsBounded
<1>1. Limiter!Init => Inv
  BY SameLimiter, LimiterAssumptions, LimiterProofs!TypeInit,
     LimiterProofs!BoundInit
<1>2. Inv /\ [Limiter!Next]_(Limiter!vars) => Inv'
  BY SameLimiter, LimiterAssumptions, LimiterProofs!TypeNext,
     LimiterProofs!BoundNext
<1>3. Inv => Limiter!AttemptsBounded
  BY SameLimiter
<1> HIDE DEF Inv
<1> QED
  BY <1>1, <1>2, <1>3, LimiterProtocolHolds, PTL
     DEF LimiterProtocol, Limiter!Spec
=============================================================================
