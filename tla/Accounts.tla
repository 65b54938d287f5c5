------------------------------ MODULE Accounts ------------------------------
(***************************************************************************)
(* Accounts, browser sessions and invites: the handlers of src/web/mod.rs  *)
(* for /setup, /login, /logout, /invites and /invite/:token, the session   *)
(* extractors and the login limiter of src/auth/mod.rs, over the tables of *)
(* src/db.rs.                                                              *)
(*                                                                         *)
(* Every Db method takes the one connection's mutex for one statement, so  *)
(* a handler is a sequence of critical sections: each of them is an action *)
(* here, and the handlers of different requests interleave between them.   *)
(* A request's activation holds the handler's locals that are still used.  *)
(*                                                                         *)
(* Operators whose name ends in _M are deliberate mistakes.  No action     *)
(* uses them: each stands before the definition it would replace, to show  *)
(* that a property notices the mistake.                                    *)
(***************************************************************************)
EXTENDS Naturals, FiniteSets

CONSTANTS
    Request,      \* requests being served at the same time
    Username,
    Token,        \* session tokens new_token can return
    Invite,       \* invite tokens new_token can return
    Ip, Mark, MaxAttempts, Window,   \* of the login limiter
    None,         \* no user, no invite, no address
    Unreadable,   \* invites invite_valid cannot read: as the code is built, all
    DbMayFail     \* whether a statement may fail (disk full, I/O error)

ASSUME RequestAssumption == IsFiniteSet(Request)
ASSUME NoneAssumption == None \notin Username \cup Invite \cup Ip
ASSUME LimitAssumption == MaxAttempts \in Nat \ {0} /\ Window \in Nat \ {0}
ASSUME SwitchAssumption == Unreadable \subseteq Invite /\ DbMayFail \in BOOLEAN

VARIABLES
    users,     \* usernames with a row in users
    admins,    \* those whose row has is_admin set
    via,       \* history: the invite an account was created with, or None
    cut,       \* history: accounts whose claim ended before consume_invite
    sessions,  \* tokens with a row in sessions
    expired,   \* those whose expires_at has passed
    owner,     \* the user a token was issued to, None when never issued
    creator,   \* created_by of an invite, None when it has no row
    used,      \* invites whose used_at is set
    links,     \* invites whose link an admin has been shown
    attempts,  \* the limiter's map (see LoginLimiter)
    req,       \* the activation of each request
    page       \* the answer of the last step, if it looked at an invite link

userVars == <<users, admins, via, cut>>
sessionVars == <<sessions, expired, owner>>
inviteVars == <<creator, used, links>>
dbVars == <<userVars, sessionVars, inviteVars>>
vars == <<dbVars, attempts, req, page>>

Idle == [pc |-> "idle"]

Activation ==
    [pc : {"idle"}]
      \cup [pc : {"setup_insert"}, user : Username]
      \cup [pc : {"claim_insert", "claim_consume"},
            user : Username, invite : Invite]
      \cup [pc : {"login_lookup", "login_wrong", "login_right"},
            user : Username, ip : Ip]
      \cup [pc : {"login_session"}, user : Username]
      \cup [pc : {"auth_user", "admin"}, user : Username, token : Token]
      \cup [pc : {"invite_list"}, invite : Invite]

\* The requests that have passed the check of the limiter and not reported.
Trying == [r \in Request |->
             IF req[r].pc \in {"login_lookup", "login_wrong", "login_right"}
             THEN req[r].ip ELSE None]

Limiter == INSTANCE LoginLimiter
             WITH Client <- Request, NoIp <- None, trying <- Trying

TypeOK ==
    /\ users \subseteq Username /\ admins \subseteq users
    /\ via \in [Username -> Invite \cup {None}] /\ cut \subseteq users
    /\ sessions \subseteq Token /\ expired \subseteq Token
    /\ owner \in [Token -> Username \cup {None}]
    /\ \A t \in sessions : owner[t] \in users
    /\ creator \in [Invite -> Username \cup {None}]
    /\ used \subseteq Invite /\ links \subseteq Invite
    /\ req \in [Request -> Activation]
    /\ page \in {"none", "form", "gone", "error"}

Init ==
    /\ users = {} /\ admins = {} /\ via = [n \in Username |-> None] /\ cut = {}
    /\ sessions = {} /\ expired = {} /\ owner = [t \in Token |-> None]
    /\ creator = [i \in Invite |-> None] /\ used = {} /\ links = {}
    /\ attempts = [ip \in Ip |-> Limiter!NoAttempts]
    /\ req = [r \in Request |-> Idle]
    /\ page = "none"

-----------------------------------------------------------------------------
(* How a request moves through its handler. *)

At(r, pc) == req[r].pc = pc

Continue(r, activation) ==
    /\ req' = [req EXCEPT ![r] = activation]
    /\ page' = "none"

\* The response is sent.
Finish(r) == Continue(r, Idle)

-----------------------------------------------------------------------------
(* users *)

\* INSERT OR REPLACE: the row of an existing account is overwritten.
CreateUserReplacing_M(n, isAdmin, i) ==
    /\ users' = users \cup {n}
    /\ admins' = IF isAdmin THEN admins \cup {n} ELSE admins \ {n}
    /\ via' = [via EXCEPT ![n] = i]
    /\ UNCHANGED cut

\* create_user, for a name that is free (username is UNIQUE).
CreateUser(n, isAdmin, i) ==
    /\ n \notin users
    /\ users' = users \cup {n}
    /\ admins' = IF isAdmin THEN admins \cup {n} ELSE admins
    /\ via' = [via EXCEPT ![n] = i]
    /\ UNCHANGED cut

\* create_user fails on a name that is taken: 500, and nothing is stored.
NameTaken(r) ==
    /\ req[r].pc \in {"setup_insert", "claim_insert"}
    /\ req[r].user \in users
    /\ Finish(r)
    /\ UNCHANGED <<dbVars, attempts>>

-----------------------------------------------------------------------------
(* /setup *)

\* setup_submit that only looks at the form.
SetupCountSkipped_M(r, n) ==
    /\ At(r, "idle")
    /\ Continue(r, [pc |-> "setup_insert", user |-> n])
    /\ UNCHANGED <<dbVars, attempts>>

\* setup_submit: count_users found no account and the form is complete.  In
\* every other case it answers at once and nothing changes.
SetupCount(r, n) ==
    /\ At(r, "idle")
    /\ users = {}
    /\ Continue(r, [pc |-> "setup_insert", user |-> n])
    /\ UNCHANGED <<dbVars, attempts>>

\* The first account is created like every other one.
SetupInsertMember_M(r) ==
    /\ At(r, "setup_insert")
    /\ CreateUser(req[r].user, FALSE, None)
    /\ Finish(r)
    /\ UNCHANGED <<sessionVars, inviteVars, attempts>>

SetupInsert(r) ==
    /\ At(r, "setup_insert")
    /\ CreateUser(req[r].user, TRUE, None)
    /\ Finish(r)
    /\ UNCHANGED <<sessionVars, inviteVars, attempts>>

-----------------------------------------------------------------------------
(* /login and /logout *)

LoginCheck(r, n, ip) ==
    /\ At(r, "idle")
    /\ ~Limiter!Throttled(ip)
    /\ Limiter!Retain(ip)
    /\ Continue(r, [pc |-> "login_lookup", user |-> n, ip |-> ip])
    /\ UNCHANGED dbVars

LoginThrottled(r, ip) ==
    /\ At(r, "idle")
    /\ Limiter!Throttled(ip)
    /\ Limiter!Retain(ip)
    /\ UNCHANGED <<dbVars, req>>
    /\ page' = "none"

\* A name without an account is let through.
LoginLookupUnchecked_M(r) ==
    /\ At(r, "login_lookup")
    /\ \E verdict \in {"login_wrong", "login_right"} :
         Continue(r, [req[r] EXCEPT !.pc = verdict])
    /\ UNCHANGED <<dbVars, attempts>>

\* user_by_username, then verify_password on the row outside any lock.
LoginLookup(r) ==
    /\ At(r, "login_lookup")
    /\ \E verdict \in {"login_wrong", "login_right"} :
         /\ verdict = "login_right" => req[r].user \in users
         /\ Continue(r, [req[r] EXCEPT !.pc = verdict])
    /\ UNCHANGED <<dbVars, attempts>>

\* A second guess without a second check.
LoginWrongRetries_M(r) ==
    /\ At(r, "login_wrong")
    /\ Limiter!Push(req[r].ip)
    /\ Continue(r, [req[r] EXCEPT !.pc = "login_lookup"])
    /\ UNCHANGED dbVars

LoginWrong(r) ==
    /\ At(r, "login_wrong")
    /\ Limiter!Push(req[r].ip)
    /\ Finish(r)
    /\ UNCHANGED dbVars

\* record_success
LoginRight(r) ==
    /\ At(r, "login_right")
    /\ attempts' = [attempts EXCEPT ![req[r].ip] = Limiter!NoAttempts]
    /\ Continue(r, [pc |-> "login_session", user |-> req[r].user])
    /\ UNCHANGED dbVars

\* create_session with a token never returned before; the cookie is the answer.
LoginSession(r, t) ==
    /\ At(r, "login_session")
    /\ owner[t] = None
    /\ owner' = [owner EXCEPT ![t] = req[r].user]
    /\ sessions' = sessions \cup {t}
    /\ Finish(r)
    /\ UNCHANGED <<expired, userVars, inviteVars, attempts>>

Issued(t) == owner[t] # None

\* delete_session.  The handler drops its result: when the statement fails
\* the browser is answered the same and the row stays, a stutter here.
Logout(t) ==
    /\ Issued(t)
    /\ sessions' = sessions \ {t}
    /\ UNCHANGED <<expired, owner, userVars, inviteVars, attempts, req>>
    /\ page' = "none"

\* expires_at passes.
Expire(t) ==
    /\ t \in sessions
    /\ expired' = expired \cup {t}
    /\ UNCHANGED <<sessions, owner, userVars, inviteVars, attempts, req>>
    /\ page' = "none"

-----------------------------------------------------------------------------
(* The extractors CurrentUser and AdminUser, and POST /invites. *)

Live(t) == t \in sessions \ expired

\* expires_at is not compared with the clock.
ExpiryUnchecked_M(r, t) ==
    /\ At(r, "idle")
    /\ t \in sessions
    /\ Continue(r, [pc |-> "auth_user", user |-> owner[t], token |-> t])
    /\ UNCHANGED <<dbVars, attempts>>

\* session_by_token returns a row that has not expired.  Without a cookie, a
\* row, or time left the answer is a redirect to /login and nothing changes.
AuthSession(r, t) ==
    /\ At(r, "idle")
    /\ Live(t)
    /\ Continue(r, [pc |-> "auth_user", user |-> owner[t], token |-> t])
    /\ UNCHANGED <<dbVars, attempts>>

\* CurrentUser where the handler asks for AdminUser.
AnyUserAdmitted_M(r) ==
    /\ At(r, "auth_user")
    /\ IF req[r].user \in users
       THEN Continue(r, [req[r] EXCEPT !.pc = "admin"])
       ELSE Finish(r)
    /\ UNCHANGED <<dbVars, attempts>>

\* user_by_id, and is_admin of the row it returns.
AuthUser(r) ==
    /\ At(r, "auth_user")
    /\ IF req[r].user \in admins
       THEN Continue(r, [req[r] EXCEPT !.pc = "admin"])
       ELSE Finish(r)
    /\ UNCHANGED <<dbVars, attempts>>

\* The token in the form is not the session's.
CsrfRefused(r) ==
    /\ At(r, "admin")
    /\ Finish(r)
    /\ UNCHANGED <<dbVars, attempts>>

\* The form is read after the extractor has run: the client may go away then.
Disconnect(r) ==
    /\ At(r, "admin")
    /\ Continue(r, Idle)
    /\ UNCHANGED <<dbVars, attempts>>

\* create_invite with a token never returned before
InviteInsert(r, i) ==
    /\ At(r, "admin")
    /\ creator[i] = None
    /\ creator' = [creator EXCEPT ![i] = req[r].user]
    /\ Continue(r, [pc |-> "invite_list", invite |-> i])
    /\ UNCHANGED <<used, links, userVars, sessionVars, attempts>>

\* list_invites, then the page that shows the new link, this once.
InviteList(r) ==
    /\ At(r, "invite_list")
    /\ links' = links \cup {req[r].invite}
    /\ Finish(r)
    /\ UNCHANGED <<creator, used, userVars, sessionVars, attempts>>

-----------------------------------------------------------------------------
(* /invite/:token *)

Pending(i) == creator[i] # None /\ i \notin used

\* invite_valid without the condition on used_at.
InviteValidWhenUsed_M(i) == creator[i] # None /\ i \notin Unreadable

\* invite_valid: the row it looks for has used_at NULL, and the closure reads
\* that column as a String, which rusqlite refuses.
InviteValid(i) == Pending(i) /\ i \notin Unreadable

InviteValidFails(i) == Pending(i) /\ i \in Unreadable

\* Nobody posts a token that was issued and never shown.
Postable(i) == i \in links \/ creator[i] = None

\* invite_page; invite_claim answers the same for an incomplete form, and
\* whenever the invite is not valid.
InvitePage(i) ==
    /\ Postable(i)
    /\ page' = CASE InviteValid(i) -> "form"
                 [] InviteValidFails(i) -> "error"
                 [] OTHER -> "gone"
    /\ UNCHANGED <<dbVars, attempts, req>>

\* The invite is consumed as soon as it is found valid.
ClaimConsumesEarly_M(r, i, n) ==
    /\ At(r, "idle")
    /\ Postable(i) /\ InviteValid(i)
    /\ used' = used \cup {i}
    /\ Continue(r, [pc |-> "claim_insert", user |-> n, invite |-> i])
    /\ UNCHANGED <<creator, links, userVars, sessionVars, attempts>>

\* invite_claim: the invite is valid and the form is complete.
ClaimValid(r, i, n) ==
    /\ At(r, "idle")
    /\ Postable(i) /\ InviteValid(i)
    /\ Continue(r, [pc |-> "claim_insert", user |-> n, invite |-> i])
    /\ UNCHANGED <<dbVars, attempts>>

\* The claim ends with the new account.
ClaimInsertLast_M(r) ==
    /\ At(r, "claim_insert")
    /\ CreateUser(req[r].user, FALSE, req[r].invite)
    /\ Finish(r)
    /\ UNCHANGED <<sessionVars, inviteVars, attempts>>

ClaimInsert(r) ==
    /\ At(r, "claim_insert")
    /\ CreateUser(req[r].user, FALSE, req[r].invite)
    /\ Continue(r, [req[r] EXCEPT !.pc = "claim_consume"])
    /\ UNCHANGED <<sessionVars, inviteVars, attempts>>

\* consume_invite: sets used_at where it is NULL; whether it was is ignored.
ClaimConsume(r) ==
    /\ At(r, "claim_consume")
    /\ used' = used \cup {req[r].invite}
    /\ Finish(r)
    /\ UNCHANGED <<creator, links, userVars, sessionVars, attempts>>

-----------------------------------------------------------------------------
(* Failures *)

\* The accounts whose claims, cut off at these requests, leave the invite open.
Unconsumed(S) == {req[r].user : r \in {s \in S : At(s, "claim_consume")}}

\* The statement the request is about to execute fails: 500.
DbFails(r) ==
    /\ DbMayFail
    /\ req[r].pc \notin {"idle", "login_wrong", "login_right"}
    /\ Finish(r)
    /\ cut' = cut \cup Unconsumed({r})
    /\ UNCHANGED <<users, admins, via, sessionVars, inviteVars, attempts>>

\* The process dies and is started again.  Every statement is a transaction
\* of its own, so the tables keep what was done; activations and limiter go.
Restart ==
    /\ req' = [r \in Request |-> Idle]
    /\ attempts' = [ip \in Ip |-> Limiter!NoAttempts]
    /\ cut' = cut \cup Unconsumed(Request)
    /\ UNCHANGED <<users, admins, via, sessionVars, inviteVars>>
    /\ page' = "none"

Tick ==
    /\ UNCHANGED <<dbVars, req>>
    /\ page' = "none"
    /\ Limiter!Tick

Next ==
    \/ Tick \/ Restart
    \/ \E t \in Token : Logout(t) \/ Expire(t)
    \/ \E i \in Invite : InvitePage(i)
    \/ \E r \in Request :
         \/ \E ip \in Ip : LoginThrottled(r, ip)
         \/ \E n \in Username :
              \/ SetupCount(r, n)
              \/ \E ip \in Ip : LoginCheck(r, n, ip)
              \/ \E i \in Invite : ClaimValid(r, i, n)
         \/ SetupInsert(r) \/ ClaimInsert(r) \/ NameTaken(r) \/ ClaimConsume(r)
         \/ LoginLookup(r) \/ LoginWrong(r) \/ LoginRight(r)
         \/ \E t \in Token : LoginSession(r, t) \/ AuthSession(r, t)
         \/ AuthUser(r) \/ CsrfRefused(r) \/ Disconnect(r)
         \/ \E i \in Invite : InviteInsert(r, i)
         \/ InviteList(r) \/ DbFails(r)

Spec == Init /\ [][Next]_vars

-----------------------------------------------------------------------------
(* Properties *)

\* Requests on their way to create an account as setup, or from an invite.
SettingUp == {r \in Request : At(r, "setup_insert")}
Claiming(i) ==
    {r \in Request : At(r, "claim_insert") /\ req[r].invite = i}

\* Requests the extractor lets act with a session, handlers still running.
ActingFor(t) ==
    {r \in Request : req[r].pc \in {"auth_user", "admin"} /\ req[r].token = t}

\* An installation with accounts has an admin among them: no interleaving of
\* setups and claims, failed statement or restart locks everybody out of
\* /invites and /workers.
SomeAdmin == users # {} => admins # {}

\* The rows that a handler has found in one critical section are there, and say
\* the same, when it acts on them in a later one: the account a password or a
\* session was checked for, still the one the session's token was issued to; an
\* AdminUser's is_admin; the invite of a claim; and the account it is consumed
\* for, made with this invite and no other.  No statement deletes or updates
\* these.  What does change under a handler is not here: that there is no
\* account yet (AdminsBounded), that an invite is unused (ClaimsBounded), and
\* that a session is live (SessionsClose).
CheckedRowsRemain ==
    \A r \in Request :
      /\ req[r].pc \in {"login_right", "login_session"} => req[r].user \in users
      /\ At(r, "auth_user") =>
           req[r].user \in users /\ owner[req[r].token] = req[r].user
      /\ At(r, "admin") =>
           req[r].user \in admins /\ owner[req[r].token] = req[r].user
      /\ req[r].pc \in {"claim_insert", "claim_consume"} =>
           creator[req[r].invite] # None
      /\ At(r, "claim_consume") =>
           req[r].user \in users /\ via[req[r].user] = req[r].invite

\* Every invite was created by an admin, although create_invite runs long
\* after the extractor looked at the session and at is_admin.
InvitesFromAdmins == \A i \in Invite : creator[i] # None => creator[i] \in admins

\* "everyone else joins via ... invite links" (README.md:61-62): an account
\* without admin rights came from an invite, and that invite from an admin.
MembersWereInvited ==
    \A n \in users \ admins : via[n] # None /\ creator[via[n]] \in admins

\* No invite makes an admin, whatever name it is claimed with and whoever races
\* for that name: invite_claim creates its account without is_admin.
InviteesAreMembers == \A n \in admins : via[n] = None

\* An invite that invite_valid cannot read gives nothing to anybody: no claim
\* of it gets past the check, no account comes of it, and it stays pending.
UnreadableGiveNothing ==
    \A i \in Unreadable :
      /\ i \notin used
      /\ \A n \in users : via[n] # i
      /\ \A r \in Request :
           req[r].pc \in {"claim_insert", "claim_consume"} => req[r].invite # i

\* count_users and create_user of setup_submit are two critical sections: the
\* admins setup can create are bounded by the requests served at the time the
\* table was empty.
AdminsBounded ==
    Cardinality(admins) + Cardinality(SettingUp) <= Cardinality(Request)

\* "single-use invite links" (README.md:62): invite_valid, create_user and
\* consume_invite are three critical sections, and consume_invite does not tell
\* whether it was first.  An invite gives no more accounts than requests are
\* served at a time, those of claims that a failure or a restart has cut off
\* before consume_invite apart; so it is single-use where requests do not meet.
Joined(i) == {n \in users \ cut : via[n] = i}
ClaimsBounded ==
    \A i \in Invite :
      Cardinality(Joined(i)) + Cardinality(Claiming(i)) <= Cardinality(Request)

\* A used invite has given somebody an account, whatever failed or crashed
\* between create_user and consume_invite: no invite is lost to its invitee.
UsedInvitesGaveAccounts == \A i \in used : \E n \in users : via[n] = i

\* Once an invite is used no further claim of it gets past invite_valid.
ClaimsClose ==
    [][\A i \in used : i \in used' /\ Claiming(i)' \subseteq Claiming(i)]_vars

\* After logout or expiry nothing starts to act with the session again; only
\* requests that were already let in may still finish.
SessionsClose ==
    [][\A t \in Token : Issued(t) /\ ~Live(t) =>
         ~Live(t)' /\ ActingFor(t)' \subseteq ActingFor(t)]_vars

\* Setup and claims that race for a username never take over an account:
\* what an existing account is, and where it came from, does not change.
AccountsAreFinal ==
    [][/\ users \subseteq users'
       /\ admins' \cap users = admins
       /\ \A n \in users : via'[n] = via[n]]_vars

\* login_submit uses the limiter as LoginLimiter prescribes: every failure and
\* every success it records is that of a request the limiter let through.
LimiterProtocol == Limiter!Spec

\* "If no users exist, the first account created is an admin; everyone else
\* joins via single-use invite links" (README.md:61-62).
OneAccountFromSetup == Cardinality({n \in users : via[n] = None}) <= 1

\* "The invitee creates their own account" (README.md:109-110): the link of an
\* invite that is still pending opens the form.
PendingInviteOpens ==
    [][\A i \in Invite : InvitePage(i) /\ Pending(i) => page' = "form"]_vars
=============================================================================
