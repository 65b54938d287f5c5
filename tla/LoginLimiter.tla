---------------------------- MODULE LoginLimiter ----------------------------
(***************************************************************************)
(* The per-IP login limiter of src/auth/mod.rs together with the protocol  *)
(* its only caller, login_submit, follows: check before the password is    *)
(* looked at, then record_failure or record_success, each call under the   *)
(* limiter's mutex and none of them holding it in between.                 *)
(*                                                                         *)
(* An entry of the limiter's Vec<Instant> is represented by a mark (its    *)
(* identity in the Vec) and an age.  Ages are counted in ticks and stop at *)
(* Window: an older entry is treated like one that has just expired.       *)
(*                                                                         *)
(* Operators whose name ends in _M are deliberate mistakes.  No action     *)
(* uses them: each stands before the definition it would replace, to show  *)
(* that a property notices the mistake.                                    *)
(***************************************************************************)
EXTENDS Naturals, FiniteSets, Functions

CONSTANTS
    Client,       \* concurrent login requests
    Ip,           \* client addresses
    Mark,         \* identities of the entries of a Vec<Instant>
    NoIp,         \* where a client is that is not logging in
    MaxAttempts,  \* LOGIN_MAX_ATTEMPTS
    Window        \* LOGIN_WINDOW, in ticks

ASSUME ClientAssumption == IsFiniteSet(Client)
ASSUME NoIpAssumption == NoIp \notin Ip
ASSUME LimitAssumption == MaxAttempts \in Nat \ {0} /\ Window \in Nat \ {0}

VARIABLES
    attempts,   \* attempts[ip]: the age of each entry kept for ip
    trying      \* trying[c]: the address c passed the check for, or NoIp

vars == <<attempts, trying>>

Ages == 0..Window

\* The empty Vec that entry(..).or_default() creates.
NoAttempts == [m \in {} |-> 0]

TypeOK ==
    /\ \A ip \in Ip :
         /\ DOMAIN attempts[ip] \in SUBSET Mark
         /\ IsFiniteSet(DOMAIN attempts[ip])
         /\ attempts[ip] \in [DOMAIN attempts[ip] -> Ages]
    /\ DOMAIN attempts = Ip
    /\ trying \in [Client -> Ip \cup {NoIp}]

Init ==
    /\ attempts = [ip \in Ip |-> NoAttempts]
    /\ trying = [c \in Client |-> NoIp]

-----------------------------------------------------------------------------
\* An entry that is never dropped.
FreshForever_M(ip) == DOMAIN attempts[ip]

\* Entries still inside the window: what retain keeps.
Fresh(ip) == {m \in DOMAIN attempts[ip] : attempts[ip][m] < Window}

\* `>' in place of `>='.
ThrottledOffByOne_M(ip) == Cardinality(Fresh(ip)) > MaxAttempts

Throttled(ip) == Cardinality(Fresh(ip)) >= MaxAttempts

\* check(ip): the expired entries are dropped whatever the verdict is.
Retain(ip) == attempts' = [attempts EXCEPT ![ip] = Restrict(@, Fresh(ip))]

CheckPasses(c, ip) ==
    /\ trying[c] = NoIp
    /\ ~Throttled(ip)
    /\ Retain(ip)
    /\ trying' = [trying EXCEPT ![c] = ip]

CheckRefuses(c, ip) ==
    /\ trying[c] = NoIp
    /\ Throttled(ip)
    /\ Retain(ip)
    /\ UNCHANGED trying

\* Push(ip): a new entry of age 0, whatever is in the Vec by now.
Push(ip) ==
    \E m \in Mark \ DOMAIN attempts[ip] :
      attempts' = [attempts EXCEPT ![ip] =
                     [k \in DOMAIN @ \cup {m} |-> IF k = m THEN 0 ELSE @[k]]]

RecordFailure(c) ==
    /\ trying[c] # NoIp
    /\ Push(trying[c])
    /\ trying' = [trying EXCEPT ![c] = NoIp]

\* record_success forgets every entry of the address.
RecordSuccess(c) ==
    /\ trying[c] # NoIp
    /\ attempts' = [attempts EXCEPT ![trying[c]] = NoAttempts]
    /\ trying' = [trying EXCEPT ![c] = NoIp]

\* The user lookup failed: login_submit answers 500 and records nothing.
Abandon(c) ==
    /\ trying[c] # NoIp
    /\ trying' = [trying EXCEPT ![c] = NoIp]
    /\ UNCHANGED attempts

\* Ages that run past the window.
TickPastWindow_M ==
    /\ attempts' = [ip \in Ip |-> [m \in DOMAIN attempts[ip] |->
                      attempts[ip][m] + 1]]
    /\ UNCHANGED trying

\* Time passes for every entry.
Tick ==
    /\ attempts' = [ip \in Ip |-> [m \in DOMAIN attempts[ip] |->
                      IF attempts[ip][m] < Window THEN attempts[ip][m] + 1
                                                  ELSE Window]]
    /\ UNCHANGED trying

\* The limiter lives in memory: a restart of the process forgets it.
Restart ==
    /\ attempts' = [ip \in Ip |-> NoAttempts]
    /\ trying' = [c \in Client |-> NoIp]

Next ==
    \/ \E c \in Client, ip \in Ip : CheckPasses(c, ip) \/ CheckRefuses(c, ip)
    \/ \E c \in Client : RecordFailure(c) \/ RecordSuccess(c) \/ Abandon(c)
    \/ Tick
    \/ Restart

Spec == Init /\ [][Next]_vars

\* Clocks do not stop: that is all the lifting of the throttle relies on.
FairSpec == Spec /\ WF_vars(Tick)

-----------------------------------------------------------------------------
\* The logins for ip that passed the check and have not reported yet.
InFlight(ip) == {c \in Client : trying[c] = ip}

\* check and record_failure are two critical sections, so the entries of an
\* address can exceed LOGIN_MAX_ATTEMPTS; the overshoot is exactly accounted
\* for by the logins that passed the check while there was room.
AttemptsBounded ==
    \A ip \in Ip :
      Cardinality(DOMAIN attempts[ip]) + Cardinality(InFlight(ip))
        <= MaxAttempts - 1 + Cardinality(Client)

\* "Try again in a few minutes" (login_submit): a throttled address does not
\* stay throttled, although nothing prunes its entries before the next check
\* and although logins already past the check still add fresh ones.
ThrottleLifts == \A ip \in Ip : Throttled(ip) ~> ~Throttled(ip)

=============================================================================
