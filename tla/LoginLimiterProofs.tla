------------------------- MODULE LoginLimiterProofs -------------------------
(* Type correctness and the bound on the entries of LoginLimiter, for every *)
(* finite set of clients, every limit and every window.                     *)
EXTENDS LoginLimiter, FiniteSetTheorems, TLAPS

\* The vectors stay vectors of ages over the marks, and every login in flight
\* is in flight for an address.
LEMMA TypeInit == Init => TypeOK
<1> SUFFICES ASSUME Init PROVE TypeOK
  OBVIOUS
<1>1. IsFiniteSet({})
  BY FS_EmptySet
<1> QED
  BY <1>1 DEF Init, TypeOK, NoAttempts, Ages

LEMMA RestrictType ==
    ASSUME TypeOK, NEW ip \in Ip
    PROVE  /\ Fresh(ip) \in SUBSET Mark
           /\ IsFiniteSet(Fresh(ip))
           /\ Restrict(attempts[ip], Fresh(ip)) \in [Fresh(ip) -> Ages]
<1>1. Fresh(ip) \subseteq DOMAIN attempts[ip]
  BY DEF Fresh
<1>2. IsFiniteSet(Fresh(ip))
  BY <1>1, FS_Subset DEF TypeOK
<1> QED
  BY <1>1, <1>2 DEF TypeOK, Restrict

LEMMA TypeNext == TypeOK /\ [Next]_vars => TypeOK'
<1> SUFFICES ASSUME TypeOK, [Next]_vars PROVE TypeOK'
  OBVIOUS
<1>1. ASSUME NEW c \in Client, NEW ip \in Ip, Retain(ip),
             trying' \in [Client -> Ip \cup {NoIp}]
      PROVE  TypeOK'
  <2>1. attempts' = [attempts EXCEPT ![ip] = Restrict(attempts[ip], Fresh(ip))]
    BY <1>1 DEF Retain
  <2>2. DOMAIN Restrict(attempts[ip], Fresh(ip)) = Fresh(ip)
    BY DEF Restrict
  <2> QED
    BY <1>1, <2>1, <2>2, RestrictType DEF TypeOK
<1>2. ASSUME NEW c \in Client, RecordFailure(c) PROVE TypeOK'
  <2>1. trying[c] \in Ip
    BY <1>2 DEF RecordFailure, TypeOK
  <2> DEFINE old == attempts[trying[c]]
  <2>2. PICK m \in Mark \ DOMAIN old :
          attempts' = [attempts EXCEPT ![trying[c]] =
             [k \in DOMAIN old \cup {m} |-> IF k = m THEN 0 ELSE old[k]]]
    BY <1>2 DEF RecordFailure, Push
  <2>3. IsFiniteSet(DOMAIN old \cup {m})
    BY <2>1, FS_AddElement DEF TypeOK
  <2>4. 0 \in Ages
    BY LimitAssumption DEF Ages
  <2> QED
    BY <1>2, <2>1, <2>2, <2>3, <2>4 DEF RecordFailure, TypeOK
<1>3. ASSUME NEW c \in Client, RecordSuccess(c) PROVE TypeOK'
  <2>1. IsFiniteSet({})
    BY FS_EmptySet
  <2> QED
    BY <1>3, <2>1 DEF RecordSuccess, TypeOK, NoAttempts
<1>4. CASE Tick
  BY <1>4, LimitAssumption DEF Tick, TypeOK, Ages
<1>5. CASE Restart
  <2>1. IsFiniteSet({})
    BY FS_EmptySet
  <2> QED
    BY <1>5, <2>1 DEF Restart, TypeOK, NoAttempts
<1>6. ASSUME NEW c \in Client, NEW ip \in Ip,
             CheckPasses(c, ip) \/ CheckRefuses(c, ip)
      PROVE  TypeOK'
  <2>1. trying' \in [Client -> Ip \cup {NoIp}]
    BY <1>6 DEF CheckPasses, CheckRefuses, TypeOK
  <2> QED
    BY <1>1, <1>6, <2>1 DEF CheckPasses, CheckRefuses
<1>7. ASSUME NEW c \in Client, Abandon(c) PROVE TypeOK'
  BY <1>7 DEF Abandon, TypeOK
<1>8. CASE UNCHANGED vars
  BY <1>8 DEF vars, TypeOK
<1> QED
  BY <1>2, <1>3, <1>4, <1>5, <1>6, <1>7, <1>8 DEF Next

\* Type correctness of the limiter: every reachable state satisfies TypeOK.
THEOREM TypeCorrect == Spec => []TypeOK
<1> QED
  BY TypeInit, TypeNext, PTL DEF Spec

-----------------------------------------------------------------------------
(* The bound *)

\* The bound of AttemptsBounded for one address.
Bounded(ip) ==
    Cardinality(DOMAIN attempts[ip]) + Cardinality(InFlight(ip))
      <= MaxAttempts - 1 + Cardinality(Client)

\* Both cardinalities are numbers, and no more logins are in flight than there
\* are clients.
LEMMA Counts ==
    ASSUME TypeOK, NEW ip \in Ip
    PROVE  /\ Cardinality(DOMAIN attempts[ip]) \in Nat
           /\ IsFiniteSet(InFlight(ip))
           /\ Cardinality(InFlight(ip)) \in Nat
           /\ Cardinality(Client) \in Nat
           /\ Cardinality(InFlight(ip)) <= Cardinality(Client)
<1>1. InFlight(ip) \subseteq Client
  BY DEF InFlight
<1> QED
  BY <1>1, ClientAssumption, FS_Subset, FS_CardinalityType DEF TypeOK

\* A step that adds no entry for the address and no login in flight for it.
LEMMA FewerKeepsBound ==
    ASSUME TypeOK, TypeOK', NEW ip \in Ip, Bounded(ip),
           DOMAIN attempts'[ip] \subseteq DOMAIN attempts[ip],
           InFlight(ip)' \subseteq InFlight(ip)
    PROVE  Bounded(ip)'
<1>1. Cardinality(DOMAIN attempts'[ip]) <= Cardinality(DOMAIN attempts[ip])
  BY FS_Subset DEF TypeOK
<1>2. Cardinality(InFlight(ip)') <= Cardinality(InFlight(ip))
  BY Counts, FS_Subset
<1>3. /\ Cardinality(DOMAIN attempts'[ip]) \in Nat
      /\ Cardinality(InFlight(ip)') \in Nat
  <2>1. IsFiniteSet(DOMAIN attempts'[ip]) /\ IsFiniteSet(InFlight(ip)')
    BY Counts, FS_Subset DEF TypeOK
  <2> QED
    BY <2>1, FS_CardinalityType
<1> QED
  BY <1>1, <1>2, <1>3, Counts, LimitAssumption DEF Bounded

\* A step that leaves fewer entries than the limit: there is room for the
\* failures of all clients.
LEMMA RoomKeepsBound ==
    ASSUME TypeOK', NEW ip \in Ip,
           Cardinality(DOMAIN attempts'[ip]) \in Nat,
           Cardinality(DOMAIN attempts'[ip]) < MaxAttempts
    PROVE  Bounded(ip)'
<1>1. InFlight(ip)' \subseteq Client
  BY DEF InFlight
<1>2. /\ Cardinality(InFlight(ip)') <= Cardinality(Client)
      /\ Cardinality(InFlight(ip)') \in Nat
      /\ Cardinality(Client) \in Nat
  BY <1>1, ClientAssumption, FS_Subset, FS_CardinalityType
<1> QED
  BY <1>2, LimitAssumption DEF Bounded

LEMMA EmptyHasRoom == Cardinality(DOMAIN NoAttempts) = 0
  BY FS_EmptySet DEF NoAttempts

LEMMA BoundInit == Init => AttemptsBounded
<1> SUFFICES ASSUME Init, NEW ip \in Ip PROVE Bounded(ip)
  BY DEF AttemptsBounded, Bounded
<1>1. Cardinality(DOMAIN attempts[ip]) = 0
  BY EmptyHasRoom DEF Init
<1> QED
  BY <1>1, TypeInit, Counts, LimitAssumption DEF Bounded

LEMMA BoundNext == TypeOK /\ AttemptsBounded /\ [Next]_vars => AttemptsBounded'
<1> SUFFICES ASSUME TypeOK, AttemptsBounded, [Next]_vars, NEW ip \in Ip
             PROVE  Bounded(ip)'
  BY DEF AttemptsBounded, Bounded
<1>0. Bounded(ip) /\ TypeOK'
  BY TypeNext DEF AttemptsBounded, Bounded
<1>1. ASSUME NEW c \in Client, NEW j \in Ip, CheckPasses(c, j)
      PROVE  Bounded(ip)'
  <2>1. CASE j = ip
    <3>1. DOMAIN attempts'[ip] = Fresh(ip)
      BY <1>1, <2>1 DEF CheckPasses, Retain, Restrict, TypeOK
    <3>2. Cardinality(Fresh(ip)) \in Nat
      BY RestrictType, FS_CardinalityType
    <3>3. Cardinality(Fresh(ip)) < MaxAttempts
      BY <1>1, <2>1, <3>2, LimitAssumption DEF CheckPasses, Throttled
    <3> QED
      BY <1>0, <3>1, <3>2, <3>3, RoomKeepsBound
  <2>2. CASE j # ip
    <3>1. attempts'[ip] = attempts[ip]
      BY <1>1, <2>2 DEF CheckPasses, Retain, TypeOK
    <3>2. InFlight(ip)' \subseteq InFlight(ip)
      BY <1>1, <2>2 DEF CheckPasses, InFlight, TypeOK
    <3> QED
      BY <1>0, <3>1, <3>2, FewerKeepsBound
  <2> QED
    BY <2>1, <2>2
<1>2. ASSUME NEW c \in Client, NEW j \in Ip, CheckRefuses(c, j)
      PROVE  Bounded(ip)'
  <2>1. DOMAIN attempts'[ip] \subseteq DOMAIN attempts[ip]
    BY <1>2 DEF CheckRefuses, Retain, Restrict, Fresh, TypeOK
  <2>2. InFlight(ip)' \subseteq InFlight(ip)
    BY <1>2 DEF CheckRefuses, InFlight
  <2> QED
    BY <1>0, <2>1, <2>2, FewerKeepsBound
<1>3. ASSUME NEW c \in Client, RecordFailure(c) PROVE Bounded(ip)'
  <2>1. CASE trying[c] = ip
    <3> DEFINE old == DOMAIN attempts[ip]
    <3>1. PICK m \in Mark \ old : DOMAIN attempts'[ip] = old \cup {m}
      BY <1>3, <2>1 DEF RecordFailure, Push, TypeOK
    <3>2. Cardinality(DOMAIN attempts'[ip]) = Cardinality(old) + 1
      BY <3>1, FS_AddElement DEF TypeOK
    <3>3. InFlight(ip)' = InFlight(ip) \ {c}
      BY <1>3, <2>1, NoIpAssumption DEF RecordFailure, InFlight, TypeOK
    <3>4. c \in InFlight(ip)
      BY <2>1 DEF InFlight
    <3>5. Cardinality(InFlight(ip)') = Cardinality(InFlight(ip)) - 1
      BY <3>3, <3>4, Counts, FS_RemoveElement
    <3> QED
      BY <1>0, <3>2, <3>5, Counts, LimitAssumption DEF Bounded
  <2>2. CASE trying[c] # ip
    <3>1. attempts'[ip] = attempts[ip]
      BY <1>3, <2>2 DEF RecordFailure, Push, TypeOK
    <3>2. InFlight(ip)' \subseteq InFlight(ip)
      BY <1>3, NoIpAssumption DEF RecordFailure, InFlight, TypeOK
    <3> QED
      BY <1>0, <3>1, <3>2, FewerKeepsBound
  <2> QED
    BY <2>1, <2>2
<1>4. ASSUME NEW c \in Client, RecordSuccess(c) PROVE Bounded(ip)'
  <2>1. InFlight(ip)' \subseteq InFlight(ip)
    BY <1>4, NoIpAssumption DEF RecordSuccess, InFlight, TypeOK
  <2>2. DOMAIN attempts'[ip] \subseteq DOMAIN attempts[ip]
    BY <1>4 DEF RecordSuccess, NoAttempts, TypeOK
  <2> QED
    BY <1>0, <2>1, <2>2, FewerKeepsBound
<1>5. ASSUME NEW c \in Client, Abandon(c) PROVE Bounded(ip)'
  <2>1. InFlight(ip)' \subseteq InFlight(ip)
    BY <1>5, NoIpAssumption DEF Abandon, InFlight, TypeOK
  <2> QED
    BY <1>0, <1>5, <2>1, FewerKeepsBound DEF Abandon
<1>6. CASE Tick
  <2>1. DOMAIN attempts'[ip] = DOMAIN attempts[ip]
    BY <1>6 DEF Tick, TypeOK
  <2> QED
    BY <1>0, <1>6, <2>1, FewerKeepsBound DEF Tick, InFlight
<1>7. CASE Restart
  BY <1>0, <1>7, EmptyHasRoom, RoomKeepsBound, LimitAssumption DEF Restart
<1>8. CASE UNCHANGED vars
  BY <1>0, <1>8, FewerKeepsBound DEF vars, InFlight
<1> QED
  BY <1>1, <1>2, <1>3, <1>4, <1>5, <1>6, <1>7, <1>8 DEF Next

\* However check and record_failure of concurrent logins interleave, the
\* entries of an address never exceed the limit by more than the number of
\* other logins being served.
THEOREM BoundHolds == Spec => []AttemptsBounded
<1>1. Init => TypeOK /\ AttemptsBounded
  BY TypeInit, BoundInit
<1>2. TypeOK /\ AttemptsBounded /\ [Next]_vars => (TypeOK /\ AttemptsBounded)'
  BY TypeNext, BoundNext
<1> QED
  BY <1>1, <1>2, PTL DEF Spec
=============================================================================
