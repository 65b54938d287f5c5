----------------------------- MODULE ChatProofs -----------------------------
(***************************************************************************)
(* Proofs about Chat: type correctness, that a message is stored at most   *)
(* once and lost only in the ways named, that only a page answering a tab  *)
(* clears its editor, and that every composer is answered.                 *)
(*                                                                         *)
(* StoredOnce is not inductive: a message can be stored twice if its post  *)
(* is prompted a second time, or prompted while its fallback or an earlier *)
(* prompt is under way.  Untouched adds what excludes that: until it is    *)
(* prompted a post has left no trace, later it has exactly one: it is with *)
(* its task, with the worker, stored, or lost for good.  Held adds that a  *)
(* post htmx holds back is held by one tab.  Taken is what a page of       *)
(* success is worth, from the prompt's answer on.                          *)
(***************************************************************************)
EXTENDS Chat, TLAPS

Untouched ==
    /\ \A p \in Post : stage[p] \in {"unsent", "held", "arriving", "prompting"} =>
         copies[p] = 0 /\ ~UnderWay(p) /\ p \notin refused \cup dropped
    /\ \A p \in Post : copies[p] = 0 \/ (copies[p] = 1 /\ ~UnderWay(p))
    /\ \A p \in refused \cup dropped : copies[p] = 0 /\ ~UnderWay(p)
    /\ \A p \in Post :
         /\ ~(p \in fallbacks /\ p \in asked)
         /\ ~(p \in fallbacks /\ p \in late)
         /\ ~(p \in asked /\ p \in late)

Taken ==
    \A p \in Post : stage[p] \in {"listing", "thread"} =>
      copies[p] = 1 \/ UnderWay(p) \/ p \in refused \cup dropped

Held ==
    /\ \A t \in Tab : queued[t] # None => stage[queued[t]] = "held"
    /\ \A t, u \in Tab : t # u /\ queued[t] # None => queued[t] # queued[u]

IInv == TypeOK /\ Held /\ Untouched /\ Taken

-----------------------------------------------------------------------------
LEMMA TypeInit == Init => TypeOK
  BY DEF Init, TypeOK

LEMMA SettleType ==
  ASSUME TypeOK, NEW t \in Tab, NEW b \in BOOLEAN, Settle(t, b), UNCHANGED workerVars
  PROVE  TypeOK'
<1> DEFINE text == IF b THEN Empty ELSE editor[t]
<1>1. /\ editor \in [Tab -> Text \cup {Empty}]
      /\ text \in Text \cup {Empty}
      /\ editor' = [editor EXCEPT ![t] = text]
  BY DEF TypeOK, Settle
<1>2. editor' \in [Tab -> Text \cup {Empty}]
  BY <1>1
<1>3. queued' \in [Tab -> Post \cup {None}]
  BY DEF TypeOK, Settle
<1>4. waiting' \in [Tab -> Post \cup {None}]
  BY DEF TypeOK, Settle, SendForm
<1>5. body' \in [Post -> Text \cup {Empty}]
  <2>1. CASE queued[t] # None
    BY <1>1, <2>1 DEF TypeOK, Settle, SendForm
  <2>2. CASE queued[t] = None
    BY <2>2 DEF TypeOK, Settle
  <2> QED  BY <2>1, <2>2
<1>6. stage' \in [Post -> {"unsent", "held", "error", "over"} \cup Running \cup Pages]
  BY DEF TypeOK, Settle, SendForm, Running
<1>7. open' = open
  BY DEF Settle
<1> QED
  BY <1>2, <1>3, <1>4, <1>5, <1>6, <1>7 DEF TypeOK, workerVars

LEMMA AdvanceType ==
  ASSUME TypeOK, NEW p \in Post, NEW from, NEW to \in Running \cup Pages \cup {"error", "over"},
         Advance(p, from, to), fallbacks' \subseteq Post, asked' \subseteq Post,
         late' \subseteq Post, refused' \subseteq Post, dropped' \subseteq Post,
         copies' \in [Post -> Nat]
  PROVE  TypeOK'
  BY DEF TypeOK, Advance, tabVars

LEMMA TypeNext == TypeOK /\ [Next]_vars => TypeOK'
<1> SUFFICES ASSUME TypeOK, [Next]_vars PROVE TypeOK'
  OBVIOUS
<1>1. ASSUME NEW t \in Tab, TabNext(t) PROVE TypeOK'
  <2>1. ASSUME NEW text \in Text, Type(t, text) PROVE TypeOK'
    BY <2>1 DEF TypeOK, Type, workerVars
  <2>2. CASE Submit(t)
    BY <2>2 DEF TypeOK, Submit, SendForm, workerVars, Running
  <2>3. CASE SubmitAgain(t)
    BY <2>3 DEF TypeOK, SubmitAgain, workerVars
  <2>4. CASE Receive(t)
    <3>1. (stage[waiting[t]] \in Pages) \in BOOLEAN
      OBVIOUS
    <3> QED
      BY <2>4, <3>1, SettleType DEF Receive
  <2>5. CASE Reset(t)
    BY <2>5, SettleType DEF Reset
  <2>6. CASE HangUp(t)
    BY <2>6, SettleType DEF HangUp
  <2>7. CASE Leave(t)
    BY <2>7 DEF TypeOK, Leave, workerVars
  <2> QED
    BY <1>1, <2>1, <2>2, <2>3, <2>4, <2>5, <2>6, <2>7 DEF TabNext
<1>2. ASSUME NEW p \in Post, PostNext(p) PROVE TypeOK'
  <2>1. /\ fallbacks \subseteq Post /\ asked \subseteq Post /\ late \subseteq Post
        /\ refused \subseteq Post /\ dropped \subseteq Post
        /\ copies \in [Post -> Nat]
    BY DEF TypeOK
  <2>2. Stored(p) => copies' \in [Post -> Nat]
    BY <2>1 DEF Stored
  <2>3. CASE Redirect(p) \/ Refuse(p) \/ Admit(p)
    BY <2>1, <2>3, AdvanceType DEF Redirect, Refuse, Admit, workerVars, Running, Pages
  <2>4. CASE PromptTaken(p) \/ PromptMissing(p) \/ PromptRefused(p) \/ PromptFails(p)
    BY <2>1, <2>2, <2>4, AdvanceType
       DEF PromptTaken, PromptMissing, PromptRefused, PromptFails, CutOff, workerVars, Running
  <2>5. CASE ListAnswered(p) \/ ListFails(p) \/ Apologise(p)
    BY <2>1, <2>5, AdvanceType DEF ListAnswered, ListFails, Apologise, workerVars, Pages
  <2>6. CASE Cancel(p)
    BY <2>6 DEF TypeOK, Cancel, CutOff, tabVars
  <2>7. CASE FallbackSends(p) \/ FallbackFails(p)
    BY <2>1, <2>7 DEF TypeOK, FallbackSends, FallbackFails, tabVars
  <2>8. CASE FallbackEnds(p) \/ LateTaken(p)
    BY <2>1, <2>2, <2>8 DEF TypeOK, FallbackEnds, FallbackAnswers, CutOff, LateTaken, tabVars
  <2> QED
    BY <1>2, <2>3, <2>4, <2>5, <2>6, <2>7, <2>8 DEF PostNext
<1>3. CASE Crash
  BY <1>3 DEF TypeOK, Crash, CutOff, tabVars
<1>4. CASE UNCHANGED vars
  BY <1>4 DEF TypeOK, vars, tabVars, workerVars
<1> QED
  BY <1>1, <1>2, <1>3, <1>4 DEF Next

\* Whatever the users, the connections and the worker do, every variable of
\* the composer and of session_message keeps its type.
THEOREM TypeCorrect == Spec => []TypeOK
<1> QED
  BY TypeInit, TypeNext, PTL DEF Spec

-----------------------------------------------------------------------------
LEMMA IInvInit == Init => IInv
<1>1. Init => TypeOK
  BY TypeInit
<1>2. Init => Held /\ Untouched /\ Taken
  BY DEF Init, Held, Untouched, Taken, UnderWay
<1> QED
  BY <1>1, <1>2 DEF IInv

\* A step that leaves the worker alone, and every post where it is or moves
\* it to where it is not prompted any more or not yet, leaves Untouched and
\* Taken alone.
LEMMA TracesStay ==
  ASSUME IInv, UNCHANGED workerVars, TypeOK',
         \A p \in Post :
           \/ stage'[p] = stage[p]
           \/ /\ stage[p] \in {"unsent", "held", "arriving"}
              /\ stage'[p] \notin {"listing", "thread"}
           \/ stage[p] = "listing" /\ stage'[p] = "thread"
           \/ stage'[p] \in {"apologising", "banner", "error", "over"}
  PROVE  Untouched' /\ Taken'
<1>1. ASSUME NEW p \in Post
      PROVE  stage[p] \in {"unsent", "held", "arriving", "prompting"}
               \/ stage'[p] \notin {"unsent", "held", "arriving", "prompting"}
  BY DEF IInv, TypeOK
<1>2. Untouched'
  BY <1>1 DEF IInv, Untouched, UnderWay, workerVars
<1>3. Taken'
  BY DEF IInv, Taken, UnderWay, workerVars
<1> QED
  BY <1>2, <1>3

\* Settling a tab only touches the post that tab held back.
LEMMA SettleHeld ==
  ASSUME IInv, NEW t \in Tab, NEW b \in BOOLEAN, Settle(t, b), UNCHANGED workerVars
  PROVE  Held' /\ Untouched' /\ Taken'
<1>0. TypeOK'
  BY SettleType DEF IInv
<1>1. CASE queued[t] = None
  <2>1. queued' = queued /\ stage' = stage
    BY <1>1 DEF IInv, TypeOK, Settle
  <2> QED
    BY <1>0, <2>1, TracesStay DEF IInv, Held
<1>2. CASE queued[t] # None
  <2> DEFINE q == queued[t]
  <2>1. q \in Post /\ stage[q] = "held"
    BY <1>2 DEF IInv, TypeOK, Held
  <2>2. /\ stage' = [stage EXCEPT ![q] = "arriving"]
        /\ queued' = [queued EXCEPT ![t] = None]
    BY <1>2 DEF Settle, SendForm
  <2>3. Held'
    BY <2>1, <2>2 DEF IInv, TypeOK, Held
  <2>4. \A p \in Post : stage'[p] = stage[p] \/ (stage[p] = "held" /\ stage'[p] = "arriving")
    BY <2>1, <2>2 DEF IInv, TypeOK
  <2>5. Untouched' /\ Taken'
    BY <1>0, <2>4, TracesStay
  <2> QED
    BY <2>3, <2>5
<1> QED
  BY <1>1, <1>2

\* A handler at work is not held back, so moving it on leaves Held alone.
LEMMA HeldStays ==
  ASSUME IInv, UNCHANGED queued,
         \A p \in Post : stage[p] = "held" => stage'[p] = "held"
  PROVE  Held'
  BY DEF IInv, TypeOK, Held

LEMMA IInvNext == IInv /\ [Next]_vars => IInv'
<1> SUFFICES ASSUME IInv, [Next]_vars PROVE IInv'
  OBVIOUS
<1> USE DEF IInv
<1>1. TypeOK'
  BY TypeNext
<1>2. ASSUME NEW t \in Tab, TabNext(t) PROVE Held' /\ Untouched' /\ Taken'
  <2>1. ASSUME NEW text \in Text, Type(t, text) PROVE Held' /\ Untouched' /\ Taken'
    BY <2>1 DEF Held, Untouched, Taken, UnderWay, Type, workerVars
  <2>2. CASE Submit(t)
    <3> PICK p \in Post : stage[p] = "unsent" /\ SendForm(t, p, editor[t])
      BY <2>2 DEF Submit
    <3>1. Held'
      BY <2>2 DEF TypeOK, Held, Submit, SendForm
    <3>2. \A k \in Post : stage'[k] = stage[k] \/ (stage[k] = "unsent" /\ stage'[k] = "arriving")
      BY DEF TypeOK, SendForm
    <3>3. UNCHANGED workerVars
      BY <2>2 DEF Submit
    <3> QED
      BY <1>1, <3>1, <3>2, <3>3, TracesStay
  <2>3. CASE SubmitAgain(t)
    <3> PICK p \in Post : /\ stage[p] = "unsent"
                          /\ stage' = [stage EXCEPT ![p] = "held"]
                          /\ queued' = [queued EXCEPT ![t] = p]
      BY <2>3 DEF SubmitAgain
    <3>1. Held'
      BY NoneAssumption DEF TypeOK, Held
    <3>2. \A k \in Post : stage'[k] = stage[k] \/ (stage[k] = "unsent" /\ stage'[k] = "held")
      BY DEF TypeOK
    <3>3. UNCHANGED workerVars
      BY <2>3 DEF SubmitAgain
    <3> QED
      BY <1>1, <3>1, <3>2, <3>3, TracesStay
  <2>4. CASE Receive(t) \/ Reset(t) \/ HangUp(t)
    <3>1. (stage[waiting[t]] \in Pages) \in BOOLEAN
      OBVIOUS
    <3>2. CASE Receive(t)
      BY <3>1, <3>2, SettleHeld DEF Receive
    <3>3. CASE Reset(t) \/ HangUp(t)
      BY <3>3, SettleHeld DEF Reset, HangUp
    <3> QED
      BY <2>4, <3>2, <3>3
  <2>5. CASE Leave(t)
    <3>1. Held'
      BY <2>5 DEF TypeOK, Held, Leave
    <3>2. Untouched' /\ Taken'
      BY <2>5 DEF Untouched, Taken, UnderWay, Leave, workerVars
    <3> QED
      BY <3>1, <3>2
  <2> QED
    BY <1>2, <2>1, <2>2, <2>3, <2>4, <2>5 DEF TabNext
<1>3. ASSUME NEW p \in Post, PostNext(p) PROVE Held' /\ Untouched' /\ Taken'
  <2>1. Held'
    <3>1. queued' = queued
      BY <1>3 DEF PostNext, Redirect, Refuse, Admit, PromptTaken, PromptMissing,
         PromptRefused, PromptFails, ListAnswered, ListFails, Apologise,
         Cancel, FallbackSends, FallbackFails, FallbackEnds, LateTaken, Advance, tabVars
    <3>2. \A k \in Post : stage[k] = "held" => stage'[k] = "held"
      BY <1>3 DEF TypeOK, PostNext, Redirect, Refuse, Admit, PromptTaken,
         PromptMissing, PromptRefused, PromptFails, ListAnswered, ListFails,
         Apologise, Cancel, FallbackSends, FallbackFails, FallbackEnds, LateTaken,
         Advance, Running
    <3> QED
      BY <3>1, <3>2, HeldStays
  <2>2. CASE Redirect(p) \/ Refuse(p) \/ Admit(p)
    BY <1>1, <2>1, <2>2, TracesStay DEF TypeOK, Redirect, Refuse, Admit, Advance
  <2>0. ASSUME stage[p] \in {"unsent", "held", "arriving", "prompting"}
        PROVE  /\ copies[p] = 0
               /\ p \notin fallbacks /\ p \notin asked /\ p \notin late
               /\ p \notin refused /\ p \notin dropped
    BY <2>0 DEF Untouched, UnderWay
  <2>3. CASE PromptTaken(p)
    <3>1. /\ stage[p] = "prompting" /\ stage' = [stage EXCEPT ![p] = "listing"]
          /\ copies' = [copies EXCEPT ![p] = 1]
          /\ UNCHANGED <<fallbacks, asked, late, refused, dropped>>
      BY <2>0, <2>3 DEF TypeOK, PromptTaken, Advance, Stored
    <3> QED
      BY <2>0, <2>1, <3>1 DEF TypeOK, Untouched, Taken, UnderWay
  <2>4. CASE PromptMissing(p)
    <3>1. /\ stage[p] = "prompting" /\ stage' = [stage EXCEPT ![p] = "listing"]
          /\ fallbacks' = fallbacks \cup {p}
          /\ UNCHANGED <<asked, late, copies, refused, dropped>>
      BY <2>4 DEF PromptMissing, Advance
    <3> QED
      BY <2>0, <2>1, <3>1 DEF TypeOK, Untouched, Taken, UnderWay
  <2>5. CASE PromptRefused(p)
    <3>1. /\ stage[p] = "prompting" /\ stage' = [stage EXCEPT ![p] = "listing"]
          /\ refused' = refused \cup {p}
          /\ UNCHANGED <<fallbacks, asked, late, copies, dropped>>
      BY <2>5 DEF PromptRefused, Advance
    <3> QED
      BY <2>0, <2>1, <3>1 DEF TypeOK, Untouched, Taken, UnderWay
  <2>6. CASE PromptFails(p)
    <3>1. /\ stage[p] = "prompting" /\ stage' = [stage EXCEPT ![p] = "apologising"]
          /\ late' = late \/ late' = late \cup {p}
          /\ UNCHANGED <<fallbacks, asked, copies, refused, dropped>>
      BY <2>6 DEF PromptFails, Advance, CutOff
    <3> QED
      BY <2>0, <2>1, <3>1 DEF TypeOK, Untouched, Taken, UnderWay
  <2>7. CASE ListAnswered(p) \/ ListFails(p) \/ Apologise(p)
    BY <1>1, <2>1, <2>7, TracesStay DEF TypeOK, ListAnswered, ListFails, Apologise, Advance
  <2>8. CASE Cancel(p)
    <3>1. CASE stage[p] = "prompting"
      <4>1. /\ stage' = [stage EXCEPT ![p] = "over"]
            /\ late' = late \/ late' = late \cup {p}
            /\ UNCHANGED <<fallbacks, asked, copies, refused, dropped>>
        BY <2>8, <3>1 DEF Cancel, CutOff
      <4> QED
        BY <2>0, <2>1, <3>1, <4>1 DEF TypeOK, Untouched, Taken, UnderWay
    <3>2. CASE stage[p] # "prompting"
      <4>1. UNCHANGED workerVars /\ stage' = [stage EXCEPT ![p] = "over"]
        BY <2>8, <3>2 DEF Cancel, CutOff, workerVars
      <4> QED
        BY <1>1, <2>1, <4>1, TracesStay DEF TypeOK
    <3> QED
      BY <3>1, <3>2
  <2>9. CASE FallbackSends(p)
    BY <2>1, <2>9 DEF TypeOK, Untouched, Taken, UnderWay, FallbackSends
  <2>10. CASE FallbackFails(p)
    BY <2>1, <2>10 DEF TypeOK, Untouched, Taken, UnderWay, FallbackFails
  <2>11. CASE FallbackEnds(p)
    <3>1. /\ p \in asked /\ p \notin fallbacks /\ p \notin late /\ copies[p] = 0
          /\ p \notin refused /\ p \notin dropped
          /\ asked' = asked \ {p} /\ UNCHANGED <<stage, fallbacks, dropped>>
      BY <2>11 DEF Untouched, UnderWay, FallbackEnds
    <3>2. CASE Stored(p) /\ UNCHANGED <<late, refused>>
      <4>1. copies' = [copies EXCEPT ![p] = 1]
        BY <3>1, <3>2 DEF TypeOK, Stored
      <4> QED
        BY <2>1, <3>1, <3>2, <4>1 DEF TypeOK, Untouched, Taken, UnderWay
    <3>3. CASE refused' = refused \cup {p} /\ UNCHANGED <<late, copies>>
      BY <2>1, <3>1, <3>3 DEF TypeOK, Untouched, Taken, UnderWay
    <3>4. CASE CutOff({p})
      BY <2>1, <3>1, <3>4 DEF TypeOK, Untouched, Taken, UnderWay, CutOff
    <3> QED
      BY <2>11, <3>2, <3>3, <3>4 DEF FallbackEnds, FallbackAnswers
  <2>12. CASE LateTaken(p)
    <3>1. /\ p \in late /\ p \notin fallbacks /\ p \notin asked /\ copies[p] = 0
          /\ p \notin refused /\ p \notin dropped
          /\ late' = late \ {p} /\ UNCHANGED <<stage, fallbacks, asked, refused, dropped>>
      BY <2>12 DEF Untouched, UnderWay, LateTaken
    <3>2. copies' = [copies EXCEPT ![p] = 1]
      BY <2>12, <3>1 DEF TypeOK, LateTaken, Stored
    <3> QED
      BY <2>1, <3>1, <3>2 DEF TypeOK, Untouched, Taken, UnderWay
  <2> QED
    BY <1>3, <2>2, <2>3, <2>4, <2>5, <2>6, <2>7, <2>8, <2>9, <2>10, <2>11, <2>12 DEF PostNext
<1>4. CASE Crash
  <2>1. Held'
    BY <1>4, HeldStays DEF Crash, tabVars, Running
  <2>2. PICK sent \in SUBSET {p \in Post : stage[p] = "prompting"} : CutOff(asked \cup sent)
    BY <1>4 DEF Crash
  <2>3. ASSUME NEW p \in Post
        PROVE  /\ stage'[p] = IF stage[p] \in Running THEN "over" ELSE stage[p]
               /\ p \notin fallbacks' /\ p \notin asked' /\ copies'[p] = copies[p]
               /\ p \in late' <=> p \in late \/ p \in asked \/ p \in sent
               /\ p \in sent => stage[p] = "prompting"
               /\ refused' = refused /\ dropped' = dropped \cup fallbacks
    BY <1>4, <2>2 DEF Crash, CutOff
  <2>4. Untouched'
    <3>1. ASSUME NEW p \in Post, stage[p] = "prompting"
          PROVE  /\ copies[p] = 0 /\ p \notin fallbacks /\ p \notin asked
                 /\ p \notin late /\ p \notin refused /\ p \notin dropped
      BY <3>1 DEF Untouched, UnderWay
    <3>2. /\ \A p \in Post : stage'[p] \in {"unsent", "held", "arriving", "prompting"} =>
               copies'[p] = 0 /\ ~UnderWay(p)' /\ p \notin (refused \cup dropped)'
          /\ \A p \in Post : copies'[p] = 0 \/ (copies'[p] = 1 /\ ~UnderWay(p)')
      BY <2>3, <3>1 DEF Untouched, UnderWay, Running
    <3>3. \A p \in Post : p \in (refused \cup dropped)' => copies'[p] = 0 /\ ~UnderWay(p)'
      BY <2>3, <3>1 DEF Untouched, UnderWay
    <3>4. \A p \in Post :
            /\ ~(p \in fallbacks' /\ p \in asked')
            /\ ~(p \in fallbacks' /\ p \in late')
            /\ ~(p \in asked' /\ p \in late')
      BY <2>3
    <3> QED
      BY <1>1, <3>2, <3>3, <3>4 DEF Untouched, TypeOK
  <2>5. Taken'
    BY <2>3 DEF TypeOK, Taken, UnderWay, Running
  <2> QED
    BY <1>1, <2>1, <2>4, <2>5
<1>5. CASE UNCHANGED vars
  BY <1>1, <1>5 DEF Held, Untouched, Taken, UnderWay, vars, tabVars, workerVars
<1> QED
  BY <1>1, <1>2, <1>3, <1>4, <1>5 DEF Next

\* For any number of tabs, requests and texts: the prompt and its fallback
\* never make the worker store the message of one request twice.
THEOREM StoredOnceHolds == Spec => []StoredOnce
<1>1. IInv => StoredOnce
  BY DEF IInv, Untouched, StoredOnce
<1> QED
  BY <1>1, IInvInit, IInvNext, PTL DEF Spec

\* For any number of tabs and requests: a message that is neither stored nor on
\* its way after a page of success was refused or dropped, and nothing that was
\* refused or dropped is on its way.
THEOREM SilentLossesNamedHolds == Spec => []SilentLossesNamed
<1>1. IInv => SilentLossesNamed
  BY DEF IInv, Untouched, Taken, SilentLossesNamed
<1> QED
  BY <1>1, IInvInit, IInvNext, PTL DEF Spec

-----------------------------------------------------------------------------
\* What clears the editor of a tab.
LEMMA Clearing ==
  ASSUME TypeOK, [Next]_vars, NEW t \in open', editor[t] # Empty, editor'[t] = Empty
  PROVE  waiting[t] # None /\ stage[waiting[t]] \in Pages
<1>0. open' \subseteq Tab
  BY TypeNext DEF TypeOK
<1>1. ASSUME NEW u \in Tab, NEW b \in BOOLEAN, Settle(u, b)
      PROVE  u = t /\ b = TRUE
  BY <1>0, <1>1 DEF TypeOK, Settle
<1>2. ASSUME NEW u \in Tab, TabNext(u)
      PROVE  waiting[t] # None /\ stage[waiting[t]] \in Pages
  <2>1. ASSUME NEW text \in Text, Type(u, text) PROVE FALSE
    BY <1>0, <2>1, EmptyAssumption DEF TypeOK, Type
  <2>2. CASE Submit(u) \/ SubmitAgain(u)
    BY <2>2 DEF Submit, SubmitAgain
  <2>3. CASE Receive(u)
    <3>1. (stage[waiting[u]] \in Pages) \in BOOLEAN
      OBVIOUS
    <3>2. u = t /\ (stage[waiting[u]] \in Pages) = TRUE
      BY <1>1, <2>3, <3>1 DEF Receive
    <3> QED
      BY <2>3, <3>2 DEF Receive
  <2>4. CASE Reset(u) \/ HangUp(u)
    BY <1>1, <2>4 DEF Reset, HangUp
  <2>5. CASE Leave(u)
    BY <1>0, <2>5 DEF TypeOK, Leave
  <2> QED
    BY <1>2, <2>1, <2>2, <2>3, <2>4, <2>5 DEF TabNext
<1>3. ASSUME NEW p \in Post, PostNext(p) PROVE FALSE
  BY <1>3 DEF PostNext, Redirect, Refuse, Admit, PromptTaken, PromptMissing,
     PromptRefused, PromptFails, ListAnswered, ListFails, Apologise,
     Cancel, FallbackSends, FallbackFails, FallbackEnds, LateTaken, Advance, tabVars
<1>4. CASE Crash
  BY <1>4 DEF Crash, tabVars
<1>5. CASE UNCHANGED vars
  BY <1>5 DEF vars, tabVars
<1> QED
  BY <1>2, <1>3, <1>4, <1>5 DEF Next

\* Only a page that answers the tab's own request clears what the user wrote.
THEOREM ErrorKeepsTextHolds == Spec => ErrorKeepsText
<1>1. TypeOK /\ [Next]_vars =>
        [\A t \in open' : editor[t] # Empty /\ editor'[t] = Empty =>
           waiting[t] # None /\ stage[waiting[t]] \in Pages]_vars
  BY Clearing
<1> QED
  BY <1>1, TypeCorrect, PTL DEF Spec, ErrorKeepsText

-----------------------------------------------------------------------------
(* That a composer is answered.  tlapm cannot say when an action is ENABLED, *)
(* so the theorem assumes of weak fairness what FairStepsReady states: that   *)
(* the guards are where the steps can be taken.  Which step leads where, and  *)
(* that no step of another tab or post undoes it, is proved for any number.   *)

\* The way of a post: no stage is ever entered again.
LEMMA StageMoves ==
  ASSUME IInv, [Next]_vars, NEW p \in Post
  PROVE  \/ stage'[p] = stage[p]
         \/ stage[p] = "unsent" /\ stage'[p] \in {"held", "arriving"}
         \/ stage[p] = "held" /\ stage'[p] = "arriving"
         \/ stage[p] = "arriving" /\ stage'[p] \in {"login", "error", "prompting"}
         \/ stage[p] = "prompting" /\ stage'[p] \in {"listing", "apologising"}
         \/ stage[p] = "listing" /\ stage'[p] \in {"thread", "error"}
         \/ stage[p] = "apologising" /\ stage'[p] = "banner"
         \/ stage[p] \in Running /\ stage'[p] = "over"
<1>t. TypeOK /\ Held
  BY DEF IInv
<1>1. ASSUME NEW t \in Tab, TabNext(t)
      PROVE  \/ stage'[p] = stage[p]
             \/ stage[p] = "unsent" /\ stage'[p] \in {"held", "arriving"}
             \/ stage[p] = "held" /\ stage'[p] = "arriving"
  <2>1. CASE Submit(t) \/ SubmitAgain(t)
    BY <1>t, <2>1 DEF Submit, SubmitAgain, SendForm, TypeOK
  <2>2. ASSUME NEW b, Settle(t, b)
        PROVE  stage'[p] = stage[p] \/ (stage[p] = "held" /\ stage'[p] = "arriving")
    BY <1>t, <2>2 DEF Settle, SendForm, TypeOK, Held
  <2>3. CASE Receive(t) \/ Reset(t) \/ HangUp(t)
    BY <2>2, <2>3 DEF Receive, Reset, HangUp
  <2>4. CASE Leave(t) \/ \E text \in Text : Type(t, text)
    BY <2>4 DEF Leave, Type
  <2> QED
    BY <1>1, <2>1, <2>3, <2>4 DEF TabNext
<1>2. ASSUME NEW q \in Post, PostNext(q), q # p PROVE stage'[p] = stage[p]
  BY <1>t, <1>2 DEF PostNext, Redirect, Refuse, Admit, PromptTaken, PromptMissing,
     PromptRefused, PromptFails, ListAnswered, ListFails, Apologise,
     Cancel, FallbackSends, FallbackFails, FallbackEnds, LateTaken, Advance, TypeOK
<1>3. CASE Redirect(p) \/ Refuse(p) \/ Admit(p)
  BY <1>t, <1>3 DEF Redirect, Refuse, Admit, Advance, TypeOK
<1>4. CASE PromptTaken(p) \/ PromptMissing(p) \/ PromptRefused(p) \/ PromptFails(p)
  BY <1>t, <1>4 DEF PromptTaken, PromptMissing, PromptRefused, PromptFails, Advance, TypeOK
<1>5. CASE ListAnswered(p) \/ ListFails(p) \/ Apologise(p)
  BY <1>t, <1>5 DEF ListAnswered, ListFails, Apologise, Advance, TypeOK
<1>6. CASE Cancel(p) \/ FallbackSends(p) \/ FallbackFails(p) \/ FallbackEnds(p) \/ LateTaken(p)
  BY <1>t, <1>6 DEF Cancel, FallbackSends, FallbackFails, FallbackEnds, LateTaken, TypeOK
<1>7. CASE Crash
  BY <1>t, <1>7 DEF Crash, TypeOK
<1>8. CASE UNCHANGED vars
  BY <1>8 DEF vars
<1> QED
  BY <1>1, <1>2, <1>3, <1>4, <1>5, <1>6, <1>7, <1>8 DEF Next, PostNext

\* A tab begins to wait for a post only by sending it.
LEMMA WaitBegins ==
  ASSUME IInv, [Next]_vars, NEW t \in Tab, waiting'[t] # waiting[t], waiting'[t] # None
  PROVE  stage'[waiting'[t]] = "arriving"
<1>t. TypeOK /\ Held
  BY DEF IInv
<1>1. ASSUME NEW u \in Tab, TabNext(u) PROVE stage'[waiting'[t]] = "arriving"
  <2>1. ASSUME NEW q \in Post, NEW text, SendForm(u, q, text)
        PROVE  stage'[waiting'[t]] = "arriving"
    BY <1>t, <2>1 DEF SendForm, TypeOK
  <2>2. CASE Submit(u)
    BY <2>1, <2>2 DEF Submit
  <2>3. ASSUME NEW b, Settle(u, b) PROVE stage'[waiting'[t]] = "arriving"
    <3>1. CASE queued[u] = None
      BY <1>t, <2>3, <3>1 DEF Settle, TypeOK
    <3>2. CASE queued[u] # None
      <4>1. queued[u] \in Post
        BY <1>t, <3>2 DEF TypeOK
      <4> QED BY <2>1, <2>3, <3>2, <4>1 DEF Settle
    <3> QED BY <3>1, <3>2
  <2>4. CASE Receive(u) \/ Reset(u) \/ HangUp(u)
    BY <2>3, <2>4 DEF Receive, Reset, HangUp
  <2>5. CASE Leave(u)
    BY <1>t, <2>5 DEF Leave, TypeOK
  <2>6. CASE SubmitAgain(u) \/ \E text \in Text : Type(u, text)
    BY <2>6 DEF SubmitAgain, Type
  <2> QED
    BY <1>1, <2>2, <2>4, <2>5, <2>6 DEF TabNext
<1>2. ASSUME NEW q \in Post, PostNext(q) PROVE FALSE
  BY <1>2 DEF PostNext, Redirect, Refuse, Admit, PromptTaken, PromptMissing,
     PromptRefused, PromptFails, ListAnswered, ListFails, Apologise,
     Cancel, FallbackSends, FallbackFails, FallbackEnds, LateTaken, Advance, tabVars
<1>3. CASE Crash \/ UNCHANGED vars
  BY <1>3 DEF Crash, vars, tabVars
<1> QED
  BY <1>1, <1>2, <1>3 DEF Next

\* A tab waits only for a post that was sent.
Posted == \A t \in Tab : waiting[t] # None => stage[waiting[t]] \notin {"unsent", "held"}

LEMMA PostedNext == IInv /\ Posted /\ [Next]_vars => Posted'
<1> SUFFICES ASSUME IInv, Posted, [Next]_vars, NEW t \in Tab, waiting'[t] # None
             PROVE  stage'[waiting'[t]] \notin {"unsent", "held"}
  BY DEF Posted
<1>1. CASE waiting'[t] # waiting[t]
  BY <1>1, WaitBegins
<1>2. CASE waiting'[t] = waiting[t]
  <2>1. waiting[t] \in Post /\ stage[waiting[t]] \notin {"unsent", "held"}
    BY <1>2 DEF Posted, IInv, TypeOK
  <2> QED BY <1>2, <2>1, StageMoves
<1> QED
  BY <1>1, <1>2

LEMMA PostedHolds == Spec => [](IInv /\ Posted)
<1>1. Init => Posted
  BY DEF Init, Posted
<1> QED
  BY <1>1, IInvInit, IInvNext, PostedNext, PTL DEF Spec

\* A tab that is settled goes on to a post it held back, or to none.
LEMMA SettleEnds ==
  ASSUME IInv, Posted, NEW t \in Tab, NEW b, waiting[t] # None, Settle(t, b)
  PROVE  waiting'[t] # waiting[t]
<1>1. CASE queued[t] = None
  BY <1>1 DEF Settle, IInv, TypeOK
<1>2. CASE queued[t] # None
  <2>1. stage[queued[t]] = "held" /\ stage[waiting[t]] # "held"
    BY <1>2 DEF IInv, Held, Posted
  <2>2. waiting' = [waiting EXCEPT ![t] = queued[t]]
    BY <1>2 DEF Settle, SendForm
  <2> QED BY <2>1, <2>2 DEF IInv, TypeOK
<1> QED
  BY <1>1, <1>2

\* Where the post is that a tab waits for.
Asking(t, p) == waiting[t] = p
At(p, stages) == stage[p] \in stages

\* A composer is answered, whatever the worker, the other tabs and crashes do:
\* of fairness it takes what its own tab and its own post have.
THEOREM AnsweredHolds == FairSpec /\ []FairStepsReady => Answered
<1>1. ASSUME NEW t \in Tab, NEW p \in Post
      PROVE  FairSpec /\ []FairStepsReady => AnsweredFor(t, p)
  <2> DEFINE Admitted == Redirect(p) \/ Refuse(p) \/ Admit(p)
  <2>1. FairSpec => Spec /\ PostFairness(p) /\ TabFairness(t)
    BY DEF FairSpec, Fairness
  <2>2. FairStepsReady => PostReady(p) /\ TabReady(t)
    BY DEF FairStepsReady
  <2>3. PostReady(p) =>
          /\ At(p, {"arriving"}) => ENABLED <<Admitted>>_vars
          /\ At(p, {"prompting"}) => ENABLED <<PromptFails(p)>>_vars
          /\ At(p, {"listing"}) => ENABLED <<ListFails(p)>>_vars
          /\ At(p, {"apologising"}) => ENABLED <<Apologise(p)>>_vars
    BY DEF PostReady, At
  <2>4. TabReady(t) /\ Asking(t, p) =>
          /\ At(p, Pages \cup {"error"}) => ENABLED <<Receive(t)>>_vars
          /\ At(p, {"over"}) => ENABLED <<Reset(t)>>_vars
    BY NoneAssumption DEF TabReady, Asking, At
  <2>5. IInv /\ Posted /\ Asking(t, p) =>
          /\ Admitted => ~At(p, {"arriving"})'
          /\ PromptFails(p) => ~At(p, {"prompting"})'
          /\ ListFails(p) => ~At(p, {"listing"})'
          /\ Apologise(p) => ~At(p, {"apologising"})'
          /\ Receive(t) => ~Asking(t, p)'
          /\ Reset(t) => ~Asking(t, p)'
    <3> SUFFICES ASSUME IInv, Posted, Asking(t, p)
                 PROVE  /\ Admitted => ~At(p, {"arriving"})'
                        /\ PromptFails(p) => ~At(p, {"prompting"})'
                        /\ ListFails(p) => ~At(p, {"listing"})'
                        /\ Apologise(p) => ~At(p, {"apologising"})'
                        /\ Receive(t) => ~Asking(t, p)'
                        /\ Reset(t) => ~Asking(t, p)'
      OBVIOUS
    <3>1. Admitted => ~At(p, {"arriving"})'
      BY DEF Redirect, Refuse, Admit, Advance, At, IInv, TypeOK
    <3>2. /\ PromptFails(p) => ~At(p, {"prompting"})'
          /\ ListFails(p) => ~At(p, {"listing"})'
          /\ Apologise(p) => ~At(p, {"apologising"})'
      BY DEF PromptFails, ListFails, Apologise, Advance, At, IInv, TypeOK
    <3>3. (Receive(t) => ~Asking(t, p)') /\ (Reset(t) => ~Asking(t, p)')
      BY NoneAssumption, SettleEnds DEF Receive, Reset, Asking
    <3> QED BY <3>1, <3>2, <3>3
  <2>6. (Asking(t, p) <=> waiting[t] = p) /\ (~Asking(t, p) <=> waiting[t] # p)
    BY DEF Asking
  <2> HIDE DEF Admitted
  <2>7. PostFairness(p) => WF_vars(Admitted)
    BY PTL DEF PostFairness, Admitted
  <2>8. IInv /\ Posted /\ Asking(t, p) =>
          \/ At(p, {"arriving"}) \/ At(p, {"prompting"}) \/ At(p, {"listing"})
          \/ At(p, {"apologising"}) \/ At(p, Pages \cup {"error"}) \/ At(p, {"over"})
    BY NoneAssumption DEF Posted, Asking, At, IInv, TypeOK, Running, Pages
  <2>9. IInv /\ [Next]_vars =>
          /\ At(p, {"prompting"}) =>
               \/ At(p, {"prompting"})' \/ At(p, {"listing"})'
               \/ At(p, {"apologising"})' \/ At(p, {"over"})'
          /\ At(p, {"listing"}) =>
               \/ At(p, {"listing"})' \/ At(p, Pages \cup {"error"})' \/ At(p, {"over"})'
          /\ At(p, {"apologising"}) =>
               \/ At(p, {"apologising"})' \/ At(p, Pages \cup {"error"})' \/ At(p, {"over"})'
          /\ At(p, Pages \cup {"error"}) => At(p, Pages \cup {"error"})'
          /\ At(p, {"over"}) => At(p, {"over"})'
    BY StageMoves DEF At, Pages, Running
  <2> QED
    BY <2>1, <2>2, <2>3, <2>4, <2>5, <2>6, <2>7, <2>8, <2>9, PostedHolds,
       PTL DEF Spec, PostFairness, TabFairness, AnsweredFor
<1> QED
  BY <1>1 DEF Answered
=============================================================================
