-------------------------- MODULE ChatToolsProofs ---------------------------
(* ChatTools for any models, polls, window and bound: types, when the chip  *)
(* goes back, which model a message is posted with, and that the chip       *)
(* settles.                                                                 *)
(*                                                                          *)
(* ChipBackOnly needs Growing: the window has a usage for all that the chip *)
(* ever showed and every poll found, unless such a usage is forgotten.      *)
(* PostedIsPicked needs Chosen: the flag and the selector tell the user's   *)
(* last choice, and there is none to lose when the selector is filled.      *)
(* ChipSettles needs Settling: the polls issued since time passed last find *)
(* the session's usage, and when it passes again the others are answered.   *)
EXTENDS ChatTools, TLAPS

\* A message in the window used at least n, or such a usage is forgotten.
Known(n) ==
    n <= forgotten \/ \E k \in Positions : Counted(k) /\ n <= window[k].tokens

Growing ==
    /\ TotalsGrow
    /\ Known(used)
    /\ \A i \in Slot :
         /\ poll[i].pc = "sent" => Known(poll[i].base)
         /\ poll[i].pc = "listed" /\ poll[i].used # None =>
              /\ Known(poll[i].used)
              /\ poll[i].base <= poll[i].used \/ poll[i].base <= forgotten

Chosen ==
    /\ modelChanged => picked = selected
    /\ ~modelChanged => picked = None
    /\ tools => ~modelChanged /\ models = {}

IInv == TypeOK /\ Growing /\ Chosen

-----------------------------------------------------------------------------
LEMMA TotalsAreNat == Totals = {n \in Nat : n <= MaxTotal}
  BY BoundAssumption DEF Totals

LEMMA PositionsAreNat == Positions = {k \in Nat : 1 <= k /\ k <= Window}
  BY BoundAssumption DEF Positions

\* What a usage is.
LEMMA UsageTyped ==
  ASSUME NEW u \in Usages
  PROVE  /\ u.kind \in {"none", "sum", "total"}
         /\ u.tokens \in Totals /\ u.tokens \in Nat
  BY TotalsAreNat, BoundAssumption DEF Usages, NoUsage

\* The invariant speaks of the window only by Known, which no message and no
\* count takes back.
NothingLost ==
    /\ window' \in [Positions -> Usages] /\ forgotten' \in Totals
    /\ TotalsGrow' /\ forgotten <= forgotten'
    /\ \A n \in Totals : Known(n) => Known(n)'

\* A usage at least n that is gone has been forgotten, or a total stands for it.
LEMMA MissKnown ==
  ASSUME TypeOK, NEW u \in Usages, Miss(u), NEW n \in Totals,
         u.kind # "none", n <= u.tokens,
         window' \in [Positions -> Usages],
         u.kind = "total" /\ (\E k \in Positions : HasTotal(k)') =>
           \E k \in Positions : HasTotal(k)' /\ u.tokens <= window'[k].tokens
  PROVE  Known(n)'
<1>1. n \in Nat /\ forgotten \in Nat /\ u.tokens \in Nat
  BY UsageTyped, TotalsAreNat DEF TypeOK
<1>2. CASE forgotten' = u.tokens
  BY <1>1, <1>2 DEF Known
<1>3. CASE ~(u.tokens > forgotten)
  <2>1. forgotten' = forgotten
    BY <1>3 DEF Miss
  <2> QED
    BY <1>1, <1>3, <2>1 DEF Known
<1>4. ASSUME NEW k \in Positions, Counted(k)', u.tokens <= window'[k].tokens
      PROVE  Known(n)'
  <2>1. window'[k].tokens \in Nat
    BY UsageTyped
  <2>2. n <= window'[k].tokens
    BY <1>1, <1>4, <2>1
  <2> QED
    BY <1>4, <2>2 DEF Known
<1>5. CASE u.kind = "total" /\ \E k \in Positions : HasTotal(k)'
  BY <1>4, <1>5 DEF Counted, HasTotal
<1>6. CASE \E k \in Positions : Counted(k)' /\ ~(window'[k].tokens < u.tokens)
  <2>1. PICK k \in Positions : Counted(k)' /\ ~(window'[k].tokens < u.tokens)
    BY <1>6
  <2>2. u.tokens <= window'[k].tokens
    BY <1>1, <2>1, UsageTyped
  <2> QED
    BY <1>4, <2>1, <2>2
<1> QED
  BY <1>2, <1>3, <1>5, <1>6 DEF Miss

\* forgotten only grows, by usages.
LEMMA MissGrows ==
  ASSUME TypeOK, NEW u \in Usages, Miss(u)
  PROVE  forgotten' \in Totals /\ forgotten <= forgotten'
<1>1. u.tokens \in Totals /\ u.tokens \in Nat /\ forgotten \in Nat
  BY UsageTyped, TotalsAreNat DEF TypeOK
<1> QED
  BY <1>1 DEF Miss, TypeOK

LEMMA MessageKnown ==
  ASSUME TypeOK, TotalsGrow, Message
  PROVE  NothingLost
<1>1. PICK u \in Usages :
        /\ Continues(u)
        /\ window' = [k \in Positions |-> IF k < Window THEN window[k + 1] ELSE u]
  BY DEF Message
<1>2. Window \in Nat /\ 1 \in Positions /\ Miss(window[1]) /\ window[1] \in Usages
  BY BoundAssumption, PositionsAreNat DEF Message, TypeOK
<1>3. \A k \in Positions : k < Window => k + 1 \in Positions
  BY <1>2, PositionsAreNat
<1>4. \A k \in Positions : window'[k] = IF k < Window THEN window[k + 1] ELSE u
  BY <1>1
<1>5. window' \in [Positions -> Usages]
  BY <1>1, <1>3 DEF TypeOK
<1>6. \A k \in Positions : window[k].tokens \in Nat /\ window'[k].tokens \in Nat
  BY <1>5, UsageTyped DEF TypeOK
<1>7. TotalsGrow'
  <2> SUFFICES ASSUME NEW j \in Positions, NEW k \in Positions,
                      j < k, HasTotal(j)', HasTotal(k)'
               PROVE  window'[j].tokens <= window'[k].tokens
    BY DEF TotalsGrow
  <2>1. j < Window /\ j + 1 \in Positions /\ j + 1 < k + 1
    BY <1>2, <1>3, PositionsAreNat
  <2>2. window'[j] = window[j + 1] /\ HasTotal(j + 1)
    BY <1>4, <2>1 DEF HasTotal
  <2>3. CASE k < Window
    BY <1>3, <1>4, <2>1, <2>2, <2>3 DEF TotalsGrow, HasTotal
  <2>4. CASE ~(k < Window)
    <3>1. window'[k] = u /\ u.kind = "total"
      BY <1>4, <2>4 DEF HasTotal
    <3> QED
      BY <1>1, <2>1, <2>2, <3>1 DEF Continues
  <2> QED
    BY <2>3, <2>4
<1>8. window[1].kind = "total" =>
        \A k \in Positions : HasTotal(k)' => window[1].tokens <= window'[k].tokens
  <2> SUFFICES ASSUME window[1].kind = "total", NEW k \in Positions, HasTotal(k)'
               PROVE  window[1].tokens <= window'[k].tokens
    OBVIOUS
  <2>1. HasTotal(1)
    BY DEF HasTotal
  <2>2. CASE k < Window
    <3>1. window'[k] = window[k + 1] /\ k + 1 \in Positions /\ 1 < k + 1 /\ HasTotal(k + 1)
      BY <1>3, <1>4, <2>2, PositionsAreNat DEF HasTotal
    <3> QED
      BY <1>2, <2>1, <3>1 DEF TotalsGrow
  <2>3. CASE ~(k < Window)
    <3>1. window'[k] = u /\ u.kind = "total"
      BY <1>4, <2>3 DEF HasTotal
    <3> QED
      BY <1>1, <1>2, <2>1, <3>1 DEF Continues
  <2> QED
    BY <2>2, <2>3
<1>9. ASSUME NEW n \in Totals, Known(n) PROVE Known(n)'
  <2>1. n \in Nat /\ forgotten \in Nat /\ forgotten' \in Nat /\ forgotten <= forgotten'
    BY <1>2, MissGrows, TotalsAreNat DEF TypeOK
  <2>2. CASE n <= forgotten
    BY <2>1, <2>2 DEF Known
  <2>3. ASSUME NEW k \in Positions, Counted(k), n <= window[k].tokens PROVE Known(n)'
    <3>1. CASE k = 1
      <4>1. window[1].kind # "none" /\ n <= window[1].tokens
        BY <2>3, <3>1 DEF Counted
      <4>2. window[1].kind = "total" /\ (\E j \in Positions : HasTotal(j)') =>
              \E j \in Positions : HasTotal(j)' /\ window[1].tokens <= window'[j].tokens
        BY <1>8
      <4> QED
        BY <1>2, <1>5, <4>1, <4>2, MissKnown
    <3>2. CASE k # 1
      <4>1. k - 1 \in Positions /\ k - 1 < Window /\ (k - 1) + 1 = k
        BY <1>2, <3>2, PositionsAreNat
      <4>2. window'[k - 1] = window[k]
        BY <1>4, <4>1
      <4> QED
        BY <2>3, <4>1, <4>2 DEF Known, Counted
    <3> QED
      BY <3>1, <3>2
  <2> QED
    BY <1>9, <2>2, <2>3 DEF Known
<1> QED
  BY <1>2, <1>5, <1>7, <1>9, MissGrows DEF NothingLost

LEMMA CountKnown ==
  ASSUME TypeOK, TotalsGrow, NEW k \in Positions, Count(k)
  PROVE  NothingLost
<1>1. PICK u \in Usages :
        /\ Continues(u)
        /\ HasTotal(k) => u.kind = "total"
        /\ u.kind = "total" => \A j \in Positions : j > k => ~HasTotal(j)
        /\ window' = [window EXCEPT ![k] = u]
  BY DEF Count
<1>2. Miss(window[k]) /\ window[k] \in Usages
  BY DEF Count, TypeOK
<1>3. \A j \in Positions : window'[j] = IF j = k THEN u ELSE window[j]
  BY <1>1 DEF TypeOK
<1>4. window' \in [Positions -> Usages]
  BY <1>1 DEF TypeOK
<1>5. \A j \in Positions : window[j].tokens \in Nat /\ window'[j].tokens \in Nat
  BY <1>4, UsageTyped DEF TypeOK
<1>6. TotalsGrow'
  <2> SUFFICES ASSUME NEW j \in Positions, NEW l \in Positions,
                      j < l, HasTotal(j)', HasTotal(l)'
               PROVE  window'[j].tokens <= window'[l].tokens
    BY DEF TotalsGrow
  <2>1. j \in Nat /\ l \in Nat /\ j # l
    BY PositionsAreNat
  <2>2. CASE l = k
    BY <1>1, <1>3, <2>1, <2>2 DEF Continues, HasTotal
  <2>3. CASE j = k
    BY <1>1, <1>3, <2>1, <2>3 DEF HasTotal
  <2>4. CASE j # k /\ l # k
    BY <1>3, <2>4 DEF TotalsGrow, HasTotal
  <2> QED
    BY <2>2, <2>3, <2>4
<1>7. window[k].kind = "total" => HasTotal(k)' /\ window[k].tokens <= window'[k].tokens
  BY <1>1, <1>3 DEF HasTotal, Continues
<1>8. ASSUME NEW n \in Totals, Known(n) PROVE Known(n)'
  <2>1. n \in Nat /\ forgotten \in Nat /\ forgotten' \in Nat /\ forgotten <= forgotten'
    BY <1>2, MissGrows, TotalsAreNat DEF TypeOK
  <2>2. CASE n <= forgotten
    BY <2>1, <2>2 DEF Known
  <2>3. ASSUME NEW j \in Positions, Counted(j), n <= window[j].tokens PROVE Known(n)'
    <3>1. CASE j = k
      <4>1. window[k].kind # "none" /\ n <= window[k].tokens
        BY <2>3, <3>1 DEF Counted
      <4>2. window[k].kind = "total" /\ (\E l \in Positions : HasTotal(l)') =>
              \E l \in Positions : HasTotal(l)' /\ window[k].tokens <= window'[l].tokens
        BY <1>7
      <4> QED
        BY <1>2, <1>4, <4>1, <4>2, MissKnown
    <3>2. CASE j # k
      BY <1>3, <2>3, <3>2 DEF Known, Counted
    <3> QED
      BY <3>1, <3>2
  <2> QED
    BY <1>8, <2>2, <2>3 DEF Known
<1> QED
  BY <1>2, <1>4, <1>6, <1>8, MissGrows DEF NothingLost

\* Selecting a model that is listed, or none, keeps the chip's types.
LEMMA ApplyKeeps ==
  ASSUME NEW m \in Model \cup {None}, ApplyModel(m)
  PROVE  selected' = m /\ used' = 0 /\ used' \in Totals /\ maxCtx' \in Nat
<1>1. ContextOf(m) \in Nat
  BY ContextAssumption DEF ContextOf
<1> QED
  BY <1>1, TotalsAreNat, BoundAssumption DEF ApplyModel

LEMMA PreselectListed ==
  ASSUME NEW listed \in SUBSET Model, NEW default, NEW m \in Preselect(listed, default)
  PROVE  m \in listed \cup {None}
  BY DEF Preselect

LEMMA IInvInit == Init => IInv
<1> SUFFICES ASSUME Init PROVE IInv
  OBVIOUS
<1>1. 0 \in Totals /\ 0 <= 0
  BY TotalsAreNat, BoundAssumption
<1>2. TypeOK
  BY <1>1 DEF Init, TypeOK, Idle, Polls
<1>3. Growing
  BY <1>1 DEF Init, Growing, Known, Idle
<1>4. Chosen
  BY DEF Init, Chosen
<1> QED
  BY <1>2, <1>3, <1>4 DEF IInv

\* What a poll keeps of the chip is a number that it showed or will show.
LEMMA PollTyped ==
  ASSUME TypeOK, NEW i \in Slot
  PROVE  /\ poll[i] \in Polls
         /\ poll[i].pc \in {"sent", "listed"} => poll[i].base \in Totals
         /\ poll[i].pc = "listed" => poll[i].used \in Totals \cup {None}
  BY DEF TypeOK, Polls

\* A step that only the worker takes.
LEMMA WindowKeeps ==
  ASSUME IInv, NothingLost, UNCHANGED <<env, selectorVars, chipVars, pollVars, posted>>
  PROVE  IInv'
<1>1. TypeOK'
  BY DEF IInv, TypeOK, NothingLost, selectorVars, chipVars, pollVars
<1>2. ASSUME NEW n \in Totals, n <= forgotten PROVE n <= forgotten'
  <2>1. n \in Nat /\ forgotten \in Nat /\ forgotten' \in Nat /\ forgotten <= forgotten'
    BY TotalsAreNat DEF IInv, TypeOK, NothingLost
  <2> QED
    BY <1>2, <2>1
<1>3. Growing'
  <2>1. TotalsGrow' /\ Known(used)'
    BY DEF IInv, TypeOK, Growing, NothingLost, chipVars, Known
  <2>2. ASSUME NEW i \in Slot
        PROVE  /\ poll[i].pc = "sent" => Known(poll[i].base)'
               /\ poll[i].pc = "listed" /\ poll[i].used # None =>
                    /\ Known(poll[i].used)'
                    /\ poll[i].base <= poll[i].used \/ poll[i].base <= forgotten'
    <3>1. poll' = poll /\ TypeOK
      BY DEF pollVars, IInv
    <3>2. \A n \in Totals : Known(n) => n <= forgotten' \/ \E k \in Positions : Counted(k)' /\ n <= window'[k].tokens
      BY DEF NothingLost, Known
    <3> QED
      BY <1>2, <3>1, <3>2, PollTyped DEF IInv, Growing, Known
  <2> QED
    BY <2>1, <2>2 DEF Growing, pollVars
<1>4. Chosen'
  BY DEF IInv, Chosen, selectorVars
<1> QED
  BY <1>1, <1>3, <1>4 DEF IInv

\* What a step that leaves session and selector alone has to keep.
LEMMA PollsKeep ==
  ASSUME IInv, UNCHANGED <<sessionVars, selectorVars, maxCtx, posted>>,
         used' \in Totals, Known(used'), old' \subseteq Slot,
         NEW i \in Slot, NEW p \in Polls, poll' = [poll EXCEPT ![i] = p],
         p.pc = "sent" => Known(p.base),
         p.pc = "listed" /\ p.used # None =>
           Known(p.used) /\ (p.base <= p.used \/ p.base <= forgotten)
  PROVE  IInv'
<1>1. TypeOK'
  BY DEF IInv, TypeOK, sessionVars, selectorVars
<1>2. \A k \in Slot : poll'[k] = IF k = i THEN p ELSE poll[k]
  BY DEF IInv, TypeOK
<1>3. Growing'
  BY <1>2 DEF IInv, Growing, sessionVars, TotalsGrow, HasTotal, Known, Counted
<1>4. Chosen'
  BY DEF IInv, Chosen, selectorVars
<1> QED
  BY <1>1, <1>3, <1>4 DEF IInv

\* A model has been selected: the chip shows 0, which is always known.
LEMMA BlankKeeps ==
  ASSUME IInv, TypeOK', used' = 0, UNCHANGED <<sessionVars, pollVars>>
  PROVE  Growing'
<1>1. 0 <= forgotten
  BY TotalsAreNat DEF IInv, TypeOK
<1> QED
  BY <1>1 DEF IInv, Growing, sessionVars, pollVars, TotalsGrow, HasTotal, Known, Counted

\* session_status finds the greatest usage, which all that is known bounds.
LEMMA ReportedKnown ==
  ASSUME TypeOK, NEW n \in Totals \cup {None}, Reported(n), n # None
  PROVE  /\ Known(n)
         /\ \A b \in Totals : Known(b) => b <= n \/ b <= forgotten
<1>1. PICK k \in Positions : Counted(k) /\ window[k].tokens = n
  BY DEF Reported
<1>2. \A j \in Positions : Counted(j) => window[j].tokens <= n
  BY DEF Reported
<1>3. \A j \in Positions : window[j].tokens \in Nat
  BY UsageTyped DEF TypeOK
<1>4. Known(n)
  BY <1>1, <1>3 DEF Known
<1>5. ASSUME NEW b \in Totals, Known(b) PROVE b <= n \/ b <= forgotten
  <2>1. CASE b <= forgotten
    BY <2>1
  <2>2. ASSUME NEW j \in Positions, Counted(j), b <= window[j].tokens PROVE b <= n
    <3>1. b \in Nat /\ n \in Nat /\ window[j].tokens <= n
      BY <1>1, <1>2, <1>3, <2>2, TotalsAreNat
    <3> QED
      BY <1>3, <2>2, <3>1
  <2> QED
    BY <1>5, <2>1, <2>2 DEF Known
<1> QED
  BY <1>4, <1>5

LEMMA IInvNext == IInv /\ [Next]_vars => IInv'
<1> SUFFICES ASSUME IInv, [Next]_vars PROVE IInv'
  OBVIOUS
<1>t. TypeOK /\ Growing /\ Chosen /\ TotalsGrow /\ Known(used)
  BY DEF IInv, Growing
<1>1. CASE Message
  BY <1>1, <1>t, MessageKnown, WindowKeeps DEF Message
<1>2. ASSUME NEW k \in Positions, Count(k) PROVE IInv'
  BY <1>2, <1>t, CountKnown, WindowKeeps DEF Count
<1>3. CASE EnvChanges \/ TimePasses
  <2>1. /\ UNCHANGED <<window, forgotten, selectorVars, chipVars, poll, posted>>
        /\ env' \in {"up", "down", "out"} /\ old' \subseteq Slot
    BY <1>3, <1>t DEF EnvChanges, TimePasses, TypeOK, sessionVars, pollVars
  <2>2. TypeOK'
    BY <1>t, <2>1 DEF TypeOK, selectorVars, chipVars
  <2>3. Growing'
    BY <1>t, <2>1 DEF Growing, TotalsGrow, HasTotal, Known, Counted, chipVars
  <2>4. Chosen'
    BY <1>t, <2>1 DEF Chosen, selectorVars
  <2> QED
    BY <2>2, <2>3, <2>4 DEF IInv
<1>4. CASE ToolsArrive
  <2>1. PICK listed \in ListModels, default \in DefaultModel :
          /\ models' = listed
          /\ \E m \in Preselect(listed, default) : ApplyModel(m)
    BY <1>4 DEF ToolsArrive
  <2>2. PICK m \in Preselect(listed, default) : ApplyModel(m)
    BY <2>1
  <2>3. listed \subseteq Model
    BY <2>1 DEF ListModels
  <2>4. m \in listed \cup {None}
    BY <2>3, PreselectListed
  <2>5. selected' = m /\ used' = 0 /\ used' \in Totals /\ maxCtx' \in Nat
    BY <2>2, <2>3, <2>4, ApplyKeeps
  <2>6. /\ UNCHANGED <<sessionVars, modelChanged, picked, pollVars, posted>>
        /\ tools /\ tools' = FALSE
    BY <1>4 DEF ToolsArrive
  <2>7. TypeOK'
    BY <1>t, <2>1, <2>3, <2>4, <2>5, <2>6 DEF TypeOK, sessionVars, pollVars
  <2>8. Growing'
    BY <2>5, <2>6, <2>7, BlankKeeps
  <2>9. Chosen'
    BY <1>t, <2>6 DEF Chosen
  <2> QED
    BY <2>7, <2>8, <2>9 DEF IInv
<1>5. CASE ToolsFail
  <2>1. /\ UNCHANGED <<sessionVars, models, selected, modelChanged, picked,
                       chipVars, pollVars, posted>>
        /\ tools' = FALSE
    BY <1>5 DEF ToolsFail
  <2>2. TypeOK'
    BY <1>t, <2>1 DEF TypeOK, sessionVars, chipVars, pollVars
  <2>3. Growing'
    BY <1>t, <2>1 DEF Growing, TotalsGrow, HasTotal, Known, Counted, sessionVars, chipVars, pollVars
  <2>4. Chosen'
    BY <1>t, <2>1 DEF Chosen
  <2> QED
    BY <2>2, <2>3, <2>4 DEF IInv
<1>6. ASSUME NEW m \in Model, Pick(m) PROVE IInv'
  <2>1. selected' = m /\ used' = 0 /\ used' \in Totals /\ maxCtx' \in Nat
    BY <1>6, ApplyKeeps DEF Pick
  <2>2. /\ UNCHANGED <<sessionVars, tools, models, pollVars, posted>>
        /\ m \in models /\ modelChanged' = TRUE /\ picked' = m
    BY <1>6 DEF Pick
  <2>3. TypeOK'
    BY <1>t, <2>1, <2>2 DEF TypeOK, sessionVars, pollVars
  <2>4. Growing'
    BY <2>1, <2>2, <2>3, BlankKeeps
  <2>5. Chosen'
    BY <1>t, <2>1, <2>2 DEF Chosen
  <2> QED
    BY <2>3, <2>4, <2>5 DEF IInv
<1>7. CASE Submit \/ UNCHANGED vars
  <2>1. UNCHANGED <<sessionVars, selectorVars, chipVars, pollVars>>
    BY <1>7 DEF Submit, vars
  <2>2. posted' \in Model \cup {None}
    BY <1>7, <1>t DEF Submit, vars, TypeOK
  <2>3. TypeOK'
    BY <1>t, <2>1, <2>2 DEF TypeOK, sessionVars, selectorVars, chipVars, pollVars
  <2>4. Growing'
    BY <1>t, <2>1 DEF Growing, TotalsGrow, HasTotal, Known, Counted, sessionVars, chipVars, pollVars
  <2>5. Chosen'
    BY <1>t, <2>1 DEF Chosen, selectorVars
  <2> QED
    BY <2>3, <2>4, <2>5 DEF IInv
<1>8. ASSUME NEW i \in Slot,
             PollStatus(i) \/ StatusListed(i) \/ StatusFails(i) \/ StatusArrives(i)
      PROVE  IInv'
  <2>1. Idle \in Polls /\ Idle.pc = "idle"
    BY DEF Polls, Idle
  <2>2. CASE PollStatus(i)
    <3> DEFINE p == [pc |-> "sent", base |-> used]
    <3>1. p \in Polls /\ p.pc = "sent" /\ p.base = used
      BY <1>t DEF TypeOK, Polls
    <3>2. /\ poll' = [poll EXCEPT ![i] = p]
          /\ UNCHANGED <<sessionVars, selectorVars, maxCtx, posted>>
          /\ used' \in Totals /\ Known(used') /\ old' \subseteq Slot
      BY <1>t, <2>2 DEF PollStatus, TypeOK, chipVars
    <3> QED
      BY <1>t, <3>1, <3>2, PollsKeep
  <2>3. CASE StatusListed(i)
    <3>1. PICK n \in Totals \cup {None} :
            /\ IF env = "up" THEN Reported(n) ELSE n = None
            /\ poll' = [poll EXCEPT ![i] =
                 [pc |-> "listed", base |-> poll[i].base, used |-> n]]
      BY <2>3 DEF StatusListed
    <3> DEFINE p == [pc |-> "listed", base |-> poll[i].base, used |-> n]
    <3>2. /\ poll[i].pc = "sent"
          /\ UNCHANGED <<sessionVars, selectorVars, maxCtx, posted>>
          /\ used' \in Totals /\ Known(used') /\ old' \subseteq Slot
      BY <1>t, <2>3 DEF StatusListed, TypeOK, chipVars
    <3>3. poll[i].base \in Totals /\ Known(poll[i].base)
      BY <1>t, <3>2, PollTyped DEF Growing
    <3>4. p \in Polls /\ p.pc = "listed"
      BY <3>3 DEF Polls
    <3>5. n # None => Known(n) /\ (poll[i].base <= n \/ poll[i].base <= forgotten)
      BY <1>t, <3>1, <3>3, ReportedKnown
    <3> QED
      BY <3>1, <3>2, <3>4, <3>5, PollsKeep
  <2>4. CASE StatusFails(i)
    <3> DEFINE p == [pc |-> "error"]
    <3>1. p \in Polls /\ p.pc = "error"
      BY DEF Polls
    <3>2. /\ poll' = [poll EXCEPT ![i] = p]
          /\ UNCHANGED <<sessionVars, selectorVars, maxCtx, posted>>
          /\ used' \in Totals /\ Known(used') /\ old' \subseteq Slot
      BY <1>t, <2>4 DEF StatusFails, TypeOK, chipVars
    <3> QED
      BY <3>1, <3>2, PollsKeep
  <2>5. CASE StatusArrives(i)
    <3>1. /\ poll' = [poll EXCEPT ![i] = Idle]
          /\ UNCHANGED <<sessionVars, selectorVars, maxCtx, posted>>
          /\ old' \subseteq Slot
      BY <1>t, <2>5 DEF StatusArrives, TypeOK
    <3>2. used' \in Totals /\ Known(used')
      <4>1. CASE UNCHANGED used
        BY <1>t, <4>1 DEF TypeOK
      <4>2. CASE /\ poll[i].pc = "listed"
                 /\ used' = IF poll[i].used = None THEN 0 ELSE poll[i].used
        <5>1. 0 \in Totals /\ 0 <= forgotten
          BY <1>t, TotalsAreNat, BoundAssumption DEF TypeOK
        <5>2. CASE poll[i].used = None
          BY <4>2, <5>1, <5>2 DEF Known
        <5>3. CASE poll[i].used # None
          BY <1>t, <4>2, <5>3, PollTyped DEF Growing
        <5> QED
          BY <5>2, <5>3
      <4> QED
        BY <2>5, <4>1, <4>2 DEF StatusArrives
    <3> QED
      BY <2>1, <3>1, <3>2, PollsKeep
  <2> QED
    BY <1>8, <2>2, <2>3, <2>4, <2>5
<1> QED
  BY <1>1, <1>2, <1>3, <1>4, <1>5, <1>6, <1>7, <1>8 DEF Next

\* The invariant that the results below rest on.
THEOREM Inductive == Spec => []IInv
  BY IInvInit, IInvNext, PTL DEF Spec

\* Selector, chip and polls keep their types: what is selected is listed.
THEOREM TypeCorrect == Spec => []TypeOK
<1>1. IInv => TypeOK
  BY DEF IInv
<1> QED
  BY <1>1, Inductive, PTL

\* The number on the chip goes down only for an answer that was overtaken or
\* has no usage, when a model has been selected, or for a usage that is gone
\* and that nothing left in the window makes up for: for any polls and window,
\* whether the worker reports totals or each message's own tokens.
THEOREM ChipBackOnlyHolds == Spec => ChipBackOnly
<1>1. IInv /\ [Next]_vars =>
        [used' < used =>
           \/ selected' # selected \/ tools' # tools
           \/ used <= forgotten
           \/ \E i \in Slot : poll'[i] = Idle /\ (Blank(i) \/ Overtaken(i))]_vars
  <2> SUFFICES ASSUME IInv, [Next]_vars, used' < used
               PROVE  \/ selected' # selected \/ tools' # tools
                      \/ used <= forgotten
                      \/ \E i \in Slot : poll'[i] = Idle /\ (Blank(i) \/ Overtaken(i))
    OBVIOUS
  <2>1. used \in Nat /\ TypeOK
    BY TotalsAreNat DEF IInv, TypeOK
  <2>2. ASSUME used' = used PROVE FALSE
    BY <2>1, <2>2
  <2>3. CASE \/ Message \/ EnvChanges \/ Submit \/ TimePasses
             \/ \E k \in Positions : Count(k)
    BY <2>2, <2>3 DEF Message, Count, EnvChanges, Submit, TimePasses, chipVars
  <2>4. CASE ToolsArrive \/ ToolsFail
    BY <2>4 DEF ToolsArrive, ToolsFail
  <2>5. ASSUME NEW m \in Model, Pick(m) PROVE selected' # selected
    BY <2>5 DEF Pick, ApplyModel
  <2>6. ASSUME NEW i \in Slot, PollStatus(i) \/ StatusListed(i) \/ StatusFails(i)
        PROVE  FALSE
    BY <2>2, <2>6 DEF PollStatus, StatusListed, StatusFails, chipVars
  <2>7. ASSUME NEW i \in Slot, StatusArrives(i)
        PROVE  \/ used <= forgotten
               \/ poll'[i] = Idle /\ (Blank(i) \/ Overtaken(i))
    <3>1. poll'[i] = Idle
      BY <2>1, <2>7 DEF StatusArrives, TypeOK
    <3>2. /\ poll[i].pc = "listed"
          /\ used' = IF poll[i].used = None THEN 0 ELSE poll[i].used
      BY <2>2, <2>7 DEF StatusArrives
    <3>3. poll[i].used # None => poll[i].base <= poll[i].used \/ poll[i].base <= forgotten
      BY <3>2 DEF IInv, Growing
    <3>4. CASE poll[i].used = None \/ poll[i].base # used
      BY <3>1, <3>2, <3>4 DEF Blank, Overtaken
    <3>5. CASE poll[i].used # None /\ poll[i].base = used
      BY <2>1, <2>2, <3>2, <3>3, <3>5
    <3> QED
      BY <3>4, <3>5
  <2>8. CASE UNCHANGED vars
    BY <2>2, <2>8 DEF vars, chipVars
  <2> QED
    BY <2>3, <2>4, <2>5, <2>6, <2>7, <2>8 DEF Next
<1> QED
  BY <1>1, Inductive, PTL DEF Spec, ChipBackOnly

\* A message carries the model the user chose last or none, whenever the
\* selector was filled and whatever it preselected.
THEOREM PostedIsPickedHolds == Spec => PostedIsPicked
<1>1. IInv /\ [Next]_vars => [posted' # posted => posted' = picked]_vars
  <2> SUFFICES ASSUME IInv, [Next]_vars, posted' # posted PROVE posted' = picked
    OBVIOUS
  <2>1. CASE Submit
    BY <2>1 DEF Submit, IInv, Chosen
  <2>2. CASE \/ Message \/ EnvChanges \/ TimePasses \/ ToolsArrive \/ ToolsFail
             \/ \E k \in Positions : Count(k)
    BY <2>2 DEF Message, Count, EnvChanges, TimePasses, ToolsArrive, ToolsFail
  <2>3. ASSUME NEW m \in Model, Pick(m) PROVE FALSE
    BY <2>3 DEF Pick
  <2>4. ASSUME NEW i \in Slot,
               PollStatus(i) \/ StatusListed(i) \/ StatusFails(i) \/ StatusArrives(i)
        PROVE  FALSE
    BY <2>4 DEF PollStatus, StatusListed, StatusFails, StatusArrives
  <2>5. CASE UNCHANGED vars
    BY <2>5 DEF vars
  <2> QED
    BY <2>1, <2>2, <2>3, <2>4, <2>5 DEF Next
<1> QED
  BY <1>1, Inductive, PTL DEF Spec, PostedIsPicked

-----------------------------------------------------------------------------
(* That the chip settles, for any number of polls under way.  tlapm cannot   *)
(* say when an action is ENABLED, so the theorem assumes of weak fairness     *)
(* what FairStepsReady states: that the guards are where the steps can be     *)
(* taken.  Nor can it count polls, so that the old ones are all answered some *)
(* time is the hypothesis TimeGoesOn.                                         *)

\* The chip's context is the selected model's.
ContextShown == maxCtx = ContextOf(selected)

LEMMA ContextShownHolds == Spec => []ContextShown
<1>1. Init => ContextShown
  BY NoneAssumption DEF Init, ContextShown, ContextOf
<1>2. ContextShown /\ [Next]_vars => ContextShown'
  <2> SUFFICES ASSUME ContextShown, [Next]_vars PROVE ContextShown'
    OBVIOUS
  <2> USE DEF ContextShown, ContextOf, selectorVars, chipVars
  <2>1. CASE \/ Message \/ EnvChanges \/ Submit \/ TimePasses \/ UNCHANGED vars
             \/ \E k \in Positions : Count(k)
    BY <2>1 DEF Message, Count, EnvChanges, Submit, TimePasses, vars
  <2>2. CASE ToolsArrive \/ ToolsFail \/ \E m \in Model : Pick(m)
    BY <2>2 DEF ToolsArrive, ToolsFail, Pick, ApplyModel
  <2>3. ASSUME NEW i \in Slot,
               PollStatus(i) \/ StatusListed(i) \/ StatusFails(i) \/ StatusArrives(i)
        PROVE  ContextShown'
    BY <2>3 DEF PollStatus, StatusListed, StatusFails, StatusArrives
  <2> QED
    BY <2>1, <2>2, <2>3 DEF Next
<1> QED
  BY <1>1, <1>2, PTL DEF Spec

\* The worker is reachable, n is what the session has used, m is selected, and
\* the selector is not filled just now.
Stable(n, m) == env = "up" /\ Reported(n) /\ selected = m
Calm(n, m) == Stable(n, m) /\ Stable(n, m)' /\ (tools <=> tools') /\ [Next]_vars

\* An answer that shows n, or none; all of them, and those to the polls issued
\* since time passed last.
Fresh(i, n) == poll[i].pc = "listed" => poll[i].used = n
AllFresh(n) == \A i \in Slot : Fresh(i, n)
Settling(n) == \A i \in Slot \ old : Fresh(i, n)
Shown(n) == used = IF n = None THEN 0 ELSE n

\* A window has one greatest usage.
LEMMA ReportedOnce ==
  ASSUME TypeOK, NEW n \in Totals \cup {None}, NEW k \in Totals \cup {None},
         Reported(n), Reported(k)
  PROVE  k = n
<1>1. \A j \in Positions : window[j].tokens \in Nat
  BY UsageTyped DEF TypeOK
<1>2. CASE \A j \in Positions : ~Counted(j)
  BY <1>2 DEF Reported
<1>3. CASE \E j \in Positions : Counted(j)
  <2>1. n \in Nat /\ k \in Nat /\ n <= k /\ k <= n
    BY <1>1, <1>3 DEF Reported
  <2> QED
    BY <2>1
<1> QED
  BY <1>2, <1>3

\* In a calm step a poll is issued, listed with n, or delivered.
LEMMA PollCalm ==
  ASSUME IInv, NEW n \in Totals \cup {None}, NEW m, Calm(n, m), NEW i \in Slot
  PROVE  \/ poll'[i] = poll[i]
         \/ poll[i].pc = "idle" /\ poll'[i].pc = "sent"
         \/ poll[i].pc = "sent" /\ poll'[i].pc = "listed" /\ poll'[i].used = n
         \/ poll[i].pc \in {"listed", "error"} /\ StatusArrives(i)
<1>t. poll \in [Slot -> Polls] /\ env = "up" /\ Reported(n) /\ TypeOK
  BY DEF IInv, TypeOK, Calm, Stable
<1>1. CASE \/ Message \/ EnvChanges \/ Submit \/ TimePasses \/ UNCHANGED vars
           \/ \E k \in Positions : Count(k)
  BY <1>1 DEF Message, Count, EnvChanges, Submit, TimePasses, vars, pollVars
<1>2. CASE ToolsArrive \/ ToolsFail \/ \E k \in Model : Pick(k)
  BY <1>2 DEF ToolsArrive, ToolsFail, Pick, pollVars
<1>3. ASSUME NEW k \in Slot, k # i,
             PollStatus(k) \/ StatusListed(k) \/ StatusFails(k) \/ StatusArrives(k)
      PROVE  poll'[i] = poll[i]
  BY <1>t, <1>3 DEF PollStatus, StatusListed, StatusFails, StatusArrives
<1>4. CASE PollStatus(i)
  BY <1>t, <1>4 DEF PollStatus, Idle
<1>5. CASE StatusListed(i)
  <2>1. PICK k \in Totals \cup {None} :
          /\ Reported(k)
          /\ poll' = [poll EXCEPT ![i] =
               [pc |-> "listed", base |-> poll[i].base, used |-> k]]
    BY <1>t, <1>5 DEF StatusListed
  <2>2. k = n
    BY <1>t, <2>1, ReportedOnce
  <2> QED
    BY <1>t, <1>5, <2>1, <2>2 DEF StatusListed
<1>6. CASE StatusFails(i)
  BY <1>t, <1>6 DEF StatusFails
<1>7. CASE StatusArrives(i)
  BY <1>7 DEF StatusArrives
<1> QED
  BY <1>1, <1>2, <1>3, <1>4, <1>5, <1>6, <1>7 DEF Calm, Next

\* Once the old answers are delivered, only n comes to the chip.
LEMMA ChipCalm ==
  ASSUME IInv, NEW n, NEW m, Calm(n, m), AllFresh(n)
  PROVE  used' = used \/ Shown(n)'
<1>1. CASE \/ Message \/ EnvChanges \/ Submit \/ TimePasses \/ UNCHANGED vars
           \/ \E k \in Positions : Count(k)
  BY <1>1 DEF Message, Count, EnvChanges, Submit, TimePasses, vars, chipVars
<1>2. CASE ToolsArrive \/ ToolsFail
  BY <1>2 DEF ToolsArrive, ToolsFail, Calm
<1>3. ASSUME NEW k \in Model, Pick(k) PROVE FALSE
  BY <1>3 DEF Pick, ApplyModel, Calm, Stable
<1>4. ASSUME NEW i \in Slot, PollStatus(i) \/ StatusListed(i) \/ StatusFails(i)
      PROVE  used' = used
  BY <1>4 DEF PollStatus, StatusListed, StatusFails, chipVars
<1>5. ASSUME NEW i \in Slot, StatusArrives(i) PROVE used' = used \/ Shown(n)'
  BY <1>5 DEF StatusArrives, AllFresh, Fresh, Shown
<1> QED
  BY <1>1, <1>2, <1>3, <1>4, <1>5 DEF Calm, Next

\* The selector is filled once.
LEMMA ToolsOnce == [Next]_vars /\ ~tools => ~tools'
<1> SUFFICES ASSUME [Next]_vars, ~tools PROVE ~tools'
  OBVIOUS
<1>1. CASE \/ Message \/ EnvChanges \/ Submit \/ TimePasses \/ UNCHANGED vars
           \/ ToolsArrive \/ ToolsFail
           \/ (\E k \in Positions : Count(k)) \/ \E m \in Model : Pick(m)
  BY <1>1 DEF Message, Count, EnvChanges, Submit, TimePasses, vars, selectorVars,
              ToolsArrive, ToolsFail, Pick
<1>2. ASSUME NEW i \in Slot,
             PollStatus(i) \/ StatusListed(i) \/ StatusFails(i) \/ StatusArrives(i)
      PROVE  ~tools'
  BY <1>2 DEF PollStatus, StatusListed, StatusFails, StatusArrives, selectorVars
<1> QED
  BY <1>1, <1>2 DEF Next

\* A poll leaves the old ones when its answer is delivered, and joins them when
\* time passes.
LEMMA OldLeaves ==
  ASSUME IInv, [Next]_vars, ~TimePasses, NEW i \in old, i \notin old'
  PROVE  poll'[i] = Idle
<1>1. i \in Slot /\ poll \in [Slot -> Polls]
  BY DEF IInv, TypeOK
<1>2. ASSUME NEW k \in Slot, StatusArrives(k) PROVE poll'[i] = Idle
  BY <1>1, <1>2 DEF StatusArrives
<1>3. CASE \/ Message \/ EnvChanges \/ Submit \/ UNCHANGED vars
           \/ ToolsArrive \/ ToolsFail
           \/ (\E k \in Positions : Count(k)) \/ \E m \in Model : Pick(m)
  BY <1>3 DEF Message, Count, EnvChanges, Submit, vars, ToolsArrive, ToolsFail, Pick, pollVars
<1>4. ASSUME NEW k \in Slot, PollStatus(k) \/ StatusListed(k) \/ StatusFails(k)
      PROVE  poll'[i] = Idle
  BY <1>4 DEF PollStatus, StatusListed, StatusFails
<1> QED
  BY <1>2, <1>3, <1>4 DEF Next

\* When time passes in calm, every poll not marked is idle; until it passes
\* again those issued since find n.
LEMMA AnswersGetFresh ==
  ASSUME NEW n \in Totals \cup {None}, NEW m
  PROVE  FairSpec /\ TimeGoesOn /\ <>[]Stable(n, m) => <>[]AllFresh(n)
<1>1. FairSpec => Spec
  BY DEF FairSpec
<1>2. Calm(n, m) <=> Stable(n, m) /\ Stable(n, m)' /\ (tools <=> tools') /\ [Next]_vars
  BY DEF Calm
<1>3. ASSUME IInv, Calm(n, m), NEW i \in Slot, Fresh(i, n) PROVE Fresh(i, n)'
  <2>1. StatusArrives(i) => poll'[i].pc = "idle"
    BY <1>3 DEF StatusArrives, Idle, IInv, TypeOK
  <2> QED
    BY <1>3, <2>1, PollCalm DEF Fresh
<1>4. IInv /\ Calm(n, m) /\ AllFresh(n) => AllFresh(n)'
  BY <1>3 DEF AllFresh
<1>5. IInv /\ Calm(n, m) /\ <<TimePasses>>_vars => Settling(n)'
  <2> SUFFICES ASSUME IInv, TimePasses PROVE Settling(n)'
    OBVIOUS
  <2> QED
    BY DEF TimePasses, Settling, Fresh, Idle, pollVars
<1>6. IInv /\ Calm(n, m) /\ Settling(n) => Settling(n)'
  <2> SUFFICES ASSUME IInv, Calm(n, m), Settling(n), NEW i \in Slot \ old'
               PROVE  Fresh(i, n)'
    BY DEF Settling
  <2>1. CASE i \notin old
    BY <1>3, <2>1 DEF Settling
  <2>2. CASE i \in old /\ ~TimePasses
    BY <2>2, OldLeaves DEF Calm, Fresh, Idle
  <2>3. CASE i \in old /\ TimePasses
    BY <2>3 DEF TimePasses
  <2> QED
    BY <2>1, <2>2, <2>3
<1>7. Settling(n) /\ <<TimePasses>>_vars => AllFresh(n)
  BY DEF Settling, AllFresh, TimePasses
<1> QED
  BY <1>1, <1>2, <1>4, <1>5, <1>6, <1>7, Inductive, ToolsOnce, PTL
     DEF Spec, TimeGoesOn

\* When the old answers are gone one poll is enough.
LEMMA PollShows ==
  ASSUME NEW n \in Totals \cup {None}, NEW m, NEW i \in Slot
  PROVE  FairSpec /\ []FairStepsReady /\ <>[]Stable(n, m)
           /\ <>[]AllFresh(n) => <>[]Shown(n)
<1> DEFINE Listed == poll[i].pc = "listed"
           Answers == StatusListed(i) \/ StatusFails(i)
<1>1. FairSpec => Spec /\ PollFairness(i)
  BY DEF FairSpec
<1>2. FairStepsReady =>
        /\ poll[i].pc = "idle" => ENABLED <<PollStatus(i)>>_vars
        /\ poll[i].pc = "sent" => ENABLED <<Answers>>_vars
        /\ poll[i].pc = "error" => ENABLED <<StatusArrives(i)>>_vars
        /\ Listed => ENABLED <<StatusArrives(i)>>_vars
  BY DEF FairStepsReady, PollReady
<1>3. Calm(n, m) <=> Stable(n, m) /\ Stable(n, m)' /\ (tools <=> tools') /\ [Next]_vars
  BY DEF Calm
<1>4. IInv => poll[i].pc = "idle" \/ poll[i].pc = "sent" \/ poll[i].pc = "error" \/ Listed
  BY DEF IInv, TypeOK, Polls
<1>5. IInv /\ Calm(n, m) /\ AllFresh(n) =>
        /\ Shown(n) => Shown(n)'
        /\ poll[i].pc = "idle" => (poll[i].pc = "idle")' \/ (poll[i].pc = "sent")'
        /\ poll[i].pc = "sent" => (poll[i].pc = "sent")' \/ Listed'
        /\ poll[i].pc = "error" => (poll[i].pc = "error")' \/ (poll[i].pc = "idle")'
        /\ Listed => Listed' \/ Shown(n)'
  <2> SUFFICES ASSUME IInv, Calm(n, m), AllFresh(n)
               PROVE  /\ Shown(n) => Shown(n)'
                      /\ poll[i].pc = "idle" => (poll[i].pc = "idle")' \/ (poll[i].pc = "sent")'
                      /\ poll[i].pc = "sent" => (poll[i].pc = "sent")' \/ Listed'
                      /\ poll[i].pc = "error" => (poll[i].pc = "error")' \/ (poll[i].pc = "idle")'
                      /\ Listed => Listed' \/ Shown(n)'
    OBVIOUS
  <2>1. StatusArrives(i) => poll'[i].pc = "idle" /\ (Listed => Shown(n)')
    BY DEF StatusArrives, Idle, AllFresh, Fresh, Shown, IInv, TypeOK
  <2>2. Shown(n) => Shown(n)'
    BY ChipCalm DEF Shown
  <2> QED BY <2>1, <2>2, PollCalm
<1>6. IInv /\ Calm(n, m) /\ AllFresh(n) =>
        /\ PollStatus(i) => ~(poll[i].pc = "idle")'
        /\ Answers => ~(poll[i].pc = "sent")'
        /\ StatusArrives(i) => ~(poll[i].pc = "error")' /\ ~Listed'
  BY DEF PollStatus, StatusListed, StatusFails, StatusArrives, Idle, IInv, TypeOK
<1> HIDE DEF Listed, Answers
<1>7. PollFairness(i) => WF_vars(Answers)
  BY PTL DEF PollFairness, Answers
<1> DEFINE Settled == /\ []IInv /\ []AllFresh(n) /\ []Stable(n, m) /\ ([]tools \/ []~tools)
                      /\ [][Next]_vars /\ []FairStepsReady /\ PollFairness(i)
<1>8. Settled => (Listed ~> Shown(n))
  BY <1>2, <1>3, <1>5, <1>6, PTL DEF PollFairness
<1>9. Settled => (poll[i].pc = "sent" ~> Listed)
  BY <1>2, <1>3, <1>5, <1>6, <1>7, PTL
<1>10. Settled => (poll[i].pc = "idle" ~> poll[i].pc = "sent")
  BY <1>2, <1>3, <1>5, <1>6, PTL DEF PollFairness
<1>11. Settled => (poll[i].pc = "error" ~> poll[i].pc = "idle")
  BY <1>2, <1>3, <1>5, <1>6, PTL DEF PollFairness
<1>12. Settled => <>[]Shown(n)
  BY <1>3, <1>4, <1>5, <1>8, <1>9, <1>10, <1>11, PTL
<1> QED
  BY <1>1, <1>12, Inductive, ToolsOnce, PTL DEF Spec, PollFairness

\* The chip ends up with what the session has used and the selected model's
\* context, for any models, window and usages, and any number of polls that
\* overtake each other.
THEOREM ChipSettlesHolds ==
  FairSpec /\ TimeGoesOn /\ []FairStepsReady => ChipSettles
<1>1. ASSUME NEW n \in (Totals \ {0}) \cup {None}, NEW m \in Model \cup {None}
      PROVE  FairSpec /\ TimeGoesOn /\ []FairStepsReady => SettlesOn(n, m)
  <2>1. PICK i : i \in Slot
    BY SlotAssumption
  <2>2. FairSpec /\ TimeGoesOn /\ <>[]Stable(n, m) => <>[]AllFresh(n)
    BY AnswersGetFresh
  <2>3. FairSpec /\ []FairStepsReady /\ <>[]Stable(n, m) /\ <>[]AllFresh(n) => <>[]Shown(n)
    BY <2>1, PollShows
  <2>4. FairSpec => Spec
    BY DEF FairSpec
  <2>5. (env = "up" /\ Reported(n) /\ selected = m) <=> Stable(n, m)
    BY DEF Stable
  <2>6. Shown(n) /\ Stable(n, m) /\ ContextShown =>
          used = (IF n = None THEN 0 ELSE n) /\ maxCtx = ContextOf(m)
    BY DEF Shown, Stable, ContextShown
  <2> QED
    BY <2>2, <2>3, <2>4, <2>5, <2>6, ContextShownHolds, PTL DEF SettlesOn
<1> QED
  BY <1>1 DEF ChipSettles
=============================================================================
