----------------------------- MODULE ChatTools ------------------------------
(***************************************************************************)
(* The composer's tools on a chat page (static/chat.js with worker_tools   *)
(* and session_status of src/web/mod.rs): the model selector, filled once  *)
(* by an answer of the worker, and the context chip, which shows what the  *)
(* session has used of the selected model's context.                       *)
(*                                                                         *)
(* The page polls the status every 1.8 s, whether or not earlier polls are *)
(* answered: several are under way and their answers overtake each other.  *)
(* An answer takes up to two calls of at most 300 s each, so time does not *)
(* pass a poll by: TimePasses marks the polls under way, and comes again   *)
(* only when these have been delivered.                                    *)
(*                                                                         *)
(* Of the session's messages the model keeps the usage of each that        *)
(* session_status asks for.  A worker reports it as the session's total so *)
(* far, which grows, or as input and output of that one message.           *)
(*                                                                         *)
(* Operators whose name ends in _M are deliberate mistakes.  No action     *)
(* uses them: each stands before the definition it would replace, to show  *)
(* that a property notices the mistake.                                    *)
(***************************************************************************)
EXTENDS Naturals

CONSTANTS
    Model,     \* what the worker may list
    Context,   \* the size of each model's context, 0 when it has none
    Wanted,    \* the session's own model, or None
    None,      \* no model, no usage
    Slot,      \* bound: status polls under way at the same time
    Window,    \* how many messages session_status asks for, 50
    MaxTotal   \* bound: tokens of a usage

ASSUME ContextAssumption == Context \in [Model -> Nat]
ASSUME NoneAssumption == None \notin Model \cup Nat
ASSUME SlotAssumption == Slot # {}
ASSUME BoundAssumption == Window \in Nat \ {0} /\ MaxTotal \in Nat

VARIABLES
    env,          \* "up"; "down": the worker fails; "out": signed out
    window,       \* the usages of the last messages, the newest at Window
    forgotten,    \* history: the greatest usage that has left the window so
                  \* that nothing in it need make up for it
    tools,        \* the page still waits for its selectors
    models,       \* the models in the selector
    selected,     \* the selected one, None in an empty selector
    modelChanged, \* the user has changed the selection
    used,         \* what the chip shows: tokens used, 0 for nothing
    maxCtx,       \* and the size of the context, 0 for nothing
    poll,         \* the status polls
    old,          \* those that were under way when time passed last
    picked,       \* history: the model the user chose last
    posted        \* history: the model the last message was posted with

sessionVars == <<env, window, forgotten>>
selectorVars == <<tools, models, selected, modelChanged, picked>>
chipVars == <<used, maxCtx>>
pollVars == <<poll, old>>
vars == <<sessionVars, selectorVars, chipVars, pollVars, posted>>

Totals == 0 .. MaxTotal
Positions == 1 .. Window

\* A message without tokens, with the sum of its own, or with the total.  The
\* chip shows 0 tokens as it shows none.
NoUsage == [kind |-> "none", tokens |-> 0]
Usages == {NoUsage} \cup [kind : {"sum", "total"}, tokens : Totals \ {0}]

Counted(k) == window[k].kind # "none"
HasTotal(k) == window[k].kind = "total"

\* A poll knows what the chip showed when it was issued (history).
Idle == [pc |-> "idle"]
Polls ==
    [pc : {"idle", "error"}]
      \cup [pc : {"sent"}, base : Totals]
      \cup [pc : {"listed"}, base : Totals, used : Totals \cup {None}]

TypeOK ==
    /\ env \in {"up", "down", "out"}
    /\ window \in [Positions -> Usages] /\ forgotten \in Totals
    /\ models \subseteq Model /\ selected \in models \cup {None}
    /\ <<tools, modelChanged>> \in BOOLEAN \X BOOLEAN
    /\ used \in Totals /\ maxCtx \in Nat
    /\ poll \in [Slot -> Polls] /\ old \subseteq Slot
    /\ picked \in Model \cup {None} /\ posted \in Model \cup {None}

\* "info.tokens.total is the cumulative session total and grows"
\* (src/web/mod.rs:725-726).
TotalsGrow ==
    \A j, k \in Positions :
      j < k /\ HasTotal(j) /\ HasTotal(k) => window[j].tokens <= window[k].tokens

Init ==
    /\ env = "up"
    /\ window \in [Positions -> Usages] /\ TotalsGrow
    /\ forgotten = 0
    /\ tools = TRUE /\ models = {} /\ selected = None /\ modelChanged = FALSE
    /\ used = 0 /\ maxCtx = 0
    /\ poll = [i \in Slot |-> Idle] /\ old = {}
    /\ picked = None /\ posted = None

-----------------------------------------------------------------------------
(* The worker, the network and the browser's session *)

\* A usage that is gone is missed unless one as great is left; and a total is
\* not while there is another one, which grew from it.
Miss(usage) ==
    forgotten' =
      IF /\ usage.kind # "none" /\ usage.tokens > forgotten
         /\ \A k \in Positions : Counted(k)' => window'[k].tokens < usage.tokens
         /\ usage.kind = "total" => \A k \in Positions : ~HasTotal(k)'
      THEN usage.tokens ELSE forgotten

\* A total that a message brings is not less than those before it.
Continues(usage) ==
    usage.kind = "total" =>
      \A k \in Positions : HasTotal(k) => window[k].tokens <= usage.tokens

\* The newest message; with it the oldest one leaves the window.
Message ==
    /\ \E usage \in Usages :
         /\ Continues(usage)
         /\ window' = [k \in Positions |-> IF k < Window THEN window[k + 1] ELSE usage]
    /\ Miss(window[1])
    /\ UNCHANGED <<env, selectorVars, chipVars, pollVars, posted>>

\* A message is counted, or counted again, while its turn goes on.  Totals come
\* in the order of the messages, and a total stays one.
Count(k) ==
    /\ \E usage \in Usages :
         /\ Continues(usage)
         /\ HasTotal(k) => usage.kind = "total"
         /\ usage.kind = "total" => \A j \in Positions : j > k => ~HasTotal(j)
         /\ window' = [window EXCEPT ![k] = usage]
    /\ Miss(window[k])
    /\ UNCHANGED <<env, selectorVars, chipVars, pollVars, posted>>

EnvChanges ==
    /\ env' \in {"up", "down", "out"}
    /\ UNCHANGED <<window, forgotten, selectorVars, chipVars, pollVars, posted>>

-----------------------------------------------------------------------------
(* The selector *)

ContextOf(m) == IF m \in Model THEN Context[m] ELSE 0

\* applyModel: the size of the new context, and nothing used until a poll.
ApplyModel(m) ==
    /\ selected' = m
    /\ maxCtx' = ContextOf(m)
    /\ used' = 0

\* What list_models and default_model may bring: the models of all providers,
\* and a provider's default.  worker_tools makes nothing of a call that fails.
ListModels == IF env = "up" THEN SUBSET Model ELSE {{}}
DefaultModel == IF env = "up" THEN Model \cup {None} ELSE {None}

\* The session's model is selected whether it is listed or not.
PreselectUnlisted_M(listed, default) ==
    IF Wanted \in Model THEN {Wanted} ELSE {None}

\* The session's model, else the worker's default, else the first one listed.
Preselect(listed, default) ==
    CASE Wanted \in listed -> {Wanted}
      [] Wanted \notin listed /\ default \in listed -> {default}
      [] Wanted \notin listed /\ default \notin listed ->
           IF listed = {} THEN {None} ELSE listed

\* The three calls of worker_tools are answered, or fail, one by one.
ToolsArrive ==
    /\ tools /\ env # "out"
    /\ tools' = FALSE
    /\ \E listed \in ListModels, default \in DefaultModel :
         /\ models' = listed
         /\ \E m \in Preselect(listed, default) : ApplyModel(m)
    /\ UNCHANGED <<sessionVars, modelChanged, picked, pollVars, posted>>

\* The login page, an error or a lost connection: the selector stays empty.
ToolsFail ==
    /\ tools
    /\ tools' = FALSE
    /\ UNCHANGED <<sessionVars, models, selected, modelChanged, picked,
                   chipVars, pollVars, posted>>

\* The change event.
Pick(m) ==
    /\ m \in models /\ m # selected
    /\ modelChanged' = TRUE
    /\ picked' = m
    /\ ApplyModel(m)
    /\ UNCHANGED <<sessionVars, tools, models, pollVars, posted>>

\* The form is sent with every field it has.
SubmitAll_M ==
    /\ posted' = selected
    /\ UNCHANGED <<sessionVars, selectorVars, chipVars, pollVars>>

\* htmx:configRequest takes the model out unless the user has changed it.
Submit ==
    /\ posted' = IF modelChanged THEN selected ELSE None
    /\ UNCHANGED <<sessionVars, selectorVars, chipVars, pollVars>>

-----------------------------------------------------------------------------
(* The chip *)

\* The interval, without a look at the polls under way.
PollStatus(i) ==
    /\ poll[i] = Idle
    /\ poll' = [poll EXCEPT ![i] = [pc |-> "sent", base |-> used]]
    /\ UNCHANGED <<sessionVars, selectorVars, chipVars, old, posted>>

\* The usage of the last message, 0 when it is not counted yet.
Reported_M(n) == n = window[Window].tokens

\* n is the greatest message_usage of the messages in the window.
Reported(n) ==
    IF \A k \in Positions : ~Counted(k)
      THEN n = None
      ELSE /\ \E k \in Positions : Counted(k) /\ window[k].tokens = n
           /\ \A k \in Positions : Counted(k) => window[k].tokens <= n

\* session_status, whose answer has no usage when the list fails.
StatusListed(i) ==
    /\ poll[i].pc = "sent" /\ env # "out"
    /\ \E n \in Totals \cup {None} :
         /\ IF env = "up" THEN Reported(n) ELSE n = None
         /\ poll' = [poll EXCEPT ![i] =
              [pc |-> "listed", base |-> poll[i].base, used |-> n]]
    /\ UNCHANGED <<sessionVars, selectorVars, chipVars, old, posted>>

\* The login page, an error or a lost connection.
StatusFails(i) ==
    /\ poll[i].pc = "sent" /\ env # "up"
    /\ poll' = [poll EXCEPT ![i] = [pc |-> "error"]]
    /\ UNCHANGED <<sessionVars, selectorVars, chipVars, old, posted>>

\* An answer that is no JSON is thrown away, and the poll with it is forgotten.
StatusArrivesOnce_M(i) ==
    /\ poll[i].pc = "listed"
    /\ used' = IF poll[i].used = None THEN 0 ELSE poll[i].used
    /\ poll' = [poll EXCEPT ![i] = Idle]
    /\ old' = old \ {i}
    /\ UNCHANGED <<sessionVars, selectorVars, maxCtx, posted>>

\* renderCtx, or nothing when the answer is no JSON.
StatusArrives(i) ==
    /\ \/ /\ poll[i].pc = "listed"
          /\ used' = IF poll[i].used = None THEN 0 ELSE poll[i].used
       \/ /\ poll[i].pc = "error"
          /\ UNCHANGED used
    /\ poll' = [poll EXCEPT ![i] = Idle]
    /\ old' = old \ {i}
    /\ UNCHANGED <<sessionVars, selectorVars, maxCtx, posted>>

\* The time in which every poll under way at the last mark is answered.
TimePasses ==
    /\ old = {}
    /\ old' = {i \in Slot : poll[i] # Idle} /\ old' # {}
    /\ UNCHANGED <<sessionVars, selectorVars, chipVars, poll, posted>>

-----------------------------------------------------------------------------
Next ==
    \/ Message \/ EnvChanges \/ TimePasses
    \/ \E k \in Positions : Count(k)
    \/ ToolsArrive \/ ToolsFail \/ Submit
    \/ \E m \in Model : Pick(m)
    \/ \E i \in Slot :
         PollStatus(i) \/ StatusListed(i) \/ StatusFails(i) \/ StatusArrives(i)

Spec == Init /\ [][Next]_vars

\* The browser runs the interval and delivers what has arrived; the client's
\* timeouts end every poll that the worker does not answer.
PollFairness(i) ==
    /\ WF_vars(PollStatus(i)) /\ WF_vars(StatusArrives(i))
    /\ WF_vars(StatusListed(i) \/ StatusFails(i))

FairSpec == Spec /\ \A i \in Slot : PollFairness(i)

\* The polls under way at any time are all answered some time later, as their
\* timeouts demand.  For a finite number of slots it follows from PollFairness
\* and from strong fairness of TimePasses; ChipSettles is checked without it,
\* and its proof, for any number of polls, assumes it.
TimeGoesOn == []<><<TimePasses>>_vars

\* Where the steps of PollFairness can be taken: their guards.  Weak fairness
\* speaks of ENABLED; the proof of ChipSettles uses it only in this form.
PollReady(i) ==
    /\ poll[i].pc = "idle" => ENABLED <<PollStatus(i)>>_vars
    /\ poll[i].pc = "sent" => ENABLED <<StatusListed(i) \/ StatusFails(i)>>_vars
    /\ poll[i].pc \in {"listed", "error"} => ENABLED <<StatusArrives(i)>>_vars

FairStepsReady == \A i \in Slot : PollReady(i)

-----------------------------------------------------------------------------
(* Properties *)

\* The answer to a poll has no usage, or another one, or a selection, has
\* changed the chip since the poll was issued.
Blank(i) == poll[i].pc = "listed" /\ poll[i].used = None
Overtaken(i) == poll[i].pc = "listed" /\ poll[i].base # used

\* "info.tokens.total ... grows. Take the max across the fetched window"
\* (src/web/mod.rs:725-726): the number on the chip goes down only for an
\* answer that another one has overtaken or that has no usage, until the next
\* poll when a model has been selected, or because a usage at least as great is
\* gone that nothing in the window makes up for: a message's own that left the
\* window or was counted again, or the last total; never because messages that
\* are not counted yet follow the greatest one, or while a total stays.
ChipBackOnly ==
    [][used' < used =>
         \/ selected' # selected \/ tools' # tools
         \/ used <= forgotten
         \/ \E i \in Slot : poll'[i] = Idle /\ (Blank(i) \/ Overtaken(i))]_vars

\* When the worker stays reachable, its session and the selection stay as they
\* are, the chip ends up with the session's usage and the selected context,
\* whichever polls failed or overtook each other, and although selecting a
\* model blanks it.
SettlesOn(n, m) ==
    <>[](env = "up" /\ Reported(n) /\ selected = m) =>
      <>[](used = (IF n = None THEN 0 ELSE n) /\ maxCtx = ContextOf(m))
ChipSettles ==
    \A n \in (Totals \ {0}) \cup {None}, m \in Model \cup {None} : SettlesOn(n, m)

\* "Track whether the user explicitly changed model/agent so we only send them
\* if they did" (static/chat.js:28-30): whenever the selector is filled, a
\* message is posted with the model the user chose last, or with none.
PostedIsPicked == [][posted' # posted => posted' = picked]_vars
=============================================================================
