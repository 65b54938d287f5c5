---------------------------- MODULE ThreadProofs ----------------------------
(* Thread for any number of messages: types, no event lost between debounce  *)
(* and queue, when a thread can go back to an older listing, which blocks    *)
(* are open, and that the thread catches up and the activity bar goes away.  *)
EXTENDS Thread, TLAPS

\* A listing has at least the messages that were shown when it was asked for.
Later(request) == request.pc = "listed" /\ request.base \in Nat => request.base <= request.listing

IInv == TypeOK /\ EventNotLost /\ Later(get) /\ Later(post)

LEMMA ListingIsNat == log \in Nat => Listing = {n \in Nat : n <= log}
BY DEF Listing

\* What Refresh and the arrival of an answer make of the thread's request.
LEMMA SentType ==
    ASSUME TypeOK
    PROVE  /\ Sent \in Requests /\ Sent.pc = "sent" /\ Later(Sent)
           /\ None \in Requests /\ None.pc = "none" /\ Later(None)
BY DEF Sent, None, Requests, TypeOK, Later

LEMMA ListedType ==
    ASSUME TypeOK, NEW request \in Requests, request.pc = "sent"
    PROVE  /\ Listed(request) \in Requests /\ Listed(request).pc = "listed"
           /\ Later(Listed(request))
<1>1. request.base \in Listing \cup {Login}
  BY DEF Requests
<1>2. log \in Nat /\ log \in Listing
  BY MaxLogAssumption DEF TypeOK, Listing
<1>3. Listed(request) \in Requests
  BY <1>1, <1>2 DEF Listed, Requests
<1>4. Later(Listed(request))
  BY <1>1, <1>2, LoginAssumption DEF Listed, Later, Listing
<1> QED BY <1>3, <1>4 DEF Listed

LEMMA ShortAnswers ==
    \A pc \in {"none", "error", "login"} :
      [pc |-> pc] \in Requests /\ Later([pc |-> pc])
BY DEF Requests, Later

\* What is shown after a swap.
LEMMA SwapType ==
    ASSUME TypeOK, NEW request \in Requests \cup [pc : {"unlisted"}],
           request.pc \notin {"none", "sent"}, log' = log, Swap(request)
    PROVE  /\ shown' \in Listing \cup {Login}
           /\ open' \subseteq 1 .. log /\ openTools' \subseteq Named \cap 1 .. log
           /\ request.pc = "listed" => shown' = request.listing /\ request.listing \in Listing
           /\ request.pc = "unlisted" => shown' = 0
           /\ request.pc = "login" => shown' = Login
           /\ request.pc \notin {"listed", "login", "unlisted"} => shown' = shown
<1>1. log \in Nat /\ 0 \in Listing /\ shown \in Listing \cup {Login}
  BY MaxLogAssumption DEF TypeOK, Listing
<1>2. /\ request.pc \in {"listed", "login", "unlisted", "error"}
      /\ request.pc = "listed" => request.listing \in Listing
  BY DEF Requests
<1>3. CASE request.pc = "error"
  BY <1>1, <1>3 DEF Swap, TypeOK
<1>4. CASE request.pc # "error"
  <2>1. /\ shown' = Page(request) /\ openTools' = {}
        /\ open' \subseteq open
    BY <1>4 DEF Swap
  <2>2. /\ request.pc = "listed" => shown' = request.listing
        /\ request.pc = "unlisted" => shown' = 0
        /\ request.pc = "login" => shown' = Login
    BY <2>1 DEF Page
  <2> QED BY <1>1, <1>2, <1>4, <2>1, <2>2 DEF TypeOK
<1> QED BY <1>3, <1>4

\* More messages: every listing and request stays one.
LEMMA MessageKeeps ==
    ASSUME IInv, Message
    PROVE  IInv'
<1>1. log \in Nat /\ log' = log + 1 /\ log' \in 0 .. MaxLog
  BY MaxLogAssumption DEF Message, IInv, TypeOK
<1>2. Listing \subseteq Listing'
  BY <1>1 DEF Listing
<1>3. Requests \subseteq Requests'
  BY <1>2 DEF Requests
<1>4. /\ UNCHANGED <<env, source, bar, barTimer, shown, timer, get, held, post, due>>
      /\ event' \in BOOLEAN
  BY DEF Message, barVars, pageVars, IInv, TypeOK
<1>5. UNCHANGED <<open, openTools>> /\ 1 .. log \subseteq 1 .. log'
  BY <1>1 DEF Message, pageVars
<1>6. TypeOK'
  BY <1>1, <1>2, <1>3, <1>4, <1>5 DEF IInv, TypeOK
<1> QED BY <1>4, <1>6 DEF IInv, EventNotLost, Later

\* Any other step leaves log alone; what is left of IInv is about the
\* variables it changes.
LEMMA Kept ==
    ASSUME IInv, log' = log,
           shown' \in Listing \cup {Login},
           open' \subseteq 1 .. log, openTools' \subseteq Named \cap 1 .. log,
           env' \in {"up", "down", "out"},
           source' \in {"connecting", "open", "closed"},
           get' \in Requests, Later(get'),
           post' \in Requests \cup [pc : {"unlisted"}], Later(post'),
           event' \in BOOLEAN, timer' \in BOOLEAN, held' \in BOOLEAN,
           bar' \in BOOLEAN, barTimer' \in BOOLEAN, due' \in BOOLEAN,
           due' => timer' \/ held' \/ get'.pc = "sent"
    PROVE  IInv'
<1>1. Listing' = Listing /\ Requests' = Requests
  BY DEF Listing, Requests
<1>2. TypeOK'
  BY <1>1 DEF IInv, TypeOK
<1>3. EventNotLost'
  BY DEF EventNotLost
<1>4. Later(get)' /\ Later(post)'
  BY DEF Later
<1> QED BY <1>2, <1>3, <1>4 DEF IInv

LEMMA InitIInv == Init => IInv
<1> SUFFICES ASSUME Init PROVE IInv
  OBVIOUS
<1>1. Listing = {0} /\ log \in 0 .. MaxLog
  BY MaxLogAssumption DEF Init, Listing
<1>2. TypeOK
  BY <1>1 DEF Init, TypeOK, Requests, None
<1> QED BY <1>2 DEF Init, IInv, EventNotLost, Later, None

LEMMA StepIInv == IInv /\ [Next]_vars => IInv'
<1> SUFFICES ASSUME IInv, [Next]_vars PROVE IInv'
  OBVIOUS
<1>t. /\ TypeOK /\ log \in Nat /\ log \in Listing
      /\ shown \in Listing \cup {Login}
      /\ open \subseteq 1 .. log /\ openTools \subseteq Named \cap 1 .. log
      /\ env \in {"up", "down", "out"}
      /\ source \in {"connecting", "open", "closed"}
      /\ get \in Requests /\ Later(get)
      /\ post \in Requests \cup [pc : {"unlisted"}] /\ Later(post)
      /\ event \in BOOLEAN /\ timer \in BOOLEAN /\ held \in BOOLEAN
      /\ bar \in BOOLEAN /\ barTimer \in BOOLEAN /\ due \in BOOLEAN
      /\ due => timer \/ held \/ get.pc = "sent"
  BY MaxLogAssumption DEF IInv, TypeOK, EventNotLost, Listing
<1> USE DEF workerVars, sourceVars, barVars, pageVars
<1>1. CASE Message
  BY <1>1, MessageKeeps
<1>2. CASE OtherEvent \/ EnvChanges \/ Connect \/ ConnectRefused \/ Drop \/ BarTimeout
  <2>1. CASE OtherEvent
    BY <2>1, <1>t, Kept DEF OtherEvent
  <2>2. CASE EnvChanges
    BY <2>2, <1>t, Kept DEF EnvChanges
  <2>3. CASE Connect
    BY <2>3, <1>t, Kept DEF Connect
  <2>4. CASE ConnectRefused
    BY <2>4, <1>t, Kept DEF ConnectRefused
  <2>5. CASE Drop
    BY <2>5, <1>t, Kept DEF Drop
  <2>6. CASE BarTimeout
    BY <2>6, <1>t, Kept DEF BarTimeout
  <2> QED BY <1>2, <2>1, <2>2, <2>3, <2>4, <2>5, <2>6
<1>3. CASE EventArrives
  BY <1>3, <1>t, Kept DEF EventArrives, SetWorking
<1>4. ASSUME Refresh
      PROVE  /\ get' \in Requests /\ Later(get') /\ held' \in BOOLEAN
             /\ held' \/ get'.pc = "sent"
  BY <1>4, <1>t, SentType DEF Refresh
<1>5. CASE Debounce
  BY <1>5, <1>4, <1>t, Kept DEF Debounce
<1>6. CASE Poll
  BY <1>6, <1>4, <1>t, Kept DEF Poll
<1>7. CASE GetListed
  BY <1>7, <1>t, ListedType, Kept DEF GetListed
<1>8. CASE GetFails \/ GetLogin
  BY <1>8, <1>t, ShortAnswers, Kept DEF GetFails, GetLogin
<1>9. CASE GetArrives
  <2>1. /\ shown' \in Listing \cup {Login}
        /\ open' \subseteq 1 .. log /\ openTools' \subseteq Named \cap 1 .. log
    BY <1>9, <1>t, SwapType DEF GetArrives
  <2>2. [pc |-> "sent", base |-> shown'] \in Requests
    BY <2>1 DEF Requests
  <2>3. get' \in Requests /\ Later(get')
    BY <1>9, <1>t, <2>2, SentType DEF GetArrives, Later
  <2>4. held => get'.pc = "sent"
    BY <1>9 DEF GetArrives
  <2> QED BY <1>9, <1>t, <2>1, <2>3, <2>4, Kept DEF GetArrives
<1>10. CASE Submit
  BY <1>10, <1>t, SentType, Kept DEF Submit, SetWorking
<1>11. CASE PostListed
  <2>1. post \in Requests
    BY <1>11, <1>t DEF PostListed
  <2> QED BY <1>11, <1>t, <2>1, ListedType, Kept DEF PostListed
<1>12. CASE PostFails
  <2>1. post' \in Requests \cup [pc : {"unlisted"}] /\ Later(post')
    BY <1>12 DEF PostFails, Requests, Later
  <2> QED BY <1>12, <1>t, <2>1, Kept DEF PostFails
<1>13. CASE PostLogin
  BY <1>13, <1>t, ShortAnswers, Kept DEF PostLogin
<1>14. CASE PostArrives
  <2>0. Swap(post) /\ log' = log /\ post.pc \notin {"none", "sent"}
    BY <1>14 DEF PostArrives
  <2>1. /\ shown' \in Listing \cup {Login}
        /\ open' \subseteq 1 .. log /\ openTools' \subseteq Named \cap 1 .. log
    BY <2>0, <1>t, SwapType
  <2> QED BY <1>14, <1>t, <2>1, SentType, Kept DEF PostArrives, SetWorking
<1>15. CASE Reload
  <2>1. [pc |-> "sent", base |-> log] \in Requests /\ Later([pc |-> "sent", base |-> log])
    BY <1>t DEF Requests, Later
  <2> QED BY <1>15, <1>t, <2>1, SentType, Kept DEF Reload, Load
<1>16. ASSUME NEW m \in 1 .. log, Toggle(m) PROVE IInv'
  <2>1. open' \subseteq 1 .. log
    BY <1>16, <1>t DEF Toggle
  <2> QED BY <1>16, <1>t, <2>1, Kept DEF Toggle
<1>17. CASE UNCHANGED vars
  BY <1>17, <1>t, Kept DEF vars
<1> QED
  BY <1>1, <1>2, <1>3, <1>5, <1>6, <1>7, <1>8, <1>9, <1>10, <1>11, <1>12, <1>13,
     <1>14, <1>15, <1>16, <1>17 DEF Next

\* The conjunction that every step of a page, a handler or the worker keeps.
THEOREM Inductive == Spec => []IInv
BY InitIInv, StepIInv, PTL DEF Spec

\* The page, its requests and the relay keep their types.
THEOREM TypeCorrect == Spec => []TypeOK
<1>1. IInv => TypeOK
  BY DEF IInv
<1> QED BY <1>1, Inductive, PTL

\* Debounce and htmx's queue lose no event: as long as no listing was asked
\* for since it arrived, one is still to come.
THEOREM EventNotLostHolds == Spec => []EventNotLost
<1>1. IInv => EventNotLost
  BY DEF IInv
<1> QED BY <1>1, Inductive, PTL

\* A thread goes back only if its answer was overtaken, or if a send failed
\* together with its listing.
THEOREM BackOnlyByOvertakingHolds == Spec => BackOnlyByOvertaking
<1> DEFINE A == GoesBack => \/ get' # get /\ Overtaken(get)
                            \/ post' # post /\ (Overtaken(post) \/ post.pc = "unlisted")
<1>1. IInv /\ [Next]_vars => [A]_vars
  <2> SUFFICES ASSUME IInv, [Next]_vars, GoesBack
               PROVE  \/ get' # get /\ Overtaken(get)
                      \/ post' # post /\ (Overtaken(post) \/ post.pc = "unlisted")
    OBVIOUS
  <2>1. /\ shown \in Nat /\ shown' \in Nat /\ shown' < shown
        /\ TypeOK /\ log \in Nat /\ shown <= log
    BY MaxLogAssumption, LoginAssumption DEF GoesBack, IInv, TypeOK, Listing
  <2>2. CASE GetArrives
    <3>1. get \in Requests /\ Later(get)
      BY DEF IInv, TypeOK
    <3>0. Swap(get) /\ log' = log /\ get.pc \in {"listed", "error", "login"}
      BY <2>2 DEF GetArrives, workerVars
    <3>2. get.pc = "listed" /\ shown' = get.listing
      BY <2>1, <3>0, <3>1, SwapType, LoginAssumption
    <3>3. get.base # shown
      BY <2>1, <3>1, <3>2 DEF Later
    <3>4. get' # get
      BY <2>2, <3>2 DEF GetArrives, None
    <3> QED BY <3>2, <3>3, <3>4 DEF Overtaken
  <2>3. CASE PostArrives
    <3>1. post \in Requests \cup [pc : {"unlisted"}] /\ Later(post)
      BY DEF IInv, TypeOK
    <3>2. post' # post
      BY <2>3 DEF PostArrives, None
    <3>0. /\ Swap(post) /\ log' = log
          /\ post.pc \in {"listed", "unlisted", "error", "login"}
      BY <2>3 DEF PostArrives, workerVars
    <3>3. post.pc = "unlisted" \/ (post.pc = "listed" /\ shown' = post.listing)
      BY <2>1, <3>0, <3>1, SwapType, LoginAssumption
    <3>4. CASE post.pc = "unlisted"
      BY <3>2, <3>4
    <3>5. CASE post.pc = "listed" /\ shown' = post.listing
      <4>1. post.base # shown
        BY <2>1, <3>1, <3>5 DEF Later
      <4> QED BY <3>2, <3>5, <4>1 DEF Overtaken
    <3> QED BY <3>3, <3>4, <3>5
  <2>4. CASE Reload
    BY <2>1, <2>4 DEF Reload, Load
  <2>5. ASSUME shown' = shown PROVE FALSE
    BY <2>1, <2>5
  <2> USE DEF pageVars
  <2>6. CASE Message \/ OtherEvent \/ EnvChanges \/ Connect \/ ConnectRefused \/ Drop
    BY <2>5, <2>6 DEF Message, OtherEvent, EnvChanges, Connect, ConnectRefused, Drop
  <2>7. CASE BarTimeout \/ EventArrives \/ Debounce \/ Poll \/ Submit
    BY <2>5, <2>7 DEF BarTimeout, EventArrives, Debounce, Poll, Submit
  <2>8. CASE GetListed \/ GetFails \/ GetLogin \/ PostListed \/ PostFails \/ PostLogin
    BY <2>5, <2>8 DEF GetListed, GetFails, GetLogin, PostListed, PostFails, PostLogin
  <2>9. CASE UNCHANGED vars \/ \E m \in 1 .. log : Toggle(m)
    BY <2>5, <2>9 DEF vars, Toggle
  <2> QED
    BY <2>2, <2>3, <2>4, <2>6, <2>7, <2>8, <2>9 DEF Next
<1> QED BY <1>1, Inductive, PTL DEF Spec, BackOnlyByOvertaking

\* Blocks with an id stay as the user left them while both pages have them,
\* and none opens by itself, for any number of messages and any window.
THEOREM OnlyUserTogglesHolds == Spec => OnlyUserToggles
<1> DEFINE A == /\ \A m \in Named \cap Displayed(shown) \cap Displayed(shown)' :
                     (m \in open <=> m \in open') \/ Toggle(m) \/ Reload
                /\ \A m \in open' \ open : Toggle(m)
<1>1. IInv /\ [Next]_vars => [A]_vars
  <2> SUFFICES ASSUME IInv, [Next]_vars PROVE A
    OBVIOUS
  <2>1. ASSUME UNCHANGED open PROVE A
    BY <2>1
  <2>2. ASSUME NEW request \in Requests \cup [pc : {"unlisted"}], Swap(request), log' = log
        PROVE  A
    <3>1. CASE request.pc = "error"
      BY <2>1, <2>2, <3>1 DEF Swap
    <3>2. CASE request.pc # "error"
      <4>1. open' = open \cap Named \cap Displayed(shown)'
        BY <2>2, <3>2 DEF Swap, Displayed
      <4> QED BY <4>1
    <3> QED BY <3>1, <3>2
  <2>3. CASE GetArrives
    <3>1. Swap(get) /\ log' = log
      BY <2>3 DEF GetArrives, workerVars
    <3>2. get \in Requests
      BY DEF IInv, TypeOK
    <3> QED BY <2>2, <3>1, <3>2
  <2>4. CASE PostArrives
    <3>1. Swap(post) /\ log' = log
      BY <2>4 DEF PostArrives, workerVars
    <3>2. post \in Requests \cup [pc : {"unlisted"}]
      BY DEF IInv, TypeOK
    <3> QED BY <2>2, <3>1, <3>2
  <2>5. CASE Reload
    BY <2>5 DEF Reload, Load
  <2>6. ASSUME NEW k \in 1 .. log, Toggle(k) PROVE A
    <3>1. \A m \in 1 .. log : m # k => (m \in open <=> m \in open')
      BY <2>6 DEF Toggle
    <3>2. open' \subseteq open \cup {k}
      BY <2>6 DEF Toggle
    <3>3. Displayed(shown) \subseteq 1 .. log
      BY DEF Displayed
    <3> QED BY <2>6, <3>1, <3>2, <3>3
  <2> USE DEF pageVars
  <2>7. CASE Message \/ OtherEvent \/ EnvChanges \/ Connect \/ ConnectRefused \/ Drop
    BY <2>1, <2>7 DEF Message, OtherEvent, EnvChanges, Connect, ConnectRefused, Drop
  <2>8. CASE BarTimeout \/ EventArrives \/ Debounce \/ Poll \/ Submit
    BY <2>1, <2>8 DEF BarTimeout, EventArrives, Debounce, Poll, Submit
  <2>9. CASE GetListed \/ GetFails \/ GetLogin \/ PostListed \/ PostFails \/ PostLogin
    BY <2>1, <2>9 DEF GetListed, GetFails, GetLogin, PostListed, PostFails, PostLogin
  <2>10. CASE UNCHANGED vars
    BY <2>1, <2>10 DEF vars
  <2> QED
    BY <2>3, <2>4, <2>5, <2>6, <2>7, <2>8, <2>9, <2>10 DEF Next
<1> QED BY <1>1, Inductive, PTL DEF Spec, OnlyUserToggles

-----------------------------------------------------------------------------
(* What the page comes to.  tlapm cannot say when an action is ENABLED, so   *)
(* the theorems assume of weak fairness what FairStepsReady states: that the  *)
(* guards are where the steps can be taken.  The rest, which step leads where *)
(* and what no step undoes, is proved for any number of messages.             *)

BarTimed == bar => barTimer

Quiet == ~event /\ post.pc = "none"

\* Whatever shows the bar sets its timer, and what stops the timer hides it.
LEMMA BarTimedHolds == Spec => []BarTimed
<1> USE DEF BarTimed, barVars
<1>1. Init => BarTimed
  BY DEF Init
<1>2. BarTimed /\ [Next]_vars => BarTimed'
  <2> SUFFICES ASSUME BarTimed, [Next]_vars PROVE BarTimed'
    OBVIOUS
  <2>1. CASE BarTimeout \/ EventArrives \/ Submit \/ PostArrives \/ Reload
    BY <2>1 DEF BarTimeout, EventArrives, Submit, PostArrives, Reload, Load, SetWorking
  <2>2. CASE Message \/ OtherEvent \/ EnvChanges \/ Connect \/ ConnectRefused \/ Drop
    BY <2>2 DEF Message, OtherEvent, EnvChanges, Connect, ConnectRefused, Drop
  <2>3. CASE Debounce \/ Poll \/ GetListed \/ GetFails \/ GetLogin \/ GetArrives
    BY <2>3 DEF Debounce, Poll, GetListed, GetFails, GetLogin, GetArrives
  <2>4. CASE PostListed \/ PostFails \/ PostLogin
    BY <2>4 DEF PostListed, PostFails, PostLogin
  <2>5. CASE UNCHANGED vars \/ \E m \in 1 .. log : Toggle(m)
    BY <2>5 DEF vars, Toggle
  <2> QED
    BY <2>1, <2>2, <2>3, <2>4, <2>5 DEF Next
<1> QED
  BY <1>1, <1>2, PTL DEF Spec

\* While events and sends are over nothing starts the bar's timer again.
LEMMA TimerStaysOff ==
    Quiet /\ Quiet' /\ ~barTimer /\ [Next]_vars => ~barTimer'
<1> SUFFICES ASSUME Quiet, Quiet', ~barTimer, [Next]_vars PROVE ~barTimer'
  OBVIOUS
<1> USE DEF Quiet, barVars
<1>1. CASE BarTimeout \/ EventArrives \/ PostArrives \/ Reload
  BY <1>1 DEF BarTimeout, EventArrives, PostArrives, Reload, Load, SetWorking
<1>2. CASE Submit
  BY <1>2 DEF Submit, Sent
<1>3. CASE Message \/ OtherEvent \/ EnvChanges \/ Connect \/ ConnectRefused \/ Drop
  BY <1>3 DEF Message, OtherEvent, EnvChanges, Connect, ConnectRefused, Drop
<1>4. CASE Debounce \/ Poll \/ GetListed \/ GetFails \/ GetLogin \/ GetArrives
  BY <1>4 DEF Debounce, Poll, GetListed, GetFails, GetLogin, GetArrives
<1>5. CASE PostListed \/ PostFails \/ PostLogin
  BY <1>5 DEF PostListed, PostFails, PostLogin
<1>6. CASE UNCHANGED vars \/ \E m \in 1 .. log : Toggle(m)
  BY <1>6 DEF vars, Toggle
<1> QED
  BY <1>1, <1>2, <1>3, <1>4, <1>5, <1>6 DEF Next

\* The activity bar does not outlast the events and sends that show it, since
\* it is never shown without a timer that hides it.
THEOREM BarSettlesHolds == FairSpec /\ []FairStepsReady => BarSettles
<1>1. BarTimeout => ~barTimer'
  BY DEF BarTimeout
<1>2. FairStepsReady => (barTimer => ENABLED <<BarTimeout>>_vars)
  BY DEF FairStepsReady
<1>3. BarTimed /\ ~barTimer => ~bar
  BY DEF BarTimed
<1>4. Quiet <=> ~event /\ post.pc = "none"
  BY DEF Quiet
<1> QED
  BY <1>1, <1>2, <1>3, <1>4, BarTimedHolds, TimerStaysOff, PTL
     DEF FairSpec, Spec, BarSettles

\* The server answers, and the session gets no more messages.
Up == env = "up"
Calm == Up /\ Up' /\ [Next]_vars /\ [log' = log]_vars

\* An answer that would not show the session as it is.
Old(request) ==
    \/ request.pc \in {"error", "login", "unlisted"}
    \/ request.pc = "listed" /\ request.listing # log

Fresh == ~Old(get) /\ ~Old(post)

CaughtUp == shown = log

\* In a calm step only Refresh, an answer, the swap, or a reload touches the
\* thread's request, and what is asked for then is the session as it is.
LEMMA GetCalm ==
    ASSUME IInv, Calm
    PROVE  \/ get' = get
           \/ get.pc = "none" /\ get'.pc = "sent"
           \/ get.pc = "sent" /\ get'.pc = "listed" /\ get'.listing = log
           \/ get.pc \in {"listed", "error", "login"} /\ GetArrives
           \/ get'.pc = "sent" /\ Reload
<1>1. CASE Debounce \/ Poll
  BY <1>1 DEF Debounce, Poll, Refresh, Sent
<1>2. CASE GetListed
  BY <1>2 DEF GetListed, Listed
<1>3. CASE GetFails \/ GetLogin
  BY <1>3 DEF GetFails, GetLogin, Calm, Up
<1>4. CASE GetArrives
  BY <1>4 DEF GetArrives
<1>5. CASE Reload
  BY <1>5 DEF Reload, Load
<1>6. CASE Message \/ OtherEvent \/ EnvChanges \/ Connect \/ ConnectRefused \/ Drop
  BY <1>6 DEF Message, OtherEvent, EnvChanges, Connect, ConnectRefused, Drop
<1>7. CASE BarTimeout \/ EventArrives \/ Submit \/ PostArrives
  BY <1>7 DEF BarTimeout, EventArrives, Submit, PostArrives
<1>8. CASE PostListed \/ PostFails \/ PostLogin
  BY <1>8 DEF PostListed, PostFails, PostLogin
<1>9. CASE UNCHANGED vars \/ \E m \in 1 .. log : Toggle(m)
  BY <1>9 DEF vars, Toggle
<1> QED
  BY <1>1, <1>2, <1>3, <1>4, <1>5, <1>6, <1>7, <1>8, <1>9 DEF Calm, Next

\* The same of the composer's request.
LEMMA PostCalm ==
    ASSUME IInv, Calm
    PROVE  \/ post' = post
           \/ post'.pc \in {"none", "sent"}
           \/ post'.pc = "listed" /\ post'.listing = log
<1>1. CASE Submit
  BY <1>1 DEF Submit, Sent
<1>2. CASE PostListed
  BY <1>2 DEF PostListed, Listed
<1>3. CASE PostFails \/ PostLogin
  BY <1>3 DEF PostFails, PostLogin, Calm, Up
<1>4. CASE PostArrives \/ Reload
  <2>1. post' = None
    BY <1>4 DEF PostArrives, Reload, Load
  <2>2. None.pc = "none"
    BY DEF None
  <2> QED BY <2>1, <2>2
<1>5. CASE Message \/ OtherEvent \/ EnvChanges \/ Connect \/ ConnectRefused \/ Drop
  BY <1>5 DEF Message, OtherEvent, EnvChanges, Connect, ConnectRefused, Drop
<1>6. CASE BarTimeout \/ EventArrives \/ Debounce \/ Poll \/ GetArrives
  BY <1>6 DEF BarTimeout, EventArrives, Debounce, Poll, GetArrives
<1>7. CASE GetListed \/ GetFails \/ GetLogin
  BY <1>7 DEF GetListed, GetFails, GetLogin
<1>8. CASE UNCHANGED vars \/ \E m \in 1 .. log : Toggle(m)
  BY <1>8 DEF vars, Toggle
<1> QED
  BY <1>1, <1>2, <1>3, <1>4, <1>5, <1>6, <1>7, <1>8 DEF Calm, Next

LEMMA CalmLog == Calm => log' = log
  BY DEF Calm, vars, workerVars

\* Delivered, the thread's answer makes room for a request.
LEMMA GetDelivered == GetArrives => get'.pc \in {"none", "sent"}
  BY DEF GetArrives, None

LEMMA PostDelivered == PostArrives => post'.pc = "none"
  BY DEF PostArrives, None

\* Once the old answers are delivered no new ones come.
LEMMA FreshGets == IInv /\ Calm /\ ~Old(get) => ~Old(get)'
  BY GetCalm, CalmLog, GetDelivered DEF Old

LEMMA FreshPosts == IInv /\ Calm /\ ~Old(post) => ~Old(post)'
  BY PostCalm, CalmLog DEF Old

\* What a fresh answer shows is the session as it is.
LEMMA FreshSwap ==
    ASSUME IInv, Fresh, NEW request \in {get, post}, Swap(request),
           request.pc \in {"listed", "unlisted", "error", "login"}, log' = log
    PROVE  CaughtUp'
<1>1. request.pc = "listed" /\ request.listing = log
  BY DEF Fresh, Old
<1>2. request \in Requests \cup [pc : {"unlisted"}]
  BY DEF IInv, TypeOK
<1>3. shown' = request.listing
  BY <1>1, <1>2, SwapType DEF IInv
<1> QED
  BY <1>1, <1>3 DEF CaughtUp

\* Nothing takes the thread back once it has caught up.
LEMMA StaysCaughtUp == IInv /\ Calm /\ Fresh /\ CaughtUp => CaughtUp'
<1> SUFFICES ASSUME IInv, Calm, Fresh, CaughtUp PROVE CaughtUp'
  OBVIOUS
<1>0. log' = log
  BY CalmLog
<1>1. CASE GetArrives
  BY <1>0, <1>1, FreshSwap DEF GetArrives
<1>2. CASE PostArrives
  BY <1>0, <1>2, FreshSwap DEF PostArrives
<1>3. CASE Reload
  BY <1>0, <1>3 DEF Reload, Load, CaughtUp
<1> USE DEF CaughtUp, pageVars
<1>4. CASE Message \/ OtherEvent \/ EnvChanges \/ Connect \/ ConnectRefused \/ Drop
  BY <1>0, <1>4 DEF Message, OtherEvent, EnvChanges, Connect, ConnectRefused, Drop
<1>5. CASE BarTimeout \/ EventArrives \/ Debounce \/ Poll \/ Submit
  BY <1>0, <1>5 DEF BarTimeout, EventArrives, Debounce, Poll, Submit
<1>6. CASE GetListed \/ GetFails \/ GetLogin \/ PostListed \/ PostFails \/ PostLogin
  BY <1>0, <1>6 DEF GetListed, GetFails, GetLogin, PostListed, PostFails, PostLogin
<1>7. CASE UNCHANGED vars \/ \E m \in 1 .. log : Toggle(m)
  BY <1>0, <1>7 DEF vars, Toggle
<1> QED
  BY <1>1, <1>2, <1>3, <1>4, <1>5, <1>6, <1>7 DEF Calm, Next

\* The round of the thread's own request: asked for, listed, shown.
LEMMA Round ==
    ASSUME IInv, Calm, Fresh
    PROVE  /\ get.pc \in {"none", "sent", "listed"}
           /\ get.pc = "none" => get'.pc \in {"none", "sent"}
           /\ get.pc = "sent" => get'.pc \in {"sent", "listed"}
           /\ get.pc = "listed" => get'.pc = "listed" \/ CaughtUp'
           /\ get.pc = "none" /\ Poll => get'.pc = "sent"
           /\ GetListed \/ GetFails \/ GetLogin => get'.pc = "listed"
           /\ GetArrives => CaughtUp'
<1>1. get.pc \in {"none", "sent", "listed"}
  BY DEF IInv, TypeOK, Requests, Fresh, Old
<1>2. GetArrives => CaughtUp'
  BY FreshSwap, CalmLog DEF GetArrives
<1>3. Reload => CaughtUp'
  BY CalmLog DEF Reload, Load, CaughtUp
<1>4. get.pc = "none" /\ Poll => get'.pc = "sent"
  BY DEF Poll, Refresh, Sent
<1>5. GetListed \/ GetFails \/ GetLogin => get'.pc = "listed"
  BY DEF GetListed, GetFails, GetLogin, Listed, Calm, Up
<1> QED
  BY <1>1, <1>2, <1>3, <1>4, <1>5, GetCalm DEF GetArrives

\* The thread ends up showing the session, by the poll alone if need be: from
\* some moment on worker, connection and browser session are up and the worker
\* adds no message (the bound MaxLog in the model sees to that).
THEOREM CatchesUpHolds ==
    FairSpec /\ []FairStepsReady /\ <>[][log' = log]_vars => CatchesUp
<1>1. FairStepsReady =>
        /\ get.pc = "none" => ENABLED <<Poll>>_vars
        /\ get.pc = "sent" => ENABLED <<GetListed \/ GetFails \/ GetLogin>>_vars
        /\ get.pc \in {"listed", "error", "login"} => ENABLED <<GetArrives>>_vars
        /\ post.pc \in {"listed", "unlisted", "error", "login"} =>
             ENABLED <<PostArrives>>_vars
  BY DEF FairStepsReady
<1>2. IInv /\ Old(get) => get.pc \in {"listed", "error", "login"}
  BY DEF Old, IInv, TypeOK, Requests
<1>3. Old(post) => post.pc \in {"listed", "unlisted", "error", "login"}
  BY DEF Old
<1>4. GetArrives => ~Old(get)'
  BY GetDelivered DEF Old
<1>5. PostArrives => ~Old(post)'
  BY PostDelivered DEF Old
<1>6. Fresh <=> ~Old(get) /\ ~Old(post)
  BY DEF Fresh
<1>7. IInv /\ Calm /\ Fresh =>
        /\ get.pc = "none" \/ get.pc = "sent" \/ get.pc = "listed"
        /\ get.pc = "none" => (get.pc = "none")' \/ (get.pc = "sent")'
        /\ get.pc = "sent" => (get.pc = "sent")' \/ (get.pc = "listed")'
        /\ get.pc = "listed" => (get.pc = "listed")' \/ CaughtUp'
        /\ get.pc = "none" /\ Poll => (get.pc = "sent")'
        /\ GetListed \/ GetFails \/ GetLogin => (get.pc = "listed")'
        /\ GetArrives => CaughtUp'
  BY Round
<1>8. get.pc = "listed" => get.pc \in {"listed", "error", "login"}
  OBVIOUS
<1>9. /\ Up <=> env = "up"
      /\ Calm <=> Up /\ Up' /\ [Next]_vars /\ [log' = log]_vars
      /\ CaughtUp <=> shown = log
  BY DEF Up, Calm, CaughtUp
<1> QED
  BY <1>1, <1>2, <1>3, <1>4, <1>5, <1>6, <1>7, <1>8, <1>9, Inductive, FreshGets,
     FreshPosts, StaysCaughtUp, PTL DEF FairSpec, Spec, CatchesUp
=============================================================================
