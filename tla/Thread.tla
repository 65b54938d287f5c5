------------------------------- MODULE Thread -------------------------------
(***************************************************************************)
(* The live refresh of a chat page (static/chat.js, templates/session.html *)
(* with session_thread, session_message and worker_events): #thread is     *)
(* replaced by the answers of two elements' requests, its own and the      *)
(* composer's.  Its own are asked for by a poll and by the events of the   *)
(* worker, relayed over an EventSource and debounced.                      *)
(*                                                                         *)
(* htmx 1.9.12 lets an element have one request under way; one more is     *)
(* held back until that one is answered.  A listing is represented by the  *)
(* number of messages the session had; it brings the last Window of them,  *)
(* and of each its block of a tool call (render.rs), which may be open.    *)
(*                                                                         *)
(* Operators whose name ends in _M are deliberate mistakes.  No action     *)
(* uses them: each stands before the definition it would replace, to show  *)
(* that a property notices the mistake.                                    *)
(***************************************************************************)
EXTENDS Naturals

CONSTANTS
    MaxLog,  \* bound: messages the session gets while the page is open
    Login,   \* the login page, swapped into the thread
    Window,  \* how many messages a listing brings, the limit of 200
    Named    \* messages whose tool call has a callID

ASSUME MaxLogAssumption == MaxLog \in Nat
ASSUME LoginAssumption == Login \notin Nat
ASSUME WindowAssumption == Window \in Nat /\ Named \subseteq Nat

VARIABLES
    log,       \* messages of the session, at the worker
    shown,     \* the listing in #thread
    open,      \* messages whose block is open in it
    openTools, \* the callIDs chat.js has recorded, by message
    env,       \* "up"; "down": worker or connection fail; "out": signed out
    source,    \* the EventSource: connecting, open or closed for good
    event,     \* an event is on its way to the browser
    timer,     \* refreshTimer is set
    get,       \* the thread's own request
    held,      \* htmx holds back another one
    post,      \* the composer's request
    bar,       \* the activity bar is visible
    barTimer,  \* workTimer is set
    due        \* history: an event arrived and no listing was asked for since

workerVars == <<log, env>>
sourceVars == <<source, event>>
barVars == <<bar, barTimer>>
pageVars == <<shown, open, openTools>>
vars == <<workerVars, sourceVars, barVars, pageVars, timer, get, held, post, due>>

\* A request knows what was shown when it was issued (history).
None == [pc |-> "none"]
Sent == [pc |-> "sent", base |-> shown]

Listing == 0 .. log

\* The messages of a listing (build_thread); the login page has none.
Displayed(listing) ==
    {m \in 1 .. log : listing # Login /\ m <= listing /\ listing < m + Window}

Requests ==
    [pc : {"none", "error", "login"}]
      \cup [pc : {"sent"}, base : Listing \cup {Login}]
      \cup [pc : {"listed"}, base : Listing \cup {Login}, listing : Listing]

TypeOK ==
    /\ log \in 0 .. MaxLog
    /\ shown \in Listing \cup {Login}
    /\ open \subseteq 1 .. log /\ openTools \subseteq Named \cap 1 .. log
    /\ env \in {"up", "down", "out"}
    /\ source \in {"connecting", "open", "closed"}
    /\ get \in Requests
    /\ post \in Requests \cup [pc : {"unlisted"}]
    /\ <<event, timer, held>> \in BOOLEAN \X BOOLEAN \X BOOLEAN
    /\ <<bar, barTimer, due>> \in BOOLEAN \X BOOLEAN \X BOOLEAN

\* The page: session_page renders the thread, which asks for a listing on
\* load, and the script connects to the events.
Load ==
    /\ shown' = log /\ open' = {} /\ openTools' = {}
    /\ source' = "connecting" /\ event' = FALSE
    /\ timer' = FALSE /\ held' = FALSE /\ due' = FALSE
    /\ get' = [pc |-> "sent", base |-> log] /\ post' = None
    /\ bar' = FALSE /\ barTimer' = FALSE

Init ==
    /\ log = 0 /\ env = "up"
    /\ shown = 0 /\ open = {} /\ openTools = {}
    /\ source = "connecting" /\ event = FALSE
    /\ timer = FALSE /\ held = FALSE /\ due = FALSE
    /\ get = [pc |-> "sent", base |-> 0] /\ post = None
    /\ bar = FALSE /\ barTimer = FALSE

-----------------------------------------------------------------------------
(* The worker, the network and the browser's session *)

Message ==
    /\ log < MaxLog
    /\ log' = log + 1
    /\ event' = (event \/ source = "open")
    /\ UNCHANGED <<env, source, barVars, pageVars, timer, get, held, post, due>>

\* /event is the worker's stream: other sessions' events are on it as well.
OtherEvent ==
    /\ source = "open"
    /\ event' = TRUE
    /\ UNCHANGED <<workerVars, source, barVars, pageVars, timer, get, held, post, due>>

EnvChanges ==
    /\ env' \in {"up", "down", "out"}
    /\ UNCHANGED <<log, sourceVars, barVars, pageVars, timer, get, held, post, due>>

-----------------------------------------------------------------------------
(* The EventSource *)

Connect ==
    /\ source = "connecting" /\ env = "up"
    /\ source' = "open"
    /\ UNCHANGED <<workerVars, event, barVars, pageVars, timer, get, held, post, due>>

\* worker_events answers 500, or the extractor redirects to the login page:
\* an EventSource does not try again after such an answer.
ConnectRefused ==
    /\ source = "connecting" /\ env # "up"
    /\ source' = "closed"
    /\ UNCHANGED <<workerVars, event, barVars, pageVars, timer, get, held, post, due>>

\* The stream ends, after 300 s at the latest: the browser connects again.
Drop ==
    /\ source = "open"
    /\ source' = "connecting" /\ event' = FALSE
    /\ UNCHANGED <<workerVars, barVars, pageVars, timer, get, held, post, due>>

-----------------------------------------------------------------------------
(* The activity bar *)

\* The bar is shown and nothing will hide it.
SetWorkingUntimed_M(on) == bar' = on /\ barTimer' = FALSE

SetWorking(on) == bar' = on /\ barTimer' = on

BarTimeout ==
    /\ barTimer
    /\ bar' = FALSE /\ barTimer' = FALSE
    /\ UNCHANGED <<workerVars, sourceVars, pageVars, timer, get, held, post, due>>

-----------------------------------------------------------------------------
(* The thread's own request *)

\* A trigger of the thread issues a request, or replaces the one held back.
Refresh ==
    \/ /\ get.pc = "none"
       /\ get' = Sent
       /\ UNCHANGED held
    \/ /\ get.pc # "none"
       /\ held' = TRUE
       /\ UNCHANGED get

\* A burst counts as covered by the request already under way.
EventArrivesIdle_M ==
    /\ event
    /\ event' = FALSE
    /\ SetWorking(TRUE)
    /\ timer' = (timer \/ get.pc = "none")
    /\ due' = TRUE
    /\ UNCHANGED <<workerVars, source, pageVars, get, held, post>>

\* scheduleRefresh
EventArrives ==
    /\ event
    /\ event' = FALSE
    /\ SetWorking(TRUE)
    /\ timer' = TRUE
    /\ due' = TRUE
    /\ UNCHANGED <<workerVars, source, pageVars, get, held, post>>

\* 600 ms after the first event of a burst.
Debounce ==
    /\ timer
    /\ timer' = FALSE
    /\ Refresh
    /\ UNCHANGED <<workerVars, sourceVars, barVars, pageVars, post, due>>

\* Polling only while there is no event stream.
PollWithoutEvents_M ==
    /\ source # "open"
    /\ Refresh
    /\ UNCHANGED <<workerVars, sourceVars, barVars, pageVars, timer, post, due>>

\* hx-trigger "every 5s"
Poll ==
    /\ Refresh
    /\ UNCHANGED <<workerVars, sourceVars, barVars, pageVars, timer, post, due>>

\* What session_thread and session_message answer to a request.
Listed(request) == [pc |-> "listed", base |-> request.base, listing |-> log]

\* A listing from a cache: any the session has had.
GetListedCached_M ==
    /\ get.pc = "sent" /\ env = "up"
    /\ \E n \in Listing : get' = [Listed(get) EXCEPT !.listing = n]
    /\ due' = FALSE
    /\ UNCHANGED <<workerVars, sourceVars, barVars, pageVars, timer, held, post>>

\* session_thread lists the session.
GetListed ==
    /\ get.pc = "sent" /\ env = "up"
    /\ get' = Listed(get)
    /\ due' = FALSE
    /\ UNCHANGED <<workerVars, sourceVars, barVars, pageVars, timer, held, post>>

\* The thread answers like the composer, with a page of no messages.
GetFailsUnlisted_M ==
    /\ get.pc = "sent" /\ env = "down"
    /\ get' \in [pc : {"unlisted", "error"}]
    /\ due' = FALSE
    /\ UNCHANGED <<workerVars, sourceVars, barVars, pageVars, timer, held, post>>

\* The worker fails or the connection does.
GetFails ==
    /\ get.pc = "sent" /\ env = "down"
    /\ get' = [pc |-> "error"]
    /\ due' = FALSE
    /\ UNCHANGED <<workerVars, sourceVars, barVars, pageVars, timer, held, post>>

\* The extractor redirects; the browser follows.
GetLogin ==
    /\ get.pc = "sent" /\ env = "out"
    /\ get' = [pc |-> "login"]
    /\ due' = FALSE
    /\ UNCHANGED <<workerVars, sourceVars, barVars, pageVars, timer, held, post>>

\* What a page answered below 400 shows.
Page(request) ==
    CASE request.pc = "listed"   -> request.listing
      [] request.pc = "login"    -> Login
      [] request.pc = "unlisted" -> 0

\* beforeSwap adds to what an answer that was not swapped has left recorded.
SwapAccumulates_M(request) ==
    \/ /\ request.pc = "error"
       /\ openTools' \in {openTools, openTools \cup (open \cap Named)}
       /\ UNCHANGED <<shown, open>>
    \/ /\ request.pc # "error"
       /\ shown' = Page(request)
       /\ open' = (openTools \cup (open \cap Named)) \cap Displayed(shown')
       /\ openTools' = {}

\* beforeSwap records the open blocks that have a callID.  htmx announces
\* every answer so, though not a lost connection, and swaps those below 400;
\* afterSwap opens what was recorded and is there again.
Swap(request) ==
    \/ /\ request.pc = "error"
       /\ openTools' \in {openTools, open \cap Named}
       /\ UNCHANGED <<shown, open>>
    \/ /\ request.pc # "error"
       /\ shown' = Page(request)
       /\ open' = open \cap Named \cap Displayed(shown')
       /\ openTools' = {}

\* The answer arrives: the swap, then the request that was held back.
GetArrives ==
    /\ get.pc \in {"listed", "error", "login"}
    /\ Swap(get)
    /\ get' = IF held THEN [pc |-> "sent", base |-> shown'] ELSE None
    /\ held' = FALSE
    /\ UNCHANGED <<workerVars, sourceVars, barVars, timer, post, due>>

\* The user opens or closes a block.
Toggle(m) ==
    /\ m \in Displayed(shown)
    /\ open' = IF m \in open THEN open \ {m} ELSE open \cup {m}
    /\ UNCHANGED <<workerVars, sourceVars, barVars, shown, openTools, timer,
                   get, held, post, due>>

-----------------------------------------------------------------------------
(* The composer's request; module Chat has its other sides *)

Submit ==
    /\ post.pc = "none"
    /\ post' = Sent
    /\ SetWorking(TRUE)
    /\ UNCHANGED <<workerVars, sourceVars, pageVars, timer, get, held, due>>

PostListed ==
    /\ post.pc = "sent" /\ env = "up"
    /\ post' = Listed(post)
    /\ UNCHANGED <<workerVars, sourceVars, barVars, pageVars, timer, get, held, due>>

\* Sending and listing fail (a page with no messages and an error), or
\* only listing does, or the connection (an error).
PostFails ==
    /\ post.pc = "sent" /\ env = "down"
    /\ post' \in [pc : {"unlisted", "error"}]
    /\ UNCHANGED <<workerVars, sourceVars, barVars, pageVars, timer, get, held, due>>

PostLogin ==
    /\ post.pc = "sent" /\ env = "out"
    /\ post' = [pc |-> "login"]
    /\ UNCHANGED <<workerVars, sourceVars, barVars, pageVars, timer, get, held, due>>

PostArrives ==
    /\ post.pc \in {"listed", "unlisted", "error", "login"}
    /\ Swap(post)
    /\ post' = None
    /\ SetWorking(FALSE)
    /\ UNCHANGED <<workerVars, sourceVars, timer, get, held, due>>

-----------------------------------------------------------------------------
\* Following Abort's redirect, or reloading: a new page.
Reload ==
    /\ env = "up"
    /\ Load
    /\ UNCHANGED workerVars

Next ==
    \/ Message \/ OtherEvent \/ EnvChanges
    \/ Connect \/ ConnectRefused \/ Drop
    \/ BarTimeout \/ EventArrives \/ Debounce \/ Poll
    \/ GetListed \/ GetFails \/ GetLogin \/ GetArrives
    \/ Submit \/ PostListed \/ PostFails \/ PostLogin \/ PostArrives
    \/ Reload
    \/ \E m \in 1 .. log : Toggle(m)

\* The browser runs its timers and callbacks and delivers what has arrived;
\* requests are answered, by the client's timeouts at the latest.
FairSpec ==
    /\ Init /\ [][Next]_vars
    /\ WF_vars(BarTimeout) /\ WF_vars(EventArrives)
    /\ WF_vars(Debounce) /\ WF_vars(Poll)
    /\ WF_vars(GetListed \/ GetFails \/ GetLogin) /\ WF_vars(GetArrives)
    /\ WF_vars(PostListed \/ PostFails \/ PostLogin) /\ WF_vars(PostArrives)

Spec == Init /\ [][Next]_vars

\* Where the steps FairSpec relies on can be taken: their guards.  Weak fairness
\* speaks of ENABLED; the proofs of what follows from it use it only in this form.
FairStepsReady ==
    /\ barTimer => ENABLED <<BarTimeout>>_vars
    /\ get.pc = "none" => ENABLED <<Poll>>_vars
    /\ get.pc = "sent" => ENABLED <<GetListed \/ GetFails \/ GetLogin>>_vars
    /\ get.pc \in {"listed", "error", "login"} => ENABLED <<GetArrives>>_vars
    /\ post.pc \in {"listed", "unlisted", "error", "login"} =>
         ENABLED <<PostArrives>>_vars

-----------------------------------------------------------------------------
(* Properties *)

\* No event is lost between its arrival and the next listing: neither the
\* debounce (refreshTimer is already set) nor htmx's one request per element
\* (a request under way may have been listed before the event) drops it.
EventNotLost == due => timer \/ held \/ get.pc = "sent"

GoesBack == shown \in Nat /\ shown' \in Nat /\ shown' < shown

\* A request is answered, and something else was swapped since it was issued.
Overtaken(request) == request.pc = "listed" /\ request.base # shown

\* The thread goes back to an older listing only when the answer was
\* overtaken by another swap, that is by the composer's for the thread's own
\* request and the other way round, or when a send failed together with its
\* listing and the page shows no message at all.
BackOnlyByOvertaking ==
    [][GoesBack => \/ get' # get /\ Overtaken(get)
                   \/ post' # post /\ (Overtaken(post) \/ post.pc = "unlisted")]_vars

\* "Keep expanded tool blocks open across thread refreshes" (chat.js:333): a
\* block that has an id and is on both pages is open as the user left it,
\* whichever element's answer is swapped, and whatever an answer that was not
\* swapped has recorded before.  Nothing but the user opens a block.
OnlyUserToggles ==
    [][/\ \A m \in Named \cap Displayed(shown) \cap Displayed(shown)' :
            (m \in open <=> m \in open') \/ Toggle(m) \/ Reload
       /\ \A m \in open' \ open : Toggle(m)]_vars

\* "The hx-trigger keeps a slower poll as a fallback if SSE drops"
\* (static/chat.js:303-305): when worker, connection and session are there to
\* stay, the thread ends up with the session's messages, whatever happened to
\* events, answers and the EventSource before.
CatchesUp == <>[](env = "up") => <>[](shown = log)

\* The activity bar does not stay when events and sends have ended.
BarSettles == <>[](~event /\ post.pc = "none") => <>[]~bar
=============================================================================
