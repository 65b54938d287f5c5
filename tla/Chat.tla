-------------------------------- MODULE Chat --------------------------------
(***************************************************************************)
(* Sending a message: the composer of static/chat.js as htmx submits it    *)
(* (templates/session.html), session_message of src/web/mod.rs, and        *)
(* send_text_async and list_messages of src/agent/opencode.rs towards a    *)
(* worker that may refuse, be silent, or lack the prompt_async endpoint.   *)
(*                                                                         *)
(* A tab has at most one request of its composer under way; htmx keeps one *)
(* more submit in its queue.  A post is one request to session_message:    *)
(* its stage says where the handler is, or what it answered.  The handler  *)
(* outlives the tab's interest in it until the server notices, and a       *)
(* prompt outlives its handler: the worker may take it at any later time.  *)
(*                                                                         *)
(* Operators whose name ends in _M are deliberate mistakes.  No action     *)
(* uses them: each stands before the definition it would replace, to show  *)
(* that a property notices the mistake.                                    *)
(***************************************************************************)
EXTENDS Naturals

CONSTANTS
    Tab,      \* session pages on the same session
    Post,     \* identities of the requests to session_message
    Text,     \* what a user may write
    Empty,    \* the empty editor
    None      \* no request

ASSUME EmptyAssumption == Empty \notin Text
ASSUME NoneAssumption == None \notin Post

VARIABLES
    open,       \* the session pages that have not been left
    editor,     \* the text in a tab's editor
    waiting,    \* the post a tab waits for, or None
    queued,     \* the post htmx will send once that one is over, or None
    stage,      \* where the handler of a post is
    body,       \* the text of a post
    fallbacks,  \* posts with a spawned task that has sent nothing so far
    asked,      \* posts whose task has sent the message to /message
    late,       \* posts sent to the worker whose answer nobody waits for
    copies,     \* how often the worker stored the message of a post
    refused,    \* history: the worker refused the message with a status
    dropped     \* history: the task ended before it could send the message

tabVars == <<open, editor, waiting, queued>>
workerVars == <<fallbacks, asked, late, copies, refused, dropped>>
vars == <<tabVars, stage, body, workerVars>>

\* An htmx request is successful when the final status is below 400, so the
\* login page a redirect leads to is a success like the thread is.
Pages == {"thread", "banner", "login"}

\* The stages in which a handler is still running.
Running == {"arriving", "prompting", "listing", "apologising"}

TypeOK ==
    /\ open \subseteq Tab
    /\ editor \in [Tab -> Text \cup {Empty}]
    /\ waiting \in [Tab -> Post \cup {None}]
    /\ queued \in [Tab -> Post \cup {None}]
    /\ stage \in [Post -> {"unsent", "held", "error", "over"} \cup Running \cup Pages]
    /\ body \in [Post -> Text \cup {Empty}]
    /\ fallbacks \subseteq Post /\ asked \subseteq Post /\ late \subseteq Post
    /\ refused \subseteq Post /\ dropped \subseteq Post
    /\ copies \in [Post -> Nat]

Init ==
    /\ open = Tab
    /\ editor = [t \in Tab |-> Empty]
    /\ waiting = [t \in Tab |-> None]
    /\ queued = [t \in Tab |-> None]
    /\ stage = [p \in Post |-> "unsent"]
    /\ body = [p \in Post |-> Empty]
    /\ fallbacks = {} /\ asked = {} /\ late = {}
    /\ refused = {} /\ dropped = {}
    /\ copies = [p \in Post |-> 0]

-----------------------------------------------------------------------------
(* The tab *)

\* The user writes, whether or not a request is under way.
Type(t, text) ==
    /\ t \in open
    /\ editor' = [editor EXCEPT ![t] = text]
    /\ UNCHANGED <<open, waiting, queued, stage, body, workerVars>>

\* The form is posted with what the editor holds by now.
SendForm(t, p, text) ==
    /\ stage' = [stage EXCEPT ![p] = "arriving"]
    /\ body' = [body EXCEPT ![p] = text]
    /\ waiting' = [waiting EXCEPT ![t] = p]

\* Enter submits the form, with the Send button disabled or not.
Submit(t) ==
    /\ t \in open /\ waiting[t] = None
    /\ \E p \in Post : stage[p] = "unsent" /\ SendForm(t, p, editor[t])
    /\ UNCHANGED <<open, editor, queued, workerVars>>

\* Enter while a request is under way: htmx holds one submit back (a later
\* one replaces it), and reads the form only when it sends it.
SubmitAgain(t) ==
    /\ waiting[t] # None /\ queued[t] = None
    /\ \E p \in Post :
         /\ stage[p] = "unsent"
         /\ stage' = [stage EXCEPT ![p] = "held"]
         /\ queued' = [queued EXCEPT ![t] = p]
    /\ UNCHANGED <<open, editor, waiting, body, workerVars>>

\* The editor is cleared whatever the outcome is.
SettleAlwaysClears_M(t, successful) ==
    /\ editor' = [editor EXCEPT ![t] = Empty]
    /\ queued' = [queued EXCEPT ![t] = None]
    /\ UNCHANGED open
    /\ IF queued[t] # None
       THEN SendForm(t, queued[t], Empty)
       ELSE waiting' = [waiting EXCEPT ![t] = None] /\ UNCHANGED <<stage, body>>

\* htmx:afterRequest, and then the submit htmx held back.
Settle(t, successful) ==
    LET text == IF successful THEN Empty ELSE editor[t] IN
    /\ editor' = [editor EXCEPT ![t] = text]
    /\ queued' = [queued EXCEPT ![t] = None]
    /\ UNCHANGED open
    /\ IF queued[t] # None
       THEN SendForm(t, queued[t], text)
       ELSE waiting' = [waiting EXCEPT ![t] = None] /\ UNCHANGED <<stage, body>>

Receive(t) ==
    /\ waiting[t] # None
    /\ stage[waiting[t]] \in Pages \cup {"error"}
    /\ Settle(t, stage[waiting[t]] \in Pages)
    /\ UNCHANGED workerVars

\* The server is gone: the connection is reset and the browser says so.
Reset(t) ==
    /\ waiting[t] # None
    /\ stage[waiting[t]] = "over"
    /\ Settle(t, FALSE)
    /\ UNCHANGED workerVars

\* The browser loses the connection; the handler may not know it yet.
HangUp(t) ==
    /\ waiting[t] # None
    /\ Settle(t, FALSE)
    /\ UNCHANGED workerVars

\* The Abort button posts a form of its own, which session_abort answers with
\* a new page: like a reload it gives up the composer, its request and the
\* submit held back.  The new page is another tab.
Leave(t) ==
    /\ t \in open
    /\ open' = open \ {t}
    /\ editor' = [editor EXCEPT ![t] = Empty]
    /\ waiting' = [waiting EXCEPT ![t] = None]
    /\ queued' = [queued EXCEPT ![t] = None]
    /\ UNCHANGED <<stage, body, workerVars>>

-----------------------------------------------------------------------------
(* session_message *)

Advance(p, from, to) ==
    /\ stage[p] = from
    /\ stage' = [stage EXCEPT ![p] = to]
    /\ UNCHANGED <<tabVars, body>>

\* The session has ended: the extractor redirects to the login page.
Redirect(p) ==
    /\ Advance(p, "arriving", "login")
    /\ UNCHANGED workerVars

\* Bad CSRF token, empty message, no such worker, a failed statement, or a
\* password that cannot be decrypted.
Refuse(p) ==
    /\ Advance(p, "arriving", "error")
    /\ UNCHANGED workerVars

Admit(p) ==
    /\ body[p] # Empty
    /\ Advance(p, "arriving", "prompting")
    /\ UNCHANGED workerVars

Stored(p) == copies' = [copies EXCEPT ![p] = @ + 1]

\* prompt_async took the message.
PromptTaken(p) ==
    /\ Advance(p, "prompting", "listing")
    /\ Stored(p)
    /\ UNCHANGED <<fallbacks, asked, late, refused, dropped>>

\* The caller is to try again: a stage nobody handles.
PromptMissingRetries_M(p) ==
    /\ Advance(p, "prompting", "retrying")
    /\ UNCHANGED workerVars

\* 404 or 405: the same body is sent to /message in the background.
PromptMissing(p) ==
    /\ Advance(p, "prompting", "listing")
    /\ fallbacks' = fallbacks \cup {p}
    /\ UNCHANGED <<asked, late, copies, refused, dropped>>

\* Every other status is dropped, and send_text_async says Ok.
PromptRefused(p) ==
    /\ Advance(p, "prompting", "listing")
    /\ refused' = refused \cup {p}
    /\ UNCHANGED <<fallbacks, asked, late, copies, dropped>>

\* A request without an answer is tried on the other endpoint too.
PromptFailsOver_M(p) ==
    /\ Advance(p, "prompting", "apologising")
    /\ late' = late \cup {p}
    /\ fallbacks' = fallbacks \cup {p}
    /\ UNCHANGED <<asked, copies, refused, dropped>>

\* A connection that fails is dropped like a status.
PromptFailsSilently_M(p) ==
    /\ Advance(p, "prompting", "listing")
    /\ UNCHANGED workerVars

\* A request that is cut off had been sent, and then the worker may have the
\* message, take it later, or never; or nothing of it had left.
CutOff(sent) ==
    /\ late' = late \cup sent
    /\ UNCHANGED <<copies, refused>>

\* No connection, or no answer before the client's timeout.
PromptFails(p) ==
    /\ Advance(p, "prompting", "apologising")
    /\ \E sent \in SUBSET {p} : CutOff(sent)
    /\ UNCHANGED <<fallbacks, asked, dropped>>

\* list_messages, then the thread.
ListAnswered(p) ==
    /\ Advance(p, "listing", "thread")
    /\ UNCHANGED workerVars

\* list_messages is called again for as long as it fails.
ListRetries_M(p) ==
    /\ stage[p] = "listing"
    /\ UNCHANGED vars

\* list_messages has failed or timed out: 500, although the message was sent.
ListFails(p) ==
    /\ Advance(p, "listing", "error")
    /\ UNCHANGED workerVars

\* The thread (or nothing, when it cannot be listed) under "Failed to send".
Apologise(p) ==
    /\ Advance(p, "apologising", "banner")
    /\ UNCHANGED workerVars

\* Nobody waits for the answer any more: the handler is dropped where it is.
Cancel(p) ==
    /\ \A t \in Tab : waiting[t] # p
    /\ stage[p] \in Running
    /\ stage' = [stage EXCEPT ![p] = "over"]
    /\ \E sent \in SUBSET ({p} \cap {q \in Post : stage[q] = "prompting"}) : CutOff(sent)
    /\ UNCHANGED <<tabVars, body, fallbacks, asked, dropped>>

(* The task spawned by send_text_async; whatever comes of it is dropped. *)

FallbackSends(p) ==
    /\ p \in fallbacks
    /\ fallbacks' = fallbacks \ {p}
    /\ asked' = asked \cup {p}
    /\ UNCHANGED <<tabVars, stage, body, late, copies, refused, dropped>>

\* No connection: the message never leaves the server.
FallbackFails(p) ==
    /\ p \in fallbacks
    /\ fallbacks' = fallbacks \ {p}
    /\ dropped' = dropped \cup {p}
    /\ UNCHANGED <<tabVars, stage, body, asked, late, copies, refused>>

\* What becomes of the request once it is sent: the message is stored, refused
\* with a status, or the answer is not waited for any longer.
FallbackAnswers(p) ==
    \/ Stored(p) /\ UNCHANGED <<late, refused>>
    \/ refused' = refused \cup {p} /\ UNCHANGED <<late, copies>>
    \/ CutOff({p})

FallbackEnds(p) ==
    /\ p \in asked
    /\ asked' = asked \ {p}
    /\ FallbackAnswers(p)
    /\ UNCHANGED <<tabVars, stage, body, fallbacks, dropped>>

\* The worker gets to a prompt after all.
LateTaken(p) ==
    /\ p \in late
    /\ late' = late \ {p}
    /\ Stored(p)
    /\ UNCHANGED <<tabVars, stage, body, fallbacks, asked, refused, dropped>>

\* The server dies, and with it the handlers and the tasks.
Crash ==
    /\ stage' = [p \in Post |-> IF stage[p] \in Running THEN "over" ELSE stage[p]]
    /\ \E sent \in SUBSET {p \in Post : stage[p] = "prompting"} : CutOff(asked \cup sent)
    /\ dropped' = dropped \cup fallbacks
    /\ fallbacks' = {} /\ asked' = {}
    /\ UNCHANGED <<tabVars, body>>

-----------------------------------------------------------------------------
TabNext(t) ==
    \/ \E text \in Text : Type(t, text)
    \/ Submit(t) \/ SubmitAgain(t) \/ Receive(t) \/ Reset(t) \/ HangUp(t)
    \/ Leave(t)

PostNext(p) ==
    \/ Redirect(p) \/ Refuse(p) \/ Admit(p)
    \/ PromptTaken(p) \/ PromptMissing(p) \/ PromptRefused(p) \/ PromptFails(p)
    \/ ListAnswered(p) \/ ListFails(p) \/ Apologise(p)
    \/ Cancel(p) \/ FallbackSends(p) \/ FallbackFails(p) \/ FallbackEnds(p)
    \/ LateTaken(p)

Next == (\E t \in Tab : TabNext(t)) \/ (\E p \in Post : PostNext(p)) \/ Crash

Spec == Init /\ [][Next]_vars

\* The server runs its handlers and the browser its callbacks; of the worker
\* nothing is expected, the client's timeouts end its silence.
PostFairness(p) ==
    /\ WF_vars(Redirect(p) \/ Refuse(p) \/ Admit(p))
    /\ WF_vars(PromptFails(p)) /\ WF_vars(ListFails(p))
    /\ WF_vars(Apologise(p))

TabFairness(t) == WF_vars(Receive(t)) /\ WF_vars(Reset(t))

Fairness == (\A p \in Post : PostFairness(p)) /\ (\A t \in Tab : TabFairness(t))

FairSpec == Spec /\ Fairness

\* Where the steps of Fairness can be taken: their guards.  Weak fairness speaks
\* of ENABLED; the proof of Answered uses it only in this form.
PostReady(p) ==
    /\ stage[p] = "arriving" => ENABLED <<Redirect(p) \/ Refuse(p) \/ Admit(p)>>_vars
    /\ stage[p] = "prompting" => ENABLED <<PromptFails(p)>>_vars
    /\ stage[p] = "listing" => ENABLED <<ListFails(p)>>_vars
    /\ stage[p] = "apologising" => ENABLED <<Apologise(p)>>_vars

TabReady(t) ==
    waiting[t] # None =>
      /\ stage[waiting[t]] \in Pages \cup {"error"} => ENABLED <<Receive(t)>>_vars
      /\ stage[waiting[t]] = "over" => ENABLED <<Reset(t)>>_vars

FairStepsReady == (\A p \in Post : PostReady(p)) /\ (\A t \in Tab : TabReady(t))

-----------------------------------------------------------------------------
(* Properties *)

\* The worker stores the message of one request at most once: the fallback to
\* /message never repeats a prompt that was, or may have been, taken.
StoredOnce == \A p \in Post : copies[p] <= 1

\* The message is on its way: no task or worker has given it up.
UnderWay(p) == p \in fallbacks \cup asked \cup late

\* What the answer with the thread is worth: a message that the composer was
\* told is sent, and that is neither stored nor on its way, was refused by the
\* worker with a status nobody looks at, or dropped with the task that was to
\* send it.  No silence, timeout or cancellation loses one.  And what was
\* refused or dropped is lost: nothing sends it again.
SilentLossesNamed ==
    /\ \A p \in Post : stage[p] = "thread" /\ copies[p] = 0 /\ ~UnderWay(p) =>
         p \in refused \cup dropped
    /\ \A p \in refused \cup dropped : copies[p] = 0 /\ ~UnderWay(p)

\* While its page stays, text leaves the editor only with a page that answers
\* the tab's own request: an error status, a lost connection, a crash of the
\* server or the answer to another tab never costs the user what is written.
ErrorKeepsText ==
    [][\A t \in open' : editor[t] # Empty /\ editor'[t] = Empty =>
         waiting[t] # None /\ stage[waiting[t]] \in Pages]_vars

\* A composer does not wait for ever, however silent the worker is, while the
\* server keeps running or crashes and is noticed.
AnsweredFor(t, p) == waiting[t] = p ~> waiting[t] # p
Answered == \A t \in Tab, p \in Post : AnsweredFor(t, p)

\* "Only clear the editor on success so a failed send keeps your text."
\* (static/chat.js:51): the answer "Failed to send" does not clear it.
FailedSendKeepsText ==
    [][\A t \in open' : editor[t] # Empty /\ editor'[t] = Empty =>
         stage[waiting[t]] # "banner"]_vars

\* "In-flight requests are already handled by the form's hx-disabled-elt"
\* (static/chat.js:19-20): a submit made while a request is in flight sends
\* what has been written since, at least when that request went well.
QueuedSubmitIsSent ==
    [][\A t \in open' :
         /\ queued[t] # None /\ queued'[t] = None
         /\ stage[waiting[t]] = "thread" /\ editor[t] # body[waiting[t]]
         => body'[queued[t]] = editor[t]]_vars
=============================================================================
