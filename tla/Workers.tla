------------------------------ MODULE Workers -------------------------------
(***************************************************************************)
(* The worker registry: workers_submit, worker_update and workers_delete   *)
(* over the workers table of src/db.rs, and the handlers that call a       *)
(* worker with a copy of its row (backend_for).                            *)
(*                                                                         *)
(* worker_update looks the worker up in one critical section and updates   *)
(* it in another.  A handler that calls a worker reads the row once, makes *)
(* up to three calls with the copy, one after the other and each up to     *)
(* 300 s long, and session_message may leave a task behind that makes one  *)
(* more.  An activation is a request with the task it spawned.             *)
(*                                                                         *)
(* Operators whose name ends in _M are deliberate mistakes.  No action     *)
(* uses them: each stands before the definition it would replace, to show  *)
(* that a property notices the mistake.                                    *)
(***************************************************************************)
EXTENDS Naturals

CONSTANTS
    Id, Meta, Secret,   \* as in Registry
    Request,            \* requests being served at the same time
    Blank               \* the empty password field of the edit form

ASSUME BlankAssumption == Blank \notin Secret

VARIABLES
    workers,  \* the rows of the table
    issued,   \* identities new_token has returned
    req,      \* the activation of each request
    last,     \* history: the last password a form stored for a worker
    past      \* history: the rows a worker has had

tableVars == <<workers, issued, last, past>>
vars == <<tableVars, req>>

Row == [meta : Meta, secret : Secret]

\* What a handler with a worker's row is going to do: rest is the number of
\* calls it may still begin, prompt says that the next one, or the one under
\* way (busy), is send_text_async, whose answer may spawn the fallback.
Call ==
    [pc : {"call"}, id : Id, row : Row, rest : 0..3, prompt : BOOLEAN,
     busy : BOOLEAN, task : {"none", "spawned", "sending"}]

Activation ==
    [pc : {"idle"}]
      \cup [pc : {"update"}, id : Id, meta : Meta, password : Secret \cup {Blank}]
      \cup Call

Idle == [pc |-> "idle"]

TypeOK ==
    /\ issued \subseteq Id
    /\ DOMAIN workers \subseteq issued
    /\ workers \in [DOMAIN workers -> Row]
    /\ req \in [Request -> Activation]
    /\ last \in [Id -> Secret \cup {Blank}]
    /\ past \in [Id -> SUBSET Row]

Init ==
    /\ workers = [id \in {} |-> 0] /\ issued = {}
    /\ req = [r \in Request |-> Idle]
    /\ last = [id \in Id |-> Blank] /\ past = [id \in Id |-> {}]

-----------------------------------------------------------------------------
Continue(r, activation) == req' = [req EXCEPT ![r] = activation]

\* The row of a worker becomes `row', from a form with the given password.
Store(id, row, password) ==
    /\ workers' = [k \in DOMAIN workers \cup {id} |->
                     IF k = id THEN row ELSE workers[k]]
    /\ past' = [past EXCEPT ![id] = @ \cup {row}]
    /\ last' = IF password = Blank THEN last ELSE [last EXCEPT ![id] = password]

\* workers_submit, once the form is complete: the id is a new token and the
\* password of the form is never empty.
WorkersSubmit(id, meta, password) ==
    /\ id \notin issued
    /\ issued' = issued \cup {id}
    /\ Store(id, [meta |-> meta, secret |-> password], password)
    /\ UNCHANGED req

\* worker_update finds the worker; the form's description may be as old as
\* the edit page it comes from.
WorkerUpdate(r, id, meta, password) ==
    /\ req[r].pc = "idle"
    /\ id \in DOMAIN workers
    /\ Continue(r, [pc |-> "update", id |-> id, meta |-> meta, password |-> password])
    /\ UNCHANGED tableVars

\* For a blank password the one that was looked up before is written back.
UpdateRowWritesBack_M(r) ==
    LET id == req[r].id
        password == req[r].password
    IN  /\ id \in DOMAIN workers
        /\ \E old \in past[id] :
             Store(id, [meta |-> req[r].meta,
                        secret |-> IF password = Blank THEN old.secret ELSE password],
                   password)

\* The empty password is stored like any other.
UpdateRowBlank_M(r) ==
    LET id == req[r].id
    IN  /\ id \in DOMAIN workers
        /\ Store(id, [meta |-> req[r].meta, secret |-> req[r].password],
                 req[r].password)

\* update_worker: a blank password keeps the encrypted one that is stored now.
UpdateRow(r) ==
    LET id == req[r].id
        password == req[r].password
        secret == IF password = Blank THEN workers[id].secret ELSE password
    IN  /\ id \in DOMAIN workers
        /\ Store(id, [meta |-> req[r].meta, secret |-> secret], password)

\* A row that is missing is inserted instead, as INSERT OR REPLACE would.
UpdateMissesInserts_M(r) ==
    /\ req[r].id \notin DOMAIN workers
    /\ Store(req[r].id, [meta |-> req[r].meta, secret |-> last[req[r].id]], Blank)

\* The UPDATE finds no row: nothing happens, and the answer is the same.
UpdateMisses(r) ==
    /\ req[r].id \notin DOMAIN workers
    /\ UNCHANGED <<workers, last, past>>

Update(r) ==
    /\ req[r].pc = "update"
    /\ UpdateRow(r) \/ UpdateMisses(r)
    /\ Continue(r, Idle)
    /\ UNCHANGED issued

\* workers_delete, once the form is found to carry the session's _csrf.
WorkersDelete(id) ==
    /\ id \in DOMAIN workers
    /\ workers' = [k \in DOMAIN workers \ {id} |-> workers[k]]
    /\ UNCHANGED <<issued, last, past, req>>

-----------------------------------------------------------------------------
(* Calls to a worker *)

\* The calls of the handlers, in their order: one (workers_test,
\* worker_sessions, worker_new_session, session_thread, session_abort,
\* worker_events), two (session_page, session_status), three (worker_tools),
\* or the prompt and a listing (session_message).
Plan ==
    [rest : {1, 2, 3}, prompt : {FALSE}] \cup [rest : {2}, prompt : {TRUE}]

Begun(id, row, plan) ==
    [pc |-> "call", id |-> id, row |-> row, rest |-> plan.rest,
     prompt |-> plan.prompt, busy |-> FALSE, task |-> "none"]

\* The client is kept, and only its password is refreshed.
BackendForKeepsUrl_M(r, id) ==
    /\ req[r].pc = "idle"
    /\ id \in DOMAIN workers
    /\ \E old \in past[id], plan \in Plan :
         Continue(r, Begun(id, [meta |-> old.meta, secret |-> workers[id].secret], plan))
    /\ UNCHANGED tableVars

\* worker_by_id and backend_for: the calls are made with the row as it is now.
BackendFor(r, id) ==
    /\ req[r].pc = "idle"
    /\ id \in DOMAIN workers
    /\ \E plan \in Plan : Continue(r, Begun(id, workers[id], plan))
    /\ UNCHANGED tableVars

\* An activation is over with its handler and its task.
Onward(r, call) ==
    /\ Continue(r, IF call.rest = 0 /\ ~call.busy /\ call.task = "none" THEN Idle ELSE call)
    /\ UNCHANGED tableVars

CallBegins(r) ==
    /\ req[r].pc = "call" /\ ~req[r].busy /\ req[r].rest > 0
    /\ Onward(r, [req[r] EXCEPT !.busy = TRUE, !.rest = @ - 1])

\* The worker answers or the client gives up, and the handler goes on.
CallEnds(r) ==
    /\ req[r].pc = "call" /\ req[r].busy
    /\ Onward(r, [req[r] EXCEPT !.busy = FALSE, !.prompt = FALSE])

\* 404 or 405 to the prompt: the task gets a clone of address and password.
PromptMissing(r) ==
    /\ req[r].pc = "call" /\ req[r].busy /\ req[r].prompt
    /\ Onward(r, [req[r] EXCEPT !.busy = FALSE, !.prompt = FALSE, !.task = "spawned"])

\* The handler answers without its other calls, or is dropped with the one
\* under way because nobody waits for it any more; its task is not.
HandlerEnds(r) ==
    /\ req[r].pc = "call"
    /\ Onward(r, [req[r] EXCEPT !.busy = FALSE, !.prompt = FALSE, !.rest = 0])

TaskSends(r) ==
    /\ req[r].pc = "call" /\ req[r].task = "spawned"
    /\ Onward(r, [req[r] EXCEPT !.task = "sending"])

\* A request of the task that failed is repeated.
TaskRetries_M(r) ==
    /\ req[r].pc = "call" /\ req[r].task = "sending"
    /\ Onward(r, [req[r] EXCEPT !.task = "spawned"])

\* The worker answers, or there is no connection, or no answer.
TaskEnds(r) ==
    /\ req[r].pc = "call" /\ req[r].task # "none"
    /\ Onward(r, [req[r] EXCEPT !.task = "none"])

\* update_worker fails before it has changed anything.
UpdateFails(r) ==
    /\ req[r].pc = "update"
    /\ Continue(r, Idle)
    /\ UNCHANGED tableVars

\* The process ends, and with it the handlers and their tasks.
Restart ==
    /\ req' = [r \in Request |-> Idle]
    /\ UNCHANGED tableVars

Next ==
    \/ \E id \in Id :
         \/ \E meta \in Meta, password \in Secret : WorkersSubmit(id, meta, password)
         \/ WorkersDelete(id)
         \/ \E r \in Request :
              \/ \E meta \in Meta, password \in Secret \cup {Blank} :
                   WorkerUpdate(r, id, meta, password)
              \/ BackendFor(r, id)
    \/ \E r \in Request :
         \/ Update(r) \/ UpdateFails(r)
         \/ CallBegins(r) \/ CallEnds(r) \/ PromptMissing(r) \/ HandlerEnds(r)
         \/ TaskSends(r) \/ TaskEnds(r)
    \/ Restart

Spec == Init /\ [][Next]_vars

-----------------------------------------------------------------------------
(* Properties *)

\* "If `password` is empty, the existing encrypted password is kept"
\* (src/db.rs:369-370), whatever other updates run between the look-up and
\* the UPDATE: the stored password is the last one that a form brought.
PasswordIsLastGiven == \A id \in DOMAIN workers : workers[id].secret = last[id]

\* The calls of an activation, its task's included, reach the address of one
\* row with the password of that same row, although the table may change
\* between them: never the new password at the old address or the other way
\* round.
CallsUseOneRow ==
    \A r \in Request : req[r].pc = "call" => req[r].row \in past[req[r].id]

\* How many calls to a worker an activation may still begin with a given row.
Owed(activation, id, row) ==
    IF activation.pc = "call" /\ activation.id = id /\ activation.row = row
      THEN activation.rest
             + (IF activation.prompt \/ activation.task = "spawned" THEN 1 ELSE 0)
      ELSE 0

\* A worker that was deleted, or given another address or password, is still
\* called with the old row, but only by the activations that had copied it,
\* and each for what its handler and its task had left to do: once a row is
\* not the current one, no step adds a call that will use it.
StaleCallsRunOut ==
    [][\A r \in Request : req'[r].pc = "call" =>
         LET id  == req'[r].id
             row == req'[r].row
         IN  id \notin DOMAIN workers \/ workers[id] # row =>
               Owed(req'[r], id, row) <= Owed(req[r], id, row)]_vars

R == INSTANCE Registry

\* Look-ups and updates in two critical sections, missed updates and failures
\* included, the table changes as an atomic registry would: in particular no
\* late update brings a deleted worker back.
ImplementsRegistry == R!Spec
=============================================================================
