--------------------------- MODULE WorkersProofs ----------------------------
(* Theorems about Workers for any sets of workers, rows and requests: the   *)
(* inductive invariant, and that the table implements Registry.             *)
EXTENDS Workers, TLAPS

\* What is stored now is among the rows a worker has had: a call that copies
\* the row then keeps CallsUseOneRow, whatever happens to the table later.
StoredIsPast == \A id \in DOMAIN workers : workers[id] \in past[id]

IInv == TypeOK /\ PasswordIsLastGiven /\ CallsUseOneRow /\ StoredIsPast

\* Storing a row of the table's type keeps the table's share of IInv, if the
\* row has the password of the form or, for a blank one, the one stored last.
LEMMA StoreKeeps ==
    ASSUME IInv, NEW id \in Id, NEW row \in Row, NEW password \in Secret \cup {Blank},
           Store(id, row, password),
           id \in issued',
           issued \subseteq issued', issued' \subseteq Id,
           row.secret = IF password = Blank THEN last[id] ELSE password
    PROVE  /\ issued' \subseteq Id
           /\ DOMAIN workers' \subseteq issued'
           /\ workers' \in [DOMAIN workers' -> Row]
           /\ last' \in [Id -> Secret \cup {Blank}]
           /\ past' \in [Id -> SUBSET Row]
           /\ \A k \in Id : past[k] \subseteq past'[k]
           /\ PasswordIsLastGiven'
           /\ StoredIsPast'
<1> USE DEF IInv
<1>1. workers' = [k \in DOMAIN workers \cup {id} |-> IF k = id THEN row ELSE workers[k]]
  BY DEF Store
<1>2. DOMAIN workers' = DOMAIN workers \cup {id}
  BY <1>1
<1>3. \A k \in DOMAIN workers' : workers'[k] = IF k = id THEN row ELSE workers[k]
  BY <1>1
<1>4. \A k \in DOMAIN workers : k \in Id /\ workers[k] \in Row
  BY DEF TypeOK
<1>5. workers' \in [DOMAIN workers' -> Row]
  BY <1>1, <1>2, <1>4
<1>6. past' = [past EXCEPT ![id] = @ \cup {row}]
  BY DEF Store
<1>7. past' \in [Id -> SUBSET Row] /\ \A k \in Id : past'[k] = IF k = id THEN past[k] \cup {row} ELSE past[k]
  BY <1>6 DEF TypeOK
<1>8. /\ last' \in [Id -> Secret \cup {Blank}]
      /\ \A k \in Id : last'[k] = IF k = id THEN row.secret ELSE last[k]
  <2>1. CASE password = Blank
    BY <2>1 DEF Store, TypeOK
  <2>2. CASE password # Blank
    BY <2>2 DEF Store, TypeOK
  <2> QED BY <2>1, <2>2
<1>9. PasswordIsLastGiven'
  BY <1>2, <1>3, <1>4, <1>8 DEF PasswordIsLastGiven
<1>10. StoredIsPast'
  BY <1>2, <1>3, <1>4, <1>7 DEF StoredIsPast
<1>11. DOMAIN workers' \subseteq issued'
  BY <1>2 DEF TypeOK
<1> QED BY <1>5, <1>7, <1>8, <1>9, <1>10, <1>11

\* What the activations have in common.
LEMMA ActivationCases ==
    ASSUME NEW a \in Activation
    PROVE  /\ a.pc = "call" => a \in Call /\ a.id \in Id /\ a.row \in Row
           /\ a.pc = "update" => /\ a.id \in Id /\ a.meta \in Meta
                                 /\ a.password \in Secret \cup {Blank}
<1>1. CASE a \in Call
  BY <1>1 DEF Call
<1>2. CASE a \notin Call
  BY <1>2 DEF Activation
<1> QED  BY <1>1, <1>2

\* A request that moves on keeps the type of the activations and the rows of
\* the calls, if its own activation does.
LEMMA ContinueKeeps ==
    ASSUME IInv, NEW r \in Request, NEW activation \in Activation,
           Continue(r, activation),
           past' \in [Id -> SUBSET Row],
           \A k \in Id : past[k] \subseteq past'[k],
           activation.pc = "call" => activation.row \in past'[activation.id]
    PROVE  req' \in [Request -> Activation] /\ CallsUseOneRow'
<1>1. req' \in [Request -> Activation]
  BY DEF IInv, TypeOK, Continue
<1>2. \A s \in Request : req'[s] = IF s = r THEN activation ELSE req[s]
  BY DEF IInv, TypeOK, Continue
<1>3. ASSUME NEW s \in Request, req[s].pc = "call" PROVE req[s].id \in Id
  BY <1>3, ActivationCases DEF IInv, TypeOK
<1>4. CallsUseOneRow'
  BY <1>2, <1>3 DEF IInv, CallsUseOneRow
<1> QED BY <1>1, <1>4

LEMMA IdleIsActivation == Idle \in Activation /\ Idle.pc = "idle"
BY DEF Idle, Activation

\* A step that leaves the table and its history alone keeps what IInv says of
\* them.
LEMMA TableKept ==
    ASSUME IInv, UNCHANGED tableVars,
           req' \in [Request -> Activation], CallsUseOneRow'
    PROVE  IInv'
BY DEF IInv, TypeOK, PasswordIsLastGiven, StoredIsPast, CallsUseOneRow, tableVars

\* The steps of an activation with a copied row: what it goes on with.
AfterBegins(call) == [call EXCEPT !.busy = TRUE, !.rest = @ - 1]
AfterEnds(call) == [call EXCEPT !.busy = FALSE, !.prompt = FALSE]
AfterMissing(call) == [call EXCEPT !.busy = FALSE, !.prompt = FALSE, !.task = "spawned"]
AfterGivingUp(call) == [call EXCEPT !.busy = FALSE, !.prompt = FALSE, !.rest = 0]
AfterSends(call) == [call EXCEPT !.task = "sending"]
AfterTask(call) == [call EXCEPT !.task = "none"]

CallStep(r) ==
    CallBegins(r) \/ CallEnds(r) \/ PromptMissing(r) \/ HandlerEnds(r)
      \/ TaskSends(r) \/ TaskEnds(r)

\* Each of them keeps the row and adds no call.
LEMMA CallSteps ==
    ASSUME IInv, NEW r \in Request, CallStep(r)
    PROVE  /\ req[r] \in Call
           /\ \E call \in Call :
                /\ Onward(r, call)
                /\ call.id = req[r].id /\ call.row = req[r].row
                /\ Owed(call, call.id, call.row) <= Owed(req[r], call.id, call.row)
<1>1. req[r] \in Call /\ req[r].pc = "call"
  BY DEF IInv, TypeOK, Activation, CallStep, CallBegins, CallEnds, PromptMissing,
     HandlerEnds, TaskSends, TaskEnds
<1> DEFINE c == req[r]
<1> HIDE DEF c
<1>2. c \in Call
  BY <1>1 DEF c
<1>3. CASE CallBegins(r)
  <2>1. Onward(r, AfterBegins(c)) /\ c.rest > 0
    BY <1>3 DEF CallBegins, AfterBegins, c
  <2>2. AfterBegins(c) \in Call
    <3>1. c.rest - 1 \in 0..3
      BY <1>2, <2>1 DEF Call
    <3> QED  BY <1>2, <3>1 DEF AfterBegins, Call
  <2>3. /\ AfterBegins(c).id = c.id /\ AfterBegins(c).row = c.row
        /\ Owed(AfterBegins(c), c.id, c.row) <= Owed(c, c.id, c.row)
    BY <1>2, <2>1 DEF AfterBegins, Call, Owed
  <2> QED  BY <1>1, <2>1, <2>2, <2>3 DEF c
<1>4. CASE CallEnds(r)
  <2>1. Onward(r, AfterEnds(c))
    BY <1>4 DEF CallEnds, AfterEnds, c
  <2>2. AfterEnds(c) \in Call
    BY <1>2 DEF AfterEnds, Call
  <2>3. /\ AfterEnds(c).id = c.id /\ AfterEnds(c).row = c.row
        /\ Owed(AfterEnds(c), c.id, c.row) <= Owed(c, c.id, c.row)
    BY <1>2 DEF AfterEnds, Call, Owed
  <2> QED  BY <1>1, <2>1, <2>2, <2>3 DEF c
<1>5. CASE PromptMissing(r)
  <2>1. Onward(r, AfterMissing(c)) /\ c.prompt = TRUE
    BY <1>2, <1>5 DEF PromptMissing, AfterMissing, Call, c
  <2>2. AfterMissing(c) \in Call
    BY <1>2 DEF AfterMissing, Call
  <2>3. /\ AfterMissing(c).id = c.id /\ AfterMissing(c).row = c.row
        /\ Owed(AfterMissing(c), c.id, c.row) <= Owed(c, c.id, c.row)
    BY <1>2, <2>1 DEF AfterMissing, Call, Owed
  <2> QED  BY <1>1, <2>1, <2>2, <2>3 DEF c
<1>6. CASE HandlerEnds(r)
  <2>1. Onward(r, AfterGivingUp(c))
    BY <1>6 DEF HandlerEnds, AfterGivingUp, c
  <2>2. AfterGivingUp(c) \in Call
    <3>1. 0 \in 0..3
      OBVIOUS
    <3> QED  BY <1>2, <3>1 DEF AfterGivingUp, Call
  <2>3. /\ AfterGivingUp(c).id = c.id /\ AfterGivingUp(c).row = c.row
        /\ Owed(AfterGivingUp(c), c.id, c.row) <= Owed(c, c.id, c.row)
    BY <1>2 DEF AfterGivingUp, Call, Owed
  <2> QED  BY <1>1, <2>1, <2>2, <2>3 DEF c
<1>7. CASE TaskSends(r)
  <2>1. Onward(r, AfterSends(c))
    BY <1>7 DEF TaskSends, AfterSends, c
  <2>2. AfterSends(c) \in Call
    BY <1>2 DEF AfterSends, Call
  <2>3. /\ AfterSends(c).id = c.id /\ AfterSends(c).row = c.row
        /\ Owed(AfterSends(c), c.id, c.row) <= Owed(c, c.id, c.row)
    BY <1>2 DEF AfterSends, Call, Owed
  <2> QED  BY <1>1, <2>1, <2>2, <2>3 DEF c
<1>8. CASE TaskEnds(r)
  <2>1. Onward(r, AfterTask(c))
    BY <1>8 DEF TaskEnds, AfterTask, c
  <2>2. AfterTask(c) \in Call
    BY <1>2 DEF AfterTask, Call
  <2>3. /\ AfterTask(c).id = c.id /\ AfterTask(c).row = c.row
        /\ Owed(AfterTask(c), c.id, c.row) <= Owed(c, c.id, c.row)
    BY <1>2 DEF AfterTask, Call, Owed
  <2> QED  BY <1>1, <2>1, <2>2, <2>3 DEF c
<1> QED
  BY <1>3, <1>4, <1>5, <1>6, <1>7, <1>8 DEF CallStep

\* What a look-up begins with.
LEMMA BegunIsCall ==
    ASSUME NEW id \in Id, NEW row \in Row, NEW plan \in Plan
    PROVE  /\ Begun(id, row, plan) \in Call
           /\ Begun(id, row, plan).pc = "call"
           /\ Begun(id, row, plan).id = id /\ Begun(id, row, plan).row = row
<1>1. plan.rest \in {1, 2, 3} /\ plan.prompt \in BOOLEAN
  BY DEF Plan
<1>2. plan.rest \in 0..3
  BY <1>1
<1> QED  BY <1>1, <1>2 DEF Begun, Call

\* The UPDATE of worker_update, found or not.
LEMMA UpdateKeeps ==
    ASSUME IInv, NEW r \in Request, Update(r)
    PROVE  IInv'
<1> DEFINE id == req[r].id
           password == req[r].password
<1>1. id \in Id /\ password \in Secret \cup {Blank} /\ req[r].meta \in Meta
  BY ActivationCases DEF Update, IInv, TypeOK
<1>2. CASE UpdateRow(r)
  <2> DEFINE secret == IF password = Blank THEN workers[id].secret ELSE password
             row == [meta |-> req[r].meta, secret |-> secret]
  <2>1. id \in DOMAIN workers /\ Store(id, row, password)
    BY <1>2 DEF UpdateRow
  <2>2. workers[id] \in Row /\ workers[id].secret = last[id]
    BY <2>1 DEF IInv, TypeOK, PasswordIsLastGiven
  <2>3. row \in Row /\ row.secret = IF password = Blank THEN last[id] ELSE password
    BY <1>1, <2>2 DEF Row
  <2>4. issued' = issued /\ Continue(r, Idle)
    BY DEF Update
  <2>5. id \in issued /\ issued \subseteq Id
    BY <2>1 DEF IInv, TypeOK
  <2> HIDE DEF id, password, row
  <2>6. /\ DOMAIN workers' \subseteq issued'
        /\ workers' \in [DOMAIN workers' -> Row]
        /\ last' \in [Id -> Secret \cup {Blank}]
        /\ past' \in [Id -> SUBSET Row]
        /\ \A k \in Id : past[k] \subseteq past'[k]
        /\ PasswordIsLastGiven' /\ StoredIsPast'
    BY <1>1, <2>1, <2>3, <2>4, <2>5, StoreKeeps
  <2>7. req' \in [Request -> Activation] /\ CallsUseOneRow'
    BY <2>4, <2>6, ContinueKeeps, IdleIsActivation
  <2> QED BY <2>4, <2>5, <2>6, <2>7 DEF IInv, TypeOK
<1>3. CASE UpdateMisses(r)
  <2>1. UNCHANGED tableVars /\ Continue(r, Idle)
    BY <1>3 DEF Update, UpdateMisses, tableVars
  <2>2. req' \in [Request -> Activation] /\ CallsUseOneRow'
    BY <2>1, ContinueKeeps, IdleIsActivation DEF tableVars, IInv, TypeOK
  <2> QED BY <2>1, <2>2, TableKept DEF IInv, TypeOK
<1> QED BY <1>2, <1>3 DEF Update

LEMMA InitIInv == Init => IInv
<1> SUFFICES ASSUME Init PROVE IInv
  OBVIOUS
<1>1. DOMAIN workers = {}
  BY DEF Init
<1>2. TypeOK
  BY <1>1, IdleIsActivation DEF Init, TypeOK
<1>3. CallsUseOneRow
  BY IdleIsActivation DEF Init, CallsUseOneRow
<1> QED BY <1>1, <1>2, <1>3 DEF IInv, PasswordIsLastGiven, StoredIsPast

LEMMA StepIInv == IInv /\ [Next]_vars => IInv'
<1> SUFFICES ASSUME IInv, [Next]_vars PROVE IInv'
  OBVIOUS
<1>t. past \in [Id -> SUBSET Row] /\ \A k \in Id : past[k] \subseteq past[k]
  BY DEF IInv, TypeOK
<1>1. ASSUME NEW id \in Id, NEW meta \in Meta, NEW password \in Secret,
             WorkersSubmit(id, meta, password)
      PROVE  IInv'
  <2> DEFINE row == [meta |-> meta, secret |-> password]
  <2>1. row \in Row /\ row.secret = IF password = Blank THEN last[id] ELSE password
    BY BlankAssumption DEF Row
  <2>2. /\ issued' = issued \cup {id} /\ Store(id, row, password)
        /\ req' = req
    BY <1>1 DEF WorkersSubmit
  <2>3. password \in Secret \cup {Blank} /\ issued' \subseteq Id /\ id \in issued'
        /\ issued \subseteq issued'
    BY <2>2 DEF IInv, TypeOK
  <2> HIDE DEF row
  <2>4. /\ DOMAIN workers' \subseteq issued'
        /\ workers' \in [DOMAIN workers' -> Row]
        /\ last' \in [Id -> Secret \cup {Blank}]
        /\ past' \in [Id -> SUBSET Row]
        /\ \A k \in Id : past[k] \subseteq past'[k]
        /\ PasswordIsLastGiven' /\ StoredIsPast'
    BY <2>1, <2>2, <2>3, StoreKeeps
  <2>5. CallsUseOneRow'
    <3>1. ASSUME NEW r \in Request, req[r].pc = "call" PROVE req[r].id \in Id
      BY <3>1, ActivationCases DEF IInv, TypeOK
    <3> QED BY <2>2, <2>4, <3>1 DEF IInv, CallsUseOneRow
  <2> QED BY <2>2, <2>3, <2>4, <2>5 DEF IInv, TypeOK
<1>2. ASSUME NEW id \in Id, WorkersDelete(id)
      PROVE  IInv'
  <2>1. /\ DOMAIN workers' = DOMAIN workers \ {id}
        /\ \A k \in DOMAIN workers' : workers'[k] = workers[k]
        /\ workers' = [k \in DOMAIN workers' |-> workers[k]]
        /\ issued' = issued /\ last' = last /\ past' = past /\ req' = req
    BY <1>2 DEF WorkersDelete
  <2>2. TypeOK'
    BY <2>1 DEF IInv, TypeOK
  <2>3. PasswordIsLastGiven' /\ StoredIsPast' /\ CallsUseOneRow'
    BY <2>1 DEF IInv, PasswordIsLastGiven, StoredIsPast, CallsUseOneRow
  <2> QED BY <2>2, <2>3 DEF IInv
<1>4. ASSUME NEW id \in Id, NEW r \in Request, NEW meta \in Meta,
             NEW password \in Secret \cup {Blank}, WorkerUpdate(r, id, meta, password)
      PROVE  IInv'
  <2> DEFINE activation == [pc |-> "update", id |-> id, meta |-> meta, password |-> password]
  <2>1. activation \in Activation /\ activation.pc # "call"
    BY DEF Activation
  <2>2. UNCHANGED tableVars /\ Continue(r, activation)
    BY <1>4 DEF WorkerUpdate
  <2> HIDE DEF activation
  <2>3. req' \in [Request -> Activation] /\ CallsUseOneRow'
    BY <1>t, <2>1, <2>2, ContinueKeeps DEF tableVars
  <2> QED BY <2>2, <2>3, TableKept
<1>5. ASSUME NEW id \in Id, NEW r \in Request, BackendFor(r, id)
      PROVE  IInv'
  <2> PICK plan \in Plan : Continue(r, Begun(id, workers[id], plan))
    BY <1>5 DEF BackendFor
  <2> DEFINE activation == Begun(id, workers[id], plan)
  <2>1. UNCHANGED tableVars /\ id \in DOMAIN workers
    BY <1>5 DEF BackendFor
  <2>2. workers[id] \in Row /\ workers[id] \in past[id]
    BY <2>1 DEF IInv, TypeOK, StoredIsPast
  <2>3. activation \in Activation /\ activation.id = id /\ activation.row = workers[id]
    BY <2>2, BegunIsCall DEF Activation
  <2>4. activation.row \in past'[activation.id]
    BY <2>1, <2>2, <2>3 DEF tableVars
  <2>5. Continue(r, activation)
    OBVIOUS
  <2> HIDE DEF activation
  <2>6. req' \in [Request -> Activation] /\ CallsUseOneRow'
    BY <1>t, <2>1, <2>3, <2>4, <2>5, ContinueKeeps DEF tableVars
  <2> QED BY <2>1, <2>6, TableKept
<1>6. ASSUME NEW r \in Request, Update(r) PROVE IInv'
  BY <1>6, UpdateKeeps
<1>3. ASSUME NEW r \in Request, CallStep(r) PROVE IInv'
  <2>1. PICK call \in Call : /\ Onward(r, call) /\ req[r] \in Call
                             /\ call.id = req[r].id /\ call.row = req[r].row
    BY <1>3, CallSteps
  <2> DEFINE activation == IF call.rest = 0 /\ ~call.busy /\ call.task = "none"
                             THEN Idle ELSE call
  <2>2. UNCHANGED tableVars /\ Continue(r, activation)
    BY <2>1 DEF Onward
  <2>3. call.row \in past[call.id]
    BY <2>1 DEF IInv, CallsUseOneRow, Call
  <2>4. activation \in Activation /\ (activation.pc = "call" => activation = call)
    BY <2>1, IdleIsActivation DEF Activation
  <2> HIDE DEF activation
  <2>5. req' \in [Request -> Activation] /\ CallsUseOneRow'
    BY <1>t, <2>2, <2>3, <2>4, ContinueKeeps DEF tableVars
  <2> QED BY <2>2, <2>5, TableKept
<1>7. ASSUME NEW r \in Request, UpdateFails(r) PROVE IInv'
  <2>1. UNCHANGED tableVars /\ Continue(r, Idle)
    BY <1>7 DEF UpdateFails
  <2>2. req' \in [Request -> Activation] /\ CallsUseOneRow'
    BY <1>t, <2>1, ContinueKeeps, IdleIsActivation DEF tableVars
  <2> QED BY <2>1, <2>2, TableKept
<1>8. CASE Restart
  <2>1. req' \in [Request -> Activation] /\ CallsUseOneRow'
    BY <1>8, IdleIsActivation DEF Restart, CallsUseOneRow
  <2> QED BY <1>8, <2>1, TableKept DEF Restart
<1>9. CASE UNCHANGED vars
  <2>1. UNCHANGED tableVars /\ req' = req /\ past' = past
    BY <1>9 DEF vars, tableVars
  <2>2. req' \in [Request -> Activation] /\ CallsUseOneRow'
    BY <2>1 DEF IInv, TypeOK, CallsUseOneRow
  <2> QED BY <2>1, <2>2, TableKept
<1> QED
  BY <1>1, <1>2, <1>3, <1>4, <1>5, <1>6, <1>7, <1>8, <1>9 DEF Next, CallStep

\* The conjunction that every statement on the table and every call keeps.
THEOREM Inductive == Spec => []IInv
BY InitIInv, StepIInv, PTL DEF Spec

\* The table, its history and the activations keep their types.
THEOREM TypeCorrect == Spec => []TypeOK
<1>1. IInv => TypeOK
  BY DEF IInv
<1> QED BY <1>1, Inductive, PTL

\* A blank password keeps the stored one and any other replaces it, whatever
\* runs between worker_update's look-up and its UPDATE.
THEOREM PasswordIsLastGivenHolds == Spec => []PasswordIsLastGiven
<1>1. IInv => PasswordIsLastGiven
  BY DEF IInv
<1> QED BY <1>1, Inductive, PTL

\* A call uses the address and the password of one row.
THEOREM CallsUseOneRowHolds == Spec => []CallsUseOneRow
<1>1. IInv => CallsUseOneRow
  BY DEF IInv
<1> QED BY <1>1, Inductive, PTL

\* For any number of workers, rows and requests: with a row that is not the
\* worker's any more only those calls are made that were owed already.
THEOREM StaleCallsRunOutHolds == Spec => StaleCallsRunOut
<1> DEFINE A == \A r \in Request : req'[r].pc = "call" =>
                  LET id  == req'[r].id
                      row == req'[r].row
                  IN  id \notin DOMAIN workers \/ workers[id] # row =>
                        Owed(req'[r], id, row) <= Owed(req[r], id, row)
<1>1. IInv /\ [Next]_vars => [A]_vars
  <2> SUFFICES ASSUME IInv, [Next]_vars, NEW r \in Request, req'[r].pc = "call",
                      \/ req'[r].id \notin DOMAIN workers
                      \/ workers[req'[r].id] # req'[r].row
               PROVE  Owed(req'[r], req'[r].id, req'[r].row)
                        <= Owed(req[r], req'[r].id, req'[r].row)
    OBVIOUS
  <2>0. ASSUME req'[r] = req[r]
        PROVE  Owed(req'[r], req'[r].id, req'[r].row)
                 <= Owed(req[r], req'[r].id, req'[r].row)
    <3>1. req[r] \in Call
      BY <2>0 DEF IInv, TypeOK, Activation
    <3>2. Owed(req[r], req[r].id, req[r].row) \in Nat
      BY <3>1 DEF Owed, Call
    <3> QED  BY <2>0, <3>2
  <2>1. ASSUME NEW s \in Request, NEW activation, Continue(s, activation),
               s # r \/ activation.pc # "call"
        PROVE  req'[r] = req[r]
    BY <2>1 DEF Continue, IInv, TypeOK
  <2>2. ASSUME NEW k \in Id, NEW s \in Request, BackendFor(s, k) PROVE req'[r] = req[r]
    <3> PICK plan \in Plan : Continue(s, Begun(k, workers[k], plan))
      BY <2>2 DEF BackendFor
    <3>1. k \in DOMAIN workers
      BY <2>2 DEF BackendFor
    <3>2. Begun(k, workers[k], plan).id = k /\ Begun(k, workers[k], plan).row = workers[k]
      BY <3>1, BegunIsCall DEF IInv, TypeOK
    <3>3. s # r
      BY <3>1, <3>2 DEF Continue, IInv, TypeOK
    <3> QED BY <3>3, <2>1
  <2>3. ASSUME NEW k \in Id, NEW s \in Request, NEW meta \in Meta,
               NEW password \in Secret \cup {Blank}, WorkerUpdate(s, k, meta, password)
        PROVE  req'[r] = req[r]
    <3> DEFINE activation == [pc |-> "update", id |-> k, meta |-> meta, password |-> password]
    <3>1. Continue(s, activation) /\ activation.pc # "call"
      BY <2>3 DEF WorkerUpdate
    <3> QED BY <3>1, <2>1
  <2>4. ASSUME NEW s \in Request, Update(s) \/ UpdateFails(s)
        PROVE  req'[r] = req[r]
    <3>1. Continue(s, Idle)
      BY <2>4 DEF Update, UpdateFails
    <3> QED BY <3>1, <2>1, IdleIsActivation
  <2>5. ASSUME NEW s \in Request, CallStep(s)
        PROVE  Owed(req'[r], req'[r].id, req'[r].row)
                 <= Owed(req[r], req'[r].id, req'[r].row)
    <3>1. PICK call \in Call :
            /\ Onward(s, call) /\ req[s] \in Call
            /\ call.id = req[s].id /\ call.row = req[s].row
            /\ Owed(call, call.id, call.row) <= Owed(req[s], call.id, call.row)
      BY <2>5, CallSteps
    <3>2. CASE s # r
      BY <2>0, <2>1, <3>1, <3>2 DEF Onward
    <3>3. CASE s = r
      <4>1. req'[r] = call
        BY <3>1, <3>3, IdleIsActivation DEF Onward, Continue, IInv, TypeOK
      <4> QED BY <3>1, <3>3, <4>1
    <3> QED BY <3>2, <3>3
  <2>6. CASE Restart
    BY <2>6, IdleIsActivation DEF Restart
  <2>7. ASSUME NEW k \in Id, NEW meta \in Meta, NEW password \in Secret,
               WorkersSubmit(k, meta, password)
        PROVE  req' = req
    BY <2>7 DEF WorkersSubmit
  <2>8. ASSUME NEW k \in Id, WorkersDelete(k) PROVE req' = req
    BY <2>8 DEF WorkersDelete
  <2>9. CASE UNCHANGED vars
    BY <2>0, <2>9 DEF vars
  <2> QED
    BY <2>0, <2>2, <2>3, <2>4, <2>5, <2>6, <2>7, <2>8, <2>9 DEF Next, CallStep
<1> QED BY <1>1, Inductive, PTL DEF Spec, StaleCallsRunOut

\* The handlers implement the atomic table of Registry: a look-up is a
\* stutter, an UPDATE that finds its row is a change, one that misses is a
\* stutter.
THEOREM ImplementsRegistryHolds == Spec => ImplementsRegistry
<1>1. Init => R!Init
  BY DEF Init, R!Init
<1>2. IInv /\ [Next]_vars => [R!Next]_(R!vars)
  <2> SUFFICES ASSUME IInv, [Next]_vars PROVE [R!Next]_(R!vars)
    OBVIOUS
  <2>1. ASSUME NEW id \in Id, NEW meta \in Meta, NEW password \in Secret,
               WorkersSubmit(id, meta, password)
        PROVE  R!Next
    <3> DEFINE row == [meta |-> meta, secret |-> password]
    <3>1. row \in R!Row
      BY DEF R!Row
    <3>2. R!Add(id)
      BY <2>1, <3>1 DEF WorkersSubmit, Store, R!Add
    <3> QED BY <3>2 DEF R!Next
  <2>2. ASSUME NEW id \in Id, WorkersDelete(id)
        PROVE  R!Next
    BY <2>2 DEF WorkersDelete, R!Remove, R!Next
  <2>3. ASSUME NEW r \in Request, Update(r) PROVE [R!Next]_(R!vars)
    <3>1. CASE UpdateMisses(r)
      BY <2>3, <3>1 DEF Update, UpdateMisses, R!vars
    <3>2. CASE UpdateRow(r)
      <4> DEFINE id == req[r].id
                 password == req[r].password
                 secret == IF password = Blank THEN workers[id].secret ELSE password
                 row == [meta |-> req[r].meta, secret |-> secret]
      <4>1. id \in Id /\ password \in Secret \cup {Blank} /\ req[r].meta \in Meta
        BY <2>3, ActivationCases DEF Update, IInv, TypeOK
      <4>2. id \in DOMAIN workers /\ secret \in Secret \cup {workers[id].secret}
        BY <3>2, <4>1 DEF UpdateRow
      <4>3. workers' = [k \in DOMAIN workers \cup {id} |-> IF k = id THEN row ELSE workers[k]]
        BY <3>2 DEF UpdateRow, Store
      <4>4. workers = [k \in DOMAIN workers |-> workers[k]]
        BY DEF IInv, TypeOK
      <4>5. DOMAIN workers \cup {id} = DOMAIN workers
        BY <4>2
      <4>6. workers' = [workers EXCEPT ![id] = row]
        BY <4>3, <4>4, <4>5
      <4>7. issued' = issued
        BY <2>3 DEF Update
      <4>8. R!Change(id)
        BY <4>1, <4>2, <4>6, <4>7 DEF R!Change
      <4> QED BY <4>1, <4>8 DEF R!Next
    <3> QED BY <2>3, <3>1, <3>2 DEF Update
  <2>4. ASSUME UNCHANGED tableVars PROVE UNCHANGED R!vars
    BY <2>4 DEF tableVars, R!vars
  <2>6. ASSUME NEW id \in Id, NEW r \in Request, NEW meta \in Meta,
               NEW password \in Secret \cup {Blank},
               WorkerUpdate(r, id, meta, password)
        PROVE  UNCHANGED tableVars
    BY <2>6 DEF WorkerUpdate
  <2>7. ASSUME NEW id \in Id, NEW r \in Request, BackendFor(r, id)
        PROVE  UNCHANGED tableVars
    BY <2>7 DEF BackendFor
  <2>5. ASSUME NEW r \in Request, CallStep(r)
        PROVE  UNCHANGED tableVars
    BY <2>5, CallSteps DEF Onward
  <2>8. ASSUME NEW r \in Request, UpdateFails(r)
        PROVE  UNCHANGED tableVars
    BY <2>8 DEF UpdateFails
  <2>9. CASE Restart \/ UNCHANGED vars
    BY <2>4, <2>9 DEF Restart, vars
  <2> QED
    BY <2>1, <2>2, <2>3, <2>4, <2>5, <2>6, <2>7, <2>8, <2>9 DEF Next, CallStep
<1> QED BY <1>1, <1>2, Inductive, PTL DEF Spec, ImplementsRegistry, R!Spec
=============================================================================
