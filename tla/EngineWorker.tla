---------------------------- MODULE EngineWorker ----------------------------
(***************************************************************************)
(* The engine worker (crates/ui/src/engine_worker.rs) over the cancelable  *)
(* database of module Cancellation.                                        *)
(*                                                                         *)
(* The user interface sends commands through an unbounded FIFO channel.    *)
(* The worker runs one request at a time as a spawned task; any command    *)
(* that arrives meanwhile first cancels that task: it asks the server,     *)
(* settles, and at a five second deadline aborts the task and says that    *)
(* the outcome is unknown. A task is a sequence of with_client operations: *)
(* catalogue look-ups, then the statement itself.                          *)
(***************************************************************************)
EXTENDS Cancellation, Sequences

CONSTANTS
    MaxRequest,  \* bound on the requests of one behaviour
    MaxCancel    \* bound on the CancelActive commands of one behaviour

ASSUME MaxRequestAssumption == MaxRequest \in Nat \ {0}
ASSUME MaxCancelAssumption == MaxCancel \in Nat

Request == 1 .. MaxRequest
CancelActive == 0
Closing == MaxRequest + 1  \* not a command: the channel is closed and empty
Command == Request \union {CancelActive}

VARIABLES
    commands,   \* the command channel
    submitted,  \* requests sent so far; a request is its number
    cancels,    \* CancelActive commands sent so far
    closed,     \* the user interface dropped its sender
    worker,     \* the worker's control state
    task,       \* the spawned task per request
    owner,      \* per generation: the request it works for, and what it is
    responses   \* the answers sent, in order

uiVars == <<commands, submitted, cancels, closed>>
vars == <<dbVars, uiVars, worker, task, owner, responses>>

-----------------------------------------------------------------------------
Answer == {"success", "error", "canceled", "unknown"}
\* A look-up changes nothing; a stale statement is one whose row identity
\* matched no row: it commits, changes nothing, and reads as StaleRow.
Purpose == {"lookup", "statement", "stale"}
WorkerState == [pc : {"receive", "serve", "cancel", "settle", "abort", "stopped"},
                active : Request \union {None},
                interrupt : Command \union {Closing},
                ready : BOOLEAN, expired : BOOLEAN, delivered : BOOLEAN]
TaskState == [stage : {"unborn", "running", "finished", "gone"},
              generation : Generation \union {None},
              outcome : Answer]

TypeOK ==
    /\ DbTypeOK
    /\ commands \in Seq(Command)
    /\ submitted \in 0 .. MaxRequest
    /\ cancels \in 0 .. MaxCancel
    /\ closed \in BOOLEAN
    /\ worker \in WorkerState
    /\ task \in [Request -> TaskState]
    /\ owner \in [Generation -> [request : Request \union {None}, purpose : Purpose]]
    /\ responses \in Seq([request : Request, answer : Answer])

Idle == [pc |-> "receive", active |-> None, interrupt |-> CancelActive,
         ready |-> FALSE, expired |-> FALSE, delivered |-> FALSE]
Stopped == [Idle EXCEPT !.pc = "stopped"]
Serving(r) == [Idle EXCEPT !.pc = "serve", !.active = r]

Init ==
    /\ DbInit
    /\ commands = <<>>
    /\ submitted = 0
    /\ cancels = 0
    /\ closed = FALSE
    /\ worker = Idle
    /\ task = [r \in Request |-> [stage |-> "unborn", generation |-> None, outcome |-> "unknown"]]
    /\ owner = [g \in Generation |-> [request |-> None, purpose |-> "lookup"]]
    /\ responses = <<>>

-----------------------------------------------------------------------------
(* The user interface: App::run_query and its siblings, request_cancel,    *)
(* signal_shutdown and the drop of the App.                                *)

Submit ==
    /\ ~closed
    /\ submitted < MaxRequest
    /\ submitted' = submitted + 1
    /\ commands' = Append(commands, submitted + 1)
    /\ UNCHANGED <<dbVars, cancels, closed, worker, task, owner, responses>>

RequestCancel ==
    /\ ~closed
    /\ cancels < MaxCancel
    /\ cancels' = cancels + 1
    /\ commands' = Append(commands, CancelActive)
    /\ UNCHANGED <<dbVars, submitted, closed, worker, task, owner, responses>>

Close ==
    /\ ~closed
    /\ closed' = TRUE
    /\ UNCHANGED <<dbVars, commands, submitted, cancels, worker, task, owner, responses>>

UserInterface == Submit \/ RequestCancel \/ Close

-----------------------------------------------------------------------------
(* The worker loop.                                                        *)

Spawned(r) == [task EXCEPT ![r].stage = "running"]

\* With nothing running a request starts; a CancelActive finds nothing to do.
Receive ==
    /\ worker.pc = "receive"
    /\ commands # <<>>
    /\ commands' = Tail(commands)
    /\ IF Head(commands) = CancelActive
       THEN UNCHANGED <<worker, task>>
       ELSE /\ worker' = Serving(Head(commands))
            /\ task' = Spawned(Head(commands))
    /\ UNCHANGED <<dbVars, submitted, cancels, closed, owner, responses>>

\* Mutant: the worker stops with requests still in the channel.
StopAtOnce ==
    /\ worker.pc = "receive"
    /\ closed
    /\ worker' = Stopped
    /\ UNCHANGED <<dbVars, uiVars, task, owner, responses>>

Stop ==
    /\ worker.pc = "receive"
    /\ commands = <<>>
    /\ closed
    /\ worker' = Stopped
    /\ UNCHANGED <<dbVars, uiVars, task, owner, responses>>

\* Any command, or the closed channel, interrupts the running request.
StartCanceling(interrupt) ==
    worker' = [worker EXCEPT !.pc = "cancel", !.interrupt = interrupt, !.ready = TRUE]

\* Mutant: the loop does not watch for the end of the channel.
InterruptByCommand ==
    /\ worker.pc = "serve"
    /\ commands # <<>>
    /\ StartCanceling(Head(commands))
    /\ commands' = Tail(commands)
    /\ UNCHANGED <<dbVars, submitted, cancels, closed, task, owner, responses>>

Interrupt ==
    /\ worker.pc = "serve"
    /\ \/ /\ commands # <<>>
          /\ StartCanceling(Head(commands))
          /\ commands' = Tail(commands)
       \/ /\ commands = <<>>
          /\ closed
          /\ StartCanceling(Closing)
          /\ UNCHANGED commands
    /\ UNCHANGED <<dbVars, submitted, cancels, closed, task, owner, responses>>

Active == task[worker.active]

\* Mutant: an abort by the server always reads as a cancellation.
OutcomeAsIs(answer) == answer

\* send_task_outcome: without a delivered cancellation an abort by the server
\* is an error like any other. send_cancellation_outcome passes it through.
TaskOutcome(answer) == IF answer = "canceled" THEN "error" ELSE answer
Respond(answer) == responses' = Append(responses, [request |-> worker.active, answer |-> answer])

\* Mutant: the answered task stays the active one.
ServeOutcomeAgain ==
    /\ worker.pc = "serve"
    /\ Active.stage = "finished"
    /\ Respond(TaskOutcome(Active.outcome))
    /\ UNCHANGED <<dbVars, uiVars, worker, task, owner>>

ServeOutcome ==
    /\ worker.pc = "serve"
    /\ Active.stage = "finished"
    /\ Respond(TaskOutcome(Active.outcome))
    /\ worker' = Idle
    /\ UNCHANGED <<dbVars, uiVars, task, owner>>

\* Mutant: whatever ended the request is taken for a request.
GoOnAlways == worker' = Serving(worker.interrupt)

\* After the answer handle_command goes on with the command that interrupted.
GoOn ==
    worker' = IF worker.interrupt \in Request THEN Serving(worker.interrupt)
              ELSE IF worker.interrupt = CancelActive THEN Idle ELSE Stopped
NextTasks(tasks) ==
    IF worker.interrupt \in Request
    THEN [tasks EXCEPT ![worker.interrupt].stage = "running"] ELSE tasks

-----------------------------------------------------------------------------
(* cancel_active_task_with: the select loop over the task, the deadline,   *)
(* the poll timer and cancel_current. The loop prefers an earlier branch   *)
(* only among those ready at the same poll; the task runs on while the     *)
(* loop polls, so every order of the events below can happen.              *)

\* Mutant: only the delivery of a cancellation is bounded, settling is not.
DeliveryDeadline ==
    /\ worker.pc = "cancel"
    /\ ~worker.expired
    /\ worker' = [worker EXCEPT !.expired = TRUE]
    /\ UNCHANGED <<dbVars, uiVars, task, owner, responses>>

Deadline ==
    /\ worker.pc \in {"cancel", "settle"}
    /\ ~worker.expired
    /\ worker' = [worker EXCEPT !.expired = TRUE]
    /\ UNCHANGED <<dbVars, uiVars, task, owner, responses>>

\* Leaving the loop drops a cancel_current future that is still suspended.
DropCancelCall ==
    /\ cancelCall' = NoCall
    /\ UNCHANGED <<generations, registered, op, connection, server, inFlight>>

CancelFindsOutcome ==
    /\ worker.pc = "cancel"
    /\ Active.stage = "finished"
    /\ Respond(TaskOutcome(Active.outcome))
    /\ GoOn
    /\ task' = NextTasks(task)
    /\ DropCancelCall
    /\ UNCHANGED <<uiVars, owner>>

CancelExpires ==
    /\ worker.pc = "cancel"
    /\ worker.expired
    /\ worker' = [worker EXCEPT !.pc = "abort"]
    /\ DropCancelCall
    /\ UNCHANGED <<uiVars, task, owner, responses>>

CancelPoll ==
    /\ worker.pc = "cancel"
    /\ ~worker.ready
    /\ worker' = [worker EXCEPT !.ready = TRUE]
    /\ UNCHANGED <<dbVars, uiVars, task, owner, responses>>

\* cancel_current: nothing registered is Ok(false) and is polled again; a
\* pending acquisition is Ok(true) at once; else the future goes on.
CancelFindsNothing ==
    /\ worker.pc = "cancel"
    /\ worker.ready
    /\ cancelCall = NoCall
    /\ ~Cancelable
    /\ worker' = [worker EXCEPT !.ready = FALSE]
    /\ UNCHANGED <<dbVars, uiVars, task, owner, responses>>

CancelMarks ==
    /\ worker.pc = "cancel"
    /\ worker.ready
    /\ MarkCanceled
    /\ worker' = [worker EXCEPT !.pc = IF CancelPending THEN "settle" ELSE @]
    /\ UNCHANGED <<uiVars, task, owner, responses>>

CancelWrites ==
    /\ worker.pc = "cancel"
    /\ WriteCancel
    /\ UNCHANGED <<uiVars, worker, task, owner, responses>>

CancelDelivered ==
    /\ worker.pc = "cancel"
    /\ cancelCall.written
    /\ EndCancel
    /\ worker' = [worker EXCEPT !.pc = "settle"]
    /\ UNCHANGED <<uiVars, task, owner, responses>>

CancelFails ==
    /\ worker.pc = "cancel"
    /\ EndCancel
    /\ worker' = [worker EXCEPT !.pc = "abort"]
    /\ UNCHANGED <<uiVars, task, owner, responses>>

CancelLoop ==
    \/ CancelFindsOutcome
    \/ CancelExpires
    \/ CancelPoll
    \/ CancelFindsNothing
    \/ CancelMarks
    \/ CancelWrites
    \/ CancelDelivered
    \/ CancelFails

-----------------------------------------------------------------------------
(* settle_after_cancellation_delivery_until, abort_with_unknown_outcome.   *)

Settle ==
    /\ worker.pc = "settle"
    /\ Active.stage = "finished"
    /\ Respond(Active.outcome)
    /\ GoOn
    /\ task' = NextTasks(task)
    /\ UNCHANGED <<dbVars, uiVars, owner>>

SettleExpires ==
    /\ worker.pc = "settle"
    /\ worker.expired
    /\ worker' = [worker EXCEPT !.pc = "abort", !.delivered = TRUE]
    /\ UNCHANGED <<dbVars, uiVars, task, owner, responses>>

\* The task completed before it noticed the abort: its result counts.
AbortFindsOutcome ==
    /\ worker.pc = "abort"
    /\ Active.stage = "finished"
    /\ Respond(IF worker.delivered THEN Active.outcome ELSE TaskOutcome(Active.outcome))
    /\ GoOn
    /\ task' = NextTasks(task)
    /\ UNCHANGED <<dbVars, uiVars, owner>>

Gone == [stage |-> "gone", generation |-> None, outcome |-> "unknown"]

\* Mutant: the task is detached instead of aborted.
LeaveOperation(r) == UNCHANGED dbVars

\* The task's future is dropped, and with it the operation it is in.
DropOperation(r) ==
    IF task[r].generation = None THEN UNCHANGED dbVars ELSE Drop(task[r].generation)

\* Mutant: an aborted request is reported as failed.
AbortAsError ==
    /\ worker.pc = "abort"
    /\ Active.stage = "running"
    /\ DropOperation(worker.active)
    /\ Respond("error")
    /\ GoOn
    /\ task' = NextTasks([task EXCEPT ![worker.active] = Gone])
    /\ UNCHANGED <<uiVars, owner>>

AbortDrops ==
    /\ worker.pc = "abort"
    /\ Active.stage = "running"
    /\ DropOperation(worker.active)
    /\ Respond("unknown")
    /\ GoOn
    /\ task' = NextTasks([task EXCEPT ![worker.active] = Gone])
    /\ UNCHANGED <<uiVars, owner>>

Worker ==
    \/ Receive
    \/ Stop
    \/ Interrupt
    \/ ServeOutcome
    \/ Deadline
    \/ CancelLoop
    \/ Settle
    \/ SettleExpires
    \/ AbortFindsOutcome
    \/ AbortDrops

-----------------------------------------------------------------------------
(* The task: DatabaseEngine::execute, crud and refresh_catalog.            *)

TaskEnds(r, outcome) ==
    task' = [task EXCEPT ![r] = [stage |-> "finished", generation |-> None,
                                 outcome |-> outcome]]

TaskBegins(r) ==
    /\ task[r].stage = "running"
    /\ task[r].generation = None
    /\ Begin
    /\ task' = [task EXCEPT ![r].generation = generations + 1]
    /\ \E purpose \in Purpose :
          owner' = [owner EXCEPT ![generations + 1] = [request |-> r, purpose |-> purpose]]
    /\ UNCHANGED <<uiVars, worker, responses>>

\* Between two operations the engine itself may refuse to go on: unparsable
\* SQL, an unsupported action, a row identity that no longer fits its table.
TaskRefuses(r) ==
    /\ task[r].stage = "running"
    /\ task[r].generation = None
    /\ TaskEnds(r, "error")
    /\ UNCHANGED <<dbVars, uiVars, worker, owner, responses>>

TaskProgresses(r) ==
    /\ task[r].stage = "running"
    /\ task[r].generation # None
    /\ Progress(task[r].generation)
    /\ UNCHANGED <<uiVars, worker, task, owner, responses>>

\* An operation returns to the task: a look-up leads on, all else ends it.
\* operation_error tells 57014 and OperationCanceled from other errors.
TaskReturns(r) ==
    LET g == task[r].generation
        purpose == owner[g].purpose
    IN  /\ task[r].stage = "running"
        /\ g # None
        /\ \/ /\ Return(g, "ok")
              /\ CASE purpose = "lookup" -> task' = [task EXCEPT ![r].generation = None]
                   [] purpose = "statement" -> TaskEnds(r, "success")
                   [] purpose = "stale" -> TaskEnds(r, "error")
           \/ Return(g, "failed") /\ TaskEnds(r, "error")
           \/ Return(g, "canceled") /\ TaskEnds(r, "canceled")
           \/ Return(g, "lost") /\ TaskEnds(r, "unknown")
        /\ UNCHANGED <<uiVars, worker, owner, responses>>

\* Mutant: a panic is reported as a failure.
PanicAsError(r) ==
    /\ task[r].stage = "running"
    /\ DropOperation(r)
    /\ TaskEnds(r, "error")
    /\ UNCHANGED <<uiVars, worker, owner, responses>>

\* A panic unwinds the task; tokio hands it to the worker as a JoinError.
TaskPanics(r) ==
    /\ task[r].stage = "running"
    /\ DropOperation(r)
    /\ TaskEnds(r, "unknown")
    /\ UNCHANGED <<uiVars, worker, owner, responses>>

Task(r) ==
    \/ TaskBegins(r)
    \/ TaskRefuses(r)
    \/ TaskProgresses(r)
    \/ TaskReturns(r)
    \/ TaskPanics(r)

Database == Environment /\ UNCHANGED <<uiVars, worker, task, owner, responses>>

Next ==
    \/ UserInterface
    \/ Worker
    \/ \E r \in Request : Task(r)
    \/ Database

\* Between the acquisition of a client and its activation there is no await.
Unsuspended(r) ==
    /\ TaskProgresses(r) \/ TaskReturns(r)
    /\ op[task[r].generation].stage = "acquired"

\* The worker and its timer are scheduled by the runtime. Nothing is assumed of
\* the server, of the network, or of how long a task takes.
Fairness ==
    /\ WF_vars(Receive \/ Stop \/ Interrupt)
    /\ WF_vars(Deadline)
    /\ WF_vars(CancelExpires)
    /\ WF_vars(SettleExpires)
    /\ WF_vars(Settle \/ AbortFindsOutcome \/ AbortDrops)
    /\ \A r \in Request : WF_vars(Unsuspended(r))

Spec == Init /\ [][Next]_vars
FairSpec == Spec /\ Fairness

-----------------------------------------------------------------------------
(* Properties.                                                             *)

Operations(r) == {g \in Generation : owner[g].request = r}

\* Every request is answered once, in the order of submission, and none is
\* skipped (engine_worker.rs, the loop of spawn_engine_worker).
AnsweredInOrder == \A i \in DOMAIN responses : responses[i].request = i

\* The registry has one slot because one operation is open at a time: no
\* operation begins before the one before it has been retired
\* (engine_worker.rs against cancellation.rs, begin).
OneOpenOperation ==
    \A g \in Generation : op[g].stage # "unborn" /\ ~Over(g) => g = generations

\* The change of a request is committed. Nothing of it is left on the server.
Applied(r) == \E g \in Operations(r) : owner[g].purpose = "statement" /\ server[g] = "committed"
Settled(r) ==
    \A g \in Operations(r) : server[g] \in {"none", "committed", "aborted", "canceled"}

\* A request may overlap on the server with an earlier one only if the earlier
\* one was reported as unknown (architecture.md, "Single active database task").
OverlapIsAdmitted ==
    \A i \in DOMAIN responses :
        Settled(responses[i].request) \/ responses[i].answer = "unknown"

\* Only a cancellation that poqi asked for is reported as a cancellation: an
\* operation of that request was marked (send_task_outcome against
\* send_cancellation_outcome).
CanceledOnlyOnRequest ==
    \A i \in DOMAIN responses :
        responses[i].answer = "canceled" =>
            \E g \in Operations(responses[i].request) : op[g].canceled

\* When the worker has stopped, every request was answered and no task, no
\* operation and no client is left behind.
StopsClean ==
    worker.pc = "stopped" =>
        /\ Len(responses) = submitted
        /\ \A r \in Request : task[r].stage # "running"
        /\ \A g \in 1 .. generations : Over(g)

\* The worker implements SingleFlight: success means committed, an error or a
\* cancellation means that nothing was and nothing ever will be committed.
FlightServing == IF worker.active \in Request THEN worker.active ELSE 0
FlightAnswers == [i \in DOMAIN responses |-> responses[i].answer]
FlightApplied == {r \in Request : Applied(r)}
Flight == INSTANCE SingleFlight
            WITH serving <- FlightServing, answers <- FlightAnswers, applied <- FlightApplied
ImplementsSingleFlight == Flight!FlightSpec

\* A request that has been interrupted is answered within the deadline,
\* whatever the server and the task do.
InterruptedIsAnswered ==
    \A r \in Request :
        worker.active = r /\ (commands # <<>> \/ closed \/ worker.pc \in {"cancel", "settle", "abort"})
            ~> Len(responses) >= r

\* Once the channel is closed the worker stops.
ShutdownCompletes == closed ~> worker.pc = "stopped"

\* "Cancellation tracks pending acquisition and the active client"
\* (architecture.md): while a delivered cancellation settles, the operation that
\* the request is in is one that was marked.
CancellationTracksActiveClient ==
    worker.pc = "settle" /\ registered # None => op[registered].canceled
=============================================================================
