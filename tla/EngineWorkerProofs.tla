------------------------- MODULE EngineWorkerProofs -------------------------
(***************************************************************************)
(* Proofs about module EngineWorker, for any number of requests, commands, *)
(* operations and connections.                                             *)
(***************************************************************************)
EXTENDS EngineWorker, CancellationProofs, SequenceTheorems

Interrupting == worker.pc \in {"cancel", "settle", "abort"}
Open(g) == op[g].stage # "unborn" /\ ~Over(g)

\* Where the worker is decides whether it has a request and a cancel call, and
\* it stops, or is about to, only when the channel is closed and empty.
Control ==
    /\ worker.active = None <=> worker.pc \in {"receive", "stopped"}
    /\ cancelCall.target # None => worker.pc = "cancel"
    /\ worker.delivered => worker.pc = "abort"
    /\ Interrupting /\ worker.interrupt = Closing => closed /\ commands = <<>>
    /\ worker.pc = "stopped" => closed /\ commands = <<>>

\* The requests the worker has taken: answered, active, waiting to follow.
Spawns == Len(responses) + (IF worker.active = None THEN 0 ELSE 1)
Taken == Spawns + (IF Interrupting /\ worker.interrupt \in Request THEN 1 ELSE 0)

\* Requests are taken and answered in the order of their numbers.
Line ==
    /\ worker.active # None => worker.active = Len(responses) + 1
    /\ Interrupting /\ worker.interrupt \in Request => worker.interrupt = Len(responses) + 2
    /\ Taken <= submitted
    /\ AnsweredInOrder

\* The channel holds, in order, exactly the requests that were not taken yet.
Queue ==
    /\ \A i \in 1 .. Len(commands) :
          commands[i] \in Request => Taken < commands[i] /\ commands[i] <= submitted
    /\ \A i, j \in 1 .. Len(commands) :
          i < j /\ commands[i] \in Request /\ commands[j] \in Request => commands[i] < commands[j]
    /\ \A r \in Request :
          Taken < r /\ r <= submitted => \E i \in 1 .. Len(commands) : commands[i] = r

\* Only the active request has a running task, and only its operation is open.
Tasks ==
    /\ \A r \in Request :
          /\ task[r].stage = "unborn" <=> r > Spawns
          /\ task[r].stage = "running" => r = worker.active
          /\ task[r].stage = "gone" => r <= Len(responses)
          /\ task[r].generation # None =>
                /\ task[r].stage = "running"
                /\ task[r].generation = generations
                /\ Open(task[r].generation)
                /\ owner[task[r].generation].request = r
    /\ \A g \in Generation :
          Open(g) => worker.active # None /\ task[worker.active].generation = g
    /\ \A g \in Generation : op[g].stage = "unborn" <=> owner[g].request = None

\* What became of its operations decides what the task of a request reports,
\* and that decides its answer.
Unknown(r) ==
    task[r].stage = "gone" \/ (task[r].stage = "finished" /\ task[r].outcome = "unknown")
Succeeded(r) == task[r].stage = "finished" /\ task[r].outcome = "success"
Reports ==
    /\ \A g \in Generation :
          op[g].stage \in {"dropped", "lost"} => Unknown(owner[g].request)
    /\ \A g \in Generation :
          op[g].stage = "ok" /\ owner[g].purpose = "statement" => Succeeded(owner[g].request)
    /\ \A r \in Request :
          Succeeded(r) => \E g \in Operations(r) : owner[g].purpose = "statement" /\ op[g].stage = "ok"
    /\ \A i \in 1 .. Len(responses) :
          IF task[i].stage = "gone" THEN responses[i].answer = "unknown"
          ELSE responses[i].answer \in {task[i].outcome, TaskOutcome(task[i].outcome)}

\* A cancellation that is under way or delivered has marked an operation of the
\* active request.
Marked(r) == \E g \in Operations(r) : op[g].canceled
Marks ==
    /\ cancelCall.target # None => owner[cancelCall.target].request = worker.active
    /\ worker.pc = "settle" \/ worker.delivered => Marked(worker.active)
    /\ CanceledOnlyOnRequest

WorkerInv == TypeOK /\ Control /\ Line /\ Queue /\ Tasks /\ Reports /\ Marks

-----------------------------------------------------------------------------
(* What the steps of the database do to the operations.                    *)

\* Every operation but g is left alone, and no mark is set or cleared.
OnlyMoves(g) ==
    /\ op' \in [Generation -> OperationState]
    /\ \A h \in Generation : op'[h].canceled = op[h].canceled
    /\ \A h \in Generation \ {g} : op'[h] = op[h]

LEMMA RetiredShape ==
  ASSUME DbTypeOK, NEW g \in Generation, NEW outcome \in Outcome, Retired(g, outcome)
  PROVE  OnlyMoves(g) /\ op'[g].stage = outcome
<1>1. op' \in [Generation -> OperationState]
  BY RetiredType
<1>2. op' = [op EXCEPT ![g].stage = outcome, ![g].retired = TRUE]
  BY DEF Retired
<1>3. op \in [Generation -> OperationState]
  BY DEF DbTypeOK
<1>4. /\ \A h \in Generation : op'[h].canceled = op[h].canceled
      /\ \A h \in Generation \ {g} : op'[h] = op[h]
      /\ op'[g].stage = outcome
  BY <1>2, <1>3 DEF OperationState
<1>5. QED
  BY <1>1, <1>4 DEF OnlyMoves

LEMMA ProgressShape ==
  ASSUME DbInv, DbTypeOK', NEW g \in Generation, Progress(g)
  PROVE  /\ OnlyMoves(g)
         /\ op'[g].stage \in {"acquired", "active"}
         /\ UNCHANGED <<generations, registered, cancelCall>>
  BY DEF Progress, Acquire, Activate, SendStatement, SendCommit, OnlyMoves, DbInv, DbTypeOK,
     OperationState

LEMMA ReturnShape ==
  ASSUME DbTypeOK, NEW g \in Generation, NEW outcome \in Outcome, Return(g, outcome)
  PROVE  /\ OnlyMoves(g)
         /\ op'[g].stage = outcome
         /\ op[g].stage \in {"acquiring", "acquired", "active"}
         /\ UNCHANGED <<generations, cancelCall>>
  BY RetiredShape DEF Return, FailAcquire, RefuseActivation, Finish, DropClient, Outcome

LEMMA DropShape ==
  ASSUME DbTypeOK, NEW g \in Generation, Drop(g)
  PROVE  /\ OnlyMoves(g)
         /\ op'[g].stage = "dropped"
         /\ UNCHANGED <<generations, cancelCall>>
  BY RetiredShape DEF Drop, DropWaiting, DropActive, DropClient, Outcome

LEMMA MarkShape ==
  ASSUME DbInv, MarkCanceled
  PROVE  /\ op' \in [Generation -> OperationState]
         /\ \A g \in Generation : op'[g].stage = op[g].stage
         /\ \A g \in Generation : op[g].canceled => op'[g].canceled
         /\ registered \in Generation /\ op'[registered].canceled /\ Open(registered)
         /\ cancelCall'.target \in {registered, None}
         /\ generations' = generations
<1>1. /\ registered \in Generation
      /\ Open(registered)
  BY DEF MarkCanceled, Cancelable, DbInv, DbTypeOK, Registry, Aging, Open, Over, Generation, None
<1>2. op' = [op EXCEPT ![registered].canceled = TRUE]
  BY DEF MarkCanceled
<1>3. op' \in [Generation -> OperationState]
  BY <1>1, <1>2 DEF DbInv, DbTypeOK, OperationState
<1>4. cancelCall'.target \in {registered, None}
  BY DEF MarkCanceled, NoCall
<1>5. QED
  BY <1>1, <1>2, <1>3, <1>4 DEF MarkCanceled, DbInv, DbTypeOK, OperationState

LEMMA EnvironmentShape ==
  ASSUME Environment
  PROVE  UNCHANGED <<generations, registered, op, cancelCall>>
  BY DEF Environment, ServerStep, CancelArrives, LoseConnection

-----------------------------------------------------------------------------
\* Types of the values that the worker's and the tasks' steps are made of.
LEMMA TakeCommand ==
  ASSUME commands \in Seq(Command), commands # <<>>
  PROVE  Head(commands) \in Command /\ Tail(commands) \in Seq(Command)
  OBVIOUS

LEMMA CommandCases ==
  ASSUME NEW c \in Command, c # CancelActive
  PROVE  c \in Request
  BY DEF Command

LEMMA RespondType ==
  ASSUME TypeOK, worker.active \in Request, NEW answer \in Answer, Respond(answer)
  PROVE  responses' \in Seq([request : Request, answer : Answer])
  BY DEF TypeOK, Respond

LEMMA GoOnType ==
  ASSUME TypeOK, GoOn
  PROVE  worker' \in WorkerState
<1>1. Idle \in WorkerState /\ Stopped \in WorkerState
  BY DEF Idle, Stopped, WorkerState, Command, None, CancelActive
<1>2. ASSUME NEW r \in Request
      PROVE  Serving(r) \in WorkerState
  BY <1>1 DEF Serving, WorkerState
<1>3. QED
  BY <1>1, <1>2 DEF GoOn

LEMMA NextTasksType ==
  ASSUME NEW tasks \in [Request -> TaskState]
  PROVE  NextTasks(tasks) \in [Request -> TaskState]
  BY DEF NextTasks, TaskState

LEMMA TaskEndsType ==
  ASSUME TypeOK, NEW r \in Request, NEW outcome \in Answer, TaskEnds(r, outcome)
  PROVE  task' \in [Request -> TaskState]
  BY DEF TypeOK, TaskEnds, TaskState

LEMMA ActiveType ==
  ASSUME TypeOK, Control, worker.pc \notin {"receive", "stopped"}
  PROVE  /\ worker.active \in Request
         /\ task[worker.active] \in TaskState
         /\ task[worker.active].outcome \in Answer
         /\ TaskOutcome(task[worker.active].outcome) \in Answer
<1>1. worker.active \in Request
  BY DEF TypeOK, Control, WorkerState
<1>2. task[worker.active] \in TaskState
  BY <1>1 DEF TypeOK
<1>3. task[worker.active].outcome \in Answer
  BY <1>2 DEF TaskState
<1>4. QED
  BY <1>1, <1>2, <1>3 DEF TaskOutcome, Answer

\* The worker and the tasks use the database only through its operations.
LEMMA WorkerStepIsDbStep ==
  ASSUME WorkerInv, DbInv, [Next]_vars
  PROVE  [DbNext]_dbVars
<1>1. CASE UserInterface
  BY <1>1 DEF UserInterface, Submit, RequestCancel, Close
<1>2. ASSUME DropCancelCall
      PROVE  [DbNext]_dbVars
  BY <1>2 DEF DropCancelCall, DbNext, EndCancel, DbInv, Canceling, dbVars
<1>3. ASSUME NEW r \in Request, DropOperation(r)
      PROVE  [DbNext]_dbVars
  <2>1. task[r].generation \in Generation \union {None}
    BY DEF WorkerInv, TypeOK, TaskState
  <2>2. QED
    BY <1>3, <2>1 DEF DropOperation, DbNext
<1>4. CASE Worker
  <2>1. CASE CancelLoop
    BY <1>2, <2>1 DEF CancelLoop, CancelFindsOutcome, CancelExpires, CancelPoll, CancelFindsNothing,
       CancelMarks, CancelWrites, CancelDelivered, CancelFails, DbNext
  <2>2. CASE AbortDrops
    BY <1>3, <2>2 DEF AbortDrops, WorkerInv, TypeOK, Control, WorkerState
  <2>3. QED
    BY <1>4, <2>1, <2>2 DEF Worker, Receive, Stop, Interrupt, ServeOutcome, Deadline, Settle,
       SettleExpires, AbortFindsOutcome
<1>5. ASSUME NEW r \in Request, Task(r)
      PROVE  [DbNext]_dbVars
  <2>1. task[r].generation \in Generation \union {None}
    BY DEF WorkerInv, TypeOK, TaskState
  <2>2. CASE TaskPanics(r)
    BY <1>3, <2>2 DEF TaskPanics
  <2>3. QED
    BY <1>5, <2>1, <2>2 DEF Task, TaskBegins, TaskRefuses, TaskProgresses, TaskReturns, DbNext, Outcome
<1>6. CASE Database
  BY <1>6 DEF Database, DbNext
<1>7. CASE UNCHANGED vars
  BY <1>7 DEF vars
<1>8. QED
  BY <1>1, <1>4, <1>5, <1>6, <1>7 DEF Next

LEMMA TypeStep ==
  ASSUME WorkerInv, DbInv, [Next]_vars, DbInv'
  PROVE  TypeOK'
<1> USE MaxRequestAssumption, MaxCancelAssumption DEF WorkerInv, DbInv, TypeOK, uiVars
<1>1. CASE UserInterface
  <2>1. CASE Submit
    <3>1. submitted + 1 \in Request /\ submitted' \in 0 .. MaxRequest
      BY <2>1 DEF Submit, Request
    <3>2. commands' \in Seq(Command)
      BY <2>1, <3>1 DEF Submit, Command
    <3>3. QED
      BY <2>1, <3>1, <3>2 DEF Submit
  <2>2. CASE RequestCancel
    <3>1. commands' \in Seq(Command)
      BY <2>2 DEF RequestCancel, Command
    <3>2. cancels' \in 0 .. MaxCancel
      BY <2>2 DEF RequestCancel
    <3>3. QED
      BY <2>2, <3>1, <3>2 DEF RequestCancel
  <2>3. CASE Close
    BY <2>3 DEF Close
  <2>4. QED
    BY <1>1, <2>1, <2>2, <2>3 DEF UserInterface
<1>2. CASE Receive
  <2>1. Head(commands) \in Command /\ Tail(commands) \in Seq(Command)
    BY <1>2, TakeCommand DEF Receive
  <2>2. CASE Head(commands) = CancelActive
    BY <1>2, <2>1, <2>2 DEF Receive
  <2>3. CASE Head(commands) # CancelActive
    <3>1. Head(commands) \in Request
      BY <2>1, <2>3, CommandCases
    <3>2. worker' \in WorkerState
      BY <1>2, <2>3, <3>1 DEF Receive, Serving, Idle, WorkerState, Command, CancelActive, None
    <3>3. task' \in [Request -> TaskState]
      BY <1>2, <2>3, <3>1 DEF Receive, Spawned, TaskState
    <3>4. QED
      BY <1>2, <2>1, <3>2, <3>3 DEF Receive
  <2>4. QED
    BY <2>2, <2>3
<1>3. CASE Stop
  BY <1>3 DEF Stop, Stopped, Idle, WorkerState, Command, CancelActive, None
<1>4. CASE Interrupt
  <2>1. commands' \in Seq(Command)
    BY <1>4, TakeCommand DEF Interrupt
  <2>2. \E interrupt \in Command \union {Closing} : StartCanceling(interrupt)
    BY <1>4, TakeCommand DEF Interrupt
  <2>3. worker' \in WorkerState
    BY <2>2 DEF StartCanceling, WorkerState
  <2>4. QED
    BY <1>4, <2>1, <2>3 DEF Interrupt
<1>5. CASE ServeOutcome
  <2>1. worker' \in WorkerState
    BY <1>5 DEF ServeOutcome, Idle, WorkerState, Command, CancelActive, None
  <2>2. QED
    BY <1>5, <2>1, ActiveType, RespondType DEF ServeOutcome, Active
<1>6. CASE Deadline \/ CancelExpires \/ CancelPoll \/ CancelFindsNothing \/ SettleExpires
  BY <1>6 DEF Deadline, CancelExpires, CancelPoll, CancelFindsNothing, SettleExpires, WorkerState
<1>7. CASE CancelMarks \/ CancelWrites \/ CancelDelivered \/ CancelFails
  BY <1>7 DEF CancelMarks, CancelWrites, CancelDelivered, CancelFails, WorkerState
<1>8. CASE CancelFindsOutcome \/ Settle \/ AbortFindsOutcome
  <2>1. worker' \in WorkerState
    BY <1>8, GoOnType DEF CancelFindsOutcome, Settle, AbortFindsOutcome
  <2>2. task' \in [Request -> TaskState]
    BY <1>8, NextTasksType DEF CancelFindsOutcome, Settle, AbortFindsOutcome
  <2>3. responses' \in Seq([request : Request, answer : Answer])
    BY <1>8, ActiveType, RespondType DEF CancelFindsOutcome, Settle, AbortFindsOutcome, Active
  <2>4. QED
    BY <1>8, <2>1, <2>2, <2>3 DEF CancelFindsOutcome, Settle, AbortFindsOutcome
<1>9. CASE AbortDrops
  <2>1. worker.active \in Request
    BY <1>9, ActiveType DEF AbortDrops
  <2>2. [task EXCEPT ![worker.active] = Gone] \in [Request -> TaskState]
    BY <2>1 DEF Gone, TaskState, Answer
  <2>3. task' \in [Request -> TaskState]
    BY <1>9, <2>2, NextTasksType DEF AbortDrops
  <2>4. responses' \in Seq([request : Request, answer : Answer])
    BY <1>9, <2>1, RespondType DEF AbortDrops, Answer
  <2>5. QED
    BY <1>9, <2>3, <2>4, GoOnType DEF AbortDrops
<1>10. ASSUME NEW r \in Request, TaskBegins(r)
       PROVE  TypeOK'
  <2>1. generations + 1 \in Generation
    BY <1>10 DEF TaskBegins, Begin, DbTypeOK, Generation
  <2>2. task' \in [Request -> TaskState]
    BY <1>10, <2>1 DEF TaskBegins, TaskState
  <2>3. owner' \in [Generation -> [request : Request \union {None}, purpose : Purpose]]
    BY <1>10, <2>1 DEF TaskBegins
  <2>4. QED
    BY <1>10, <2>2, <2>3 DEF TaskBegins
<1>11. ASSUME NEW r \in Request, TaskReturns(r)
       PROVE  TypeOK'
  <2>1. task' \in [Request -> TaskState]
    <3>1. CASE \E outcome \in Answer : TaskEnds(r, outcome)
      BY <3>1, TaskEndsType
    <3>2. CASE task' = [task EXCEPT ![r].generation = None]
      BY <3>2 DEF TaskState
    <3>3. task[r].generation # None
      BY <1>11 DEF TaskReturns
    <3>4. owner[task[r].generation].purpose \in Purpose
      BY <3>3 DEF TaskState
    <3>5. QED
      BY <1>11, <3>1, <3>2, <3>4 DEF TaskReturns, Purpose, Answer
  <2>2. QED
    BY <1>11, <2>1 DEF TaskReturns
<1>12. ASSUME NEW r \in Request, TaskRefuses(r) \/ TaskProgresses(r) \/ TaskPanics(r)
       PROVE  TypeOK'
  BY <1>12, TaskEndsType DEF TaskRefuses, TaskProgresses, TaskPanics, Answer
<1>13. CASE Database
  BY <1>13 DEF Database
<1>14. CASE UNCHANGED vars
  BY <1>14 DEF vars
<1>15. QED
  BY <1>1, <1>2, <1>3, <1>4, <1>5, <1>6, <1>7, <1>8, <1>9, <1>10, <1>11, <1>12, <1>13, <1>14
  DEF Next, Worker, CancelLoop, Task

-----------------------------------------------------------------------------
(* The steps of the worker fall into few classes.                          *)

\* A step inside the cancellation of the active request, before its answer.
Waits ==
    \/ Deadline \/ CancelExpires \/ CancelPoll \/ CancelFindsNothing \/ CancelMarks
    \/ CancelWrites \/ CancelDelivered \/ CancelFails \/ SettleExpires

\* A step that answers the active request and goes on with the interrupt.
Answers == CancelFindsOutcome \/ Settle \/ AbortFindsOutcome \/ AbortDrops

LEMMA StateFields ==
  /\ Idle.pc = "receive" /\ Idle.active = None /\ ~Idle.delivered
  /\ Stopped.pc = "stopped" /\ Stopped.active = None /\ ~Stopped.delivered
  /\ \A r : /\ Serving(r).pc = "serve" /\ Serving(r).active = r /\ ~Serving(r).delivered
  BY DEF Idle, Stopped, Serving

LEMMA NextCases ==
  ASSUME [Next]_vars
  PROVE  \/ Submit \/ RequestCancel \/ Close \/ Receive \/ Stop \/ Interrupt \/ ServeOutcome
         \/ Waits \/ Answers \/ (\E r \in Request : Task(r)) \/ Database \/ UNCHANGED vars
  BY DEF Next, UserInterface, Worker, CancelLoop, Waits, Answers

LEMMA WaitsFrame ==
  ASSUME TypeOK, Control, DbInv, Waits
  PROVE  /\ Interrupting /\ Interrupting'
         /\ worker'.active = worker.active /\ worker'.interrupt = worker.interrupt
         /\ cancelCall'.target # None => worker'.pc = "cancel"
         /\ worker'.delivered => worker'.pc = "abort"
         /\ UNCHANGED <<uiVars, task, owner, responses>>
<1> USE DEF Interrupting, TypeOK, WorkerState, Control
<1>1. CASE Deadline
  BY <1>1 DEF Deadline, dbVars
<1>2. CASE CancelExpires
  BY <1>2 DEF CancelExpires, DropCancelCall, NoCall
<1>3. CASE CancelPoll \/ CancelFindsNothing \/ SettleExpires
  BY <1>3 DEF CancelPoll, CancelFindsNothing, SettleExpires, dbVars
<1>4. CASE CancelMarks
  BY <1>4 DEF CancelMarks, MarkCanceled, NoCall
<1>5. CASE CancelWrites
  BY <1>5 DEF CancelWrites
<1>6. CASE CancelDelivered \/ CancelFails
  BY <1>6 DEF CancelDelivered, CancelFails, EndCancel, NoCall
<1>7. QED
  BY <1>1, <1>2, <1>3, <1>4, <1>5, <1>6 DEF Waits

LEMMA AnswersFrame ==
  ASSUME TypeOK, Control, DbInv, Answers
  PROVE  /\ Interrupting
         /\ worker.active \in Request
         /\ \E answer \in Answer : Respond(answer)
         /\ GoOn
         /\ cancelCall'.target = None
         /\ UNCHANGED <<uiVars, owner>>
<1>1. Interrupting
  BY DEF Answers, CancelFindsOutcome, Settle, AbortFindsOutcome, AbortDrops, Interrupting
<1>2. /\ worker.active \in Request
      /\ Active.outcome \in Answer
      /\ TaskOutcome(Active.outcome) \in Answer
  BY <1>1, ActiveType DEF Interrupting, Active
<1>3. \E answer \in Answer : Respond(answer)
  BY <1>2 DEF Answers, CancelFindsOutcome, Settle, AbortFindsOutcome, AbortDrops, Answer
<1>4. cancelCall'.target = None
  <2>1. CASE CancelFindsOutcome
    BY <2>1 DEF CancelFindsOutcome, DropCancelCall, NoCall
  <2>2. CASE Settle \/ AbortFindsOutcome
    BY <2>2 DEF Settle, AbortFindsOutcome, Control, dbVars
  <2>3. CASE AbortDrops
    <3>1. task[worker.active].generation \in Generation \union {None}
      BY <1>2 DEF TypeOK, TaskState
    <3>2. cancelCall' = cancelCall
      BY <2>3, <3>1, DropShape DEF AbortDrops, DropOperation, DbInv, dbVars
    <3>3. QED
      BY <2>3, <3>2 DEF AbortDrops, Control
  <2>4. QED
    BY <2>1, <2>2, <2>3 DEF Answers
<1>5. QED
  BY <1>1, <1>2, <1>3, <1>4
  DEF Answers, CancelFindsOutcome, Settle, AbortFindsOutcome, AbortDrops

LEMMA TaskFrame ==
  ASSUME TypeOK, DbInv, DbInv', NEW r \in Request, Task(r)
  PROVE  UNCHANGED <<uiVars, worker, responses, cancelCall>>
<1>1. task[r].generation \in Generation \union {None}
  BY DEF TypeOK, TaskState
<1>2. CASE TaskBegins(r)
  BY <1>2 DEF TaskBegins, Begin
<1>3. CASE TaskRefuses(r)
  BY <1>3 DEF TaskRefuses, dbVars
<1>4. CASE TaskProgresses(r)
  BY <1>1, <1>4, ProgressShape DEF TaskProgresses, DbInv
<1>5. CASE TaskReturns(r)
  BY <1>1, <1>5, ReturnShape DEF TaskReturns, DbInv, Outcome
<1>6. CASE TaskPanics(r)
  BY <1>1, <1>6, DropShape DEF TaskPanics, DropOperation, DbInv, dbVars
<1>7. QED
  BY <1>2, <1>3, <1>4, <1>5, <1>6 DEF Task

LEMMA DatabaseFrame ==
  ASSUME Database \/ UNCHANGED vars
  PROVE  UNCHANGED <<uiVars, worker, responses, cancelCall, task, owner, op, generations>>
  BY EnvironmentShape DEF Database, vars, dbVars

LEMMA GoOnShape ==
  ASSUME TypeOK, GoOn
  PROVE  /\ worker' \in {Idle, Stopped, Serving(worker.interrupt)}
         /\ worker' = Stopped => worker.interrupt = Closing
         /\ worker.interrupt \in Request <=> worker' = Serving(worker.interrupt)
<1>1. worker.interrupt \in Request \union {CancelActive, Closing}
  BY DEF TypeOK, WorkerState, Command
<1>2. Idle.pc = "receive" /\ Stopped.pc = "stopped" /\ Serving(worker.interrupt).pc = "serve"
  BY DEF Idle, Stopped, Serving
<1>3. QED
  BY <1>1, <1>2 DEF GoOn

LEMMA ControlStep ==
  ASSUME WorkerInv, DbInv, DbInv', [Next]_vars
  PROVE  Control'
<1> USE DEF WorkerInv, TypeOK, WorkerState, Control, Interrupting, uiVars
<1>1. CASE Submit \/ RequestCancel \/ Close
  BY <1>1 DEF Submit, RequestCancel, Close, dbVars
<1>2. CASE Receive
  <2>1. cancelCall' = cancelCall /\ closed' = closed /\ worker.pc = "receive"
    BY <1>2 DEF Receive, dbVars
  <2>2. worker' = worker \/ \E r \in Request : worker' = Serving(r)
    BY <1>2, TakeCommand, CommandCases DEF Receive
  <2>3. CASE worker' = worker
    BY <2>1, <2>3
  <2>4. ASSUME NEW r \in Request, worker' = Serving(r)
        PROVE  Control'
    BY <2>1, <2>4, StateFields DEF Request, None
  <2>5. QED
    BY <2>2, <2>3, <2>4
<1>3. CASE Stop \/ ServeOutcome
  BY <1>3, StateFields DEF Stop, ServeOutcome, dbVars
<1>4. CASE Interrupt
  <2>1. cancelCall' = cancelCall /\ closed' = closed /\ worker.pc = "serve"
    BY <1>4 DEF Interrupt, dbVars
  <2>2. PICK interrupt : StartCanceling(interrupt) /\ (interrupt = Closing => closed /\ commands' = <<>>)
    <3>1. \A c \in Command : c # Closing
      BY MaxRequestAssumption DEF Command, Request, Closing, CancelActive
    <3>2. QED
      BY <1>4, <3>1, TakeCommand DEF Interrupt
  <2>3. QED
    BY <2>1, <2>2 DEF StartCanceling
<1>5. CASE Waits
  BY <1>5, WaitsFrame
<1>6. CASE Answers
  <2>1. /\ Interrupting /\ UNCHANGED uiVars /\ cancelCall'.target = None
        /\ worker' \in {Idle, Stopped, Serving(worker.interrupt)}
        /\ worker' = Stopped => worker.interrupt = Closing
        /\ worker.interrupt \in Request <=> worker' = Serving(worker.interrupt)
    BY <1>6, AnswersFrame, GoOnShape
  <2>2. \A r \in Request : r # None
    BY DEF Request, None
  <2>3. QED
    BY <2>1, <2>2, StateFields
<1>7. CASE (\E r \in Request : Task(r)) \/ Database \/ UNCHANGED vars
  BY <1>7, TaskFrame, DatabaseFrame
<1>8. QED
  BY <1>1, <1>2, <1>3, <1>4, <1>5, <1>6, <1>7, NextCases

-----------------------------------------------------------------------------
(* The channel and the order of the answers.                               *)

LEMMA TakenType ==
  ASSUME TypeOK
  PROVE  Spawns \in Nat /\ Taken \in Nat /\ Len(responses) \in Nat /\ submitted \in Nat
<1>1. Len(responses) \in Nat /\ submitted \in Nat
  BY MaxRequestAssumption DEF TypeOK
<1>2. Spawns \in Nat
  BY <1>1 DEF Spawns
<1>3. Taken \in Nat
  BY <1>2 DEF Taken
<1>4. QED
  BY <1>1, <1>2, <1>3

LEMMA QueueHead ==
  ASSUME TypeOK, Line, Queue, commands # <<>>, Head(commands) \in Request
  PROVE  Head(commands) = Taken + 1 /\ Taken + 1 <= submitted
<1>1. /\ Taken \in Nat /\ submitted \in Nat /\ submitted <= MaxRequest
      /\ Len(commands) \in Nat \ {0} /\ Head(commands) = commands[1]
      /\ \A i \in 1 .. Len(commands) : commands[i] \in Command
  BY TakenType, MaxRequestAssumption DEF TypeOK
<1>2. Taken < Head(commands) /\ Head(commands) <= submitted
  BY <1>1 DEF Queue
<1>3. Taken + 1 \in Request
  BY <1>1, <1>2, MaxRequestAssumption DEF Request
<1>4. PICK i \in 1 .. Len(commands) : commands[i] = Taken + 1
  BY <1>1, <1>2, <1>3 DEF Queue, Request
<1>5. CASE i = 1
  BY <1>1, <1>2, <1>4, <1>5
<1>6. CASE i # 1
  BY <1>1, <1>2, <1>3, <1>4, <1>6 DEF Queue, Request
<1>7. QED
  BY <1>5, <1>6

LEMMA QueueTail ==
  ASSUME TypeOK, Line, Queue, commands # <<>>, commands' = Tail(commands),
         submitted' = submitted,
         Taken' = IF Head(commands) \in Request THEN Taken + 1 ELSE Taken
  PROVE  Queue'
<1> DEFINE n == Len(commands)
<1>1. /\ n \in Nat \ {0} /\ Head(commands) = commands[1]
      /\ Len(commands') = n - 1
      /\ \A i \in 1 .. n - 1 : commands'[i] = commands[i + 1]
      /\ \A i \in 1 .. n : commands[i] \in Command
      /\ Taken \in Nat /\ submitted \in Nat
  BY TakenType DEF TypeOK
<1>2. Head(commands) \in Request => Head(commands) = Taken + 1
  BY QueueHead
<1>3. ASSUME NEW i \in 1 .. Len(commands'), commands'[i] \in Request
      PROVE  Taken' < commands'[i] /\ commands'[i] <= submitted'
  <2>1. i + 1 \in 1 .. n /\ 1 \in 1 .. n /\ 1 < i + 1 /\ commands'[i] = commands[i + 1]
    BY <1>1
  <2>2. Taken < commands[i + 1] /\ commands[i + 1] <= submitted
    BY <1>3, <2>1 DEF Queue
  <2>3. Head(commands) \in Request => commands[1] < commands[i + 1]
    BY <1>1, <1>3, <2>1 DEF Queue
  <2>4. QED
    BY <1>1, <1>2, <1>3, <2>1, <2>2, <2>3 DEF Request
<1>4. ASSUME NEW i \in 1 .. Len(commands'), NEW j \in 1 .. Len(commands'), i < j,
             commands'[i] \in Request, commands'[j] \in Request
      PROVE  commands'[i] < commands'[j]
  BY <1>1, <1>4 DEF Queue
<1>5. ASSUME NEW r \in Request, Taken' < r, r <= submitted'
      PROVE  \E i \in 1 .. Len(commands') : commands'[i] = r
  <2>1. Taken < r /\ r # Head(commands)
    BY <1>1, <1>2, <1>5 DEF Request
  <2>2. PICK i \in 1 .. n : commands[i] = r
    BY <1>5, <2>1 DEF Queue
  <2>3. i # 1 /\ i - 1 \in 1 .. n - 1
    BY <1>1, <2>1, <2>2
  <2>4. commands'[i - 1] = r
    BY <1>1, <2>2, <2>3
  <2>5. QED
    BY <1>1, <2>3, <2>4
<1>6. QED
  BY <1>3, <1>4, <1>5 DEF Queue

LEMMA QueueAppend ==
  ASSUME TypeOK, Line, Queue, Taken' = Taken, NEW c \in Command,
         commands' = Append(commands, c),
         \/ c = CancelActive /\ submitted' = submitted
         \/ c = submitted + 1 /\ submitted' = submitted + 1
  PROVE  Queue'
<1> DEFINE n == Len(commands)
<1>1. /\ n \in Nat /\ Len(commands') = n + 1 /\ commands'[n + 1] = c
      /\ \A i \in 1 .. n : commands'[i] = commands[i]
      /\ Taken \in Nat /\ submitted \in Nat /\ Taken <= submitted
      /\ CancelActive \notin Request
  BY TakenType DEF TypeOK, Line, CancelActive, Request
<1>2. ASSUME NEW i \in 1 .. Len(commands'), commands'[i] \in Request
      PROVE  Taken' < commands'[i] /\ commands'[i] <= submitted'
  BY <1>1, <1>2 DEF Queue, Request
<1>3. ASSUME NEW i \in 1 .. Len(commands'), NEW j \in 1 .. Len(commands'), i < j,
             commands'[i] \in Request, commands'[j] \in Request
      PROVE  commands'[i] < commands'[j]
  BY <1>1, <1>3 DEF Queue, Request
<1>4. ASSUME NEW r \in Request, Taken' < r, r <= submitted'
      PROVE  \E i \in 1 .. Len(commands') : commands'[i] = r
  BY <1>1, <1>4 DEF Queue, Request
<1>5. QED
  BY <1>2, <1>3, <1>4 DEF Queue

\* Answering hands the number of the next request on to the interrupt.
LEMMA AnswersCount ==
  ASSUME TypeOK, TypeOK', Control, Line, DbInv, Answers
  PROVE  /\ Taken' = Taken
         /\ Len(responses') = Len(responses) + 1
         /\ responses'[Len(responses')].request = worker.active
         /\ \A i \in 1 .. Len(responses) : responses'[i] = responses[i]
         /\ worker'.active = None \/ worker'.active = Len(responses') + 1
         /\ ~Interrupting'
         /\ submitted' = submitted
<1>1. PICK answer \in Answer : Respond(answer)
  BY AnswersFrame
<1>2. /\ Interrupting /\ worker.active \in Request /\ submitted' = submitted
      /\ worker' \in {Idle, Stopped, Serving(worker.interrupt)}
      /\ worker.interrupt \in Request <=> worker' = Serving(worker.interrupt)
  BY AnswersFrame, GoOnShape DEF uiVars
<1>3. /\ responses \in Seq([request : Request, answer : Answer])
      /\ responses' = Append(responses, [request |-> worker.active, answer |-> answer])
  BY <1>1 DEF TypeOK, Respond
<1>4. /\ Len(responses') = Len(responses) + 1 /\ Len(responses) \in Nat
      /\ responses'[Len(responses')].request = worker.active
      /\ \A i \in 1 .. Len(responses) : responses'[i] = responses[i]
  BY <1>2, <1>3
<1>5. CASE worker.interrupt \in Request
  BY <1>2, <1>4, <1>5, StateFields DEF Line, Taken, Spawns, Interrupting, Request, None
<1>6. CASE worker.interrupt \notin Request
  <2>1. worker'.active = None /\ ~Interrupting'
    BY <1>2, <1>6, StateFields DEF Interrupting
  <2>2. Taken = Len(responses) + 1
    <3>1. worker.active # None
      BY <1>2 DEF Request, None
    <3>2. QED
      BY <1>4, <1>6, <3>1 DEF Taken, Spawns
  <2>3. Taken' = Len(responses')
    BY <1>4, <2>1 DEF Taken, Spawns
  <2>4. QED
    BY <1>2, <1>4, <2>1, <2>2, <2>3
<1>7. QED
  BY <1>2, <1>4, <1>5, <1>6

\* Taking a command, with nothing running or as an interrupt.
LEMMA ReceiveCount ==
  ASSUME TypeOK, Control, Line, Queue, Receive
  PROVE  /\ Taken' = IF Head(commands) \in Request THEN Taken + 1 ELSE Taken
         /\ worker'.active # None => worker'.active = Len(responses) + 1
         /\ ~Interrupting'
<1>1. /\ worker.pc = "receive" /\ worker.active = None /\ commands # <<>>
      /\ responses' = responses /\ Len(responses) \in Nat
  BY TakenType DEF Receive, Control
<1>2. Taken = Len(responses)
  BY <1>1 DEF Taken, Spawns, Interrupting
<1>3. CASE Head(commands) = CancelActive
  <2>1. worker' = worker /\ Head(commands) \notin Request
    BY <1>3 DEF Receive, CancelActive, Request
  <2>2. QED
    BY <1>1, <1>2, <2>1 DEF Taken, Spawns, Interrupting
<1>4. CASE Head(commands) # CancelActive
  <2>1. Head(commands) \in Request
    BY <1>1, <1>4, TakeCommand, CommandCases DEF TypeOK
  <2>2. worker'.pc = "serve" /\ worker'.active = Head(commands)
    BY <1>4, StateFields DEF Receive
  <2>3. Head(commands) = Len(responses) + 1
    BY <1>1, <1>2, <2>1, QueueHead
  <2>4. worker'.active # None /\ ~Interrupting'
    BY <2>1, <2>2 DEF Request, None, Interrupting
  <2>5. QED
    BY <1>1, <1>2, <2>1, <2>2, <2>3, <2>4 DEF Taken, Spawns
<1>5. QED
  BY <1>3, <1>4

LEMMA InterruptCount ==
  ASSUME TypeOK, Control, Line, Queue, Interrupt
  PROVE  /\ worker'.active = worker.active /\ Interrupting'
         /\ commands # <<>> =>
               /\ worker'.interrupt = Head(commands)
               /\ Taken' = IF Head(commands) \in Request THEN Taken + 1 ELSE Taken
               /\ Head(commands) \in Request => Head(commands) = Len(responses) + 2
         /\ commands = <<>> => worker'.interrupt = Closing /\ Taken' = Taken
<1>1. \A interrupt : StartCanceling(interrupt) =>
          worker'.active = worker.active /\ worker'.interrupt = interrupt /\ worker'.pc = "cancel"
  BY DEF StartCanceling, TypeOK, WorkerState
<1>2. worker.pc = "serve" /\ worker.active # None /\ responses' = responses
  BY DEF Interrupt, Control
<1>3. Closing \notin Request
  BY MaxRequestAssumption DEF Closing, Request
<1>4. CASE commands # <<>>
  <2>1. /\ worker'.active = worker.active /\ worker'.interrupt = Head(commands)
        /\ worker'.pc = "cancel"
    BY <1>1, <1>4 DEF Interrupt
  <2>2. Taken = Len(responses) + 1 /\ Len(responses) \in Nat
    BY <1>2, TakenType DEF Taken, Spawns, Interrupting
  <2>3. Taken' = IF Head(commands) \in Request THEN Taken + 1 ELSE Taken
    BY <1>2, <2>1, <2>2 DEF Taken, Spawns, Interrupting
  <2>4. Head(commands) \in Request => Head(commands) = Len(responses) + 2
    BY <1>4, <2>2, QueueHead
  <2>5. QED
    BY <1>4, <2>1, <2>3, <2>4 DEF Interrupting
<1>5. CASE commands = <<>>
  BY <1>1, <1>2, <1>3, <1>5 DEF Interrupt, Taken, Spawns, Interrupting
<1>6. QED
  BY <1>4, <1>5

LEMMA LineStep ==
  ASSUME WorkerInv, DbInv, DbInv', TypeOK', [Next]_vars
  PROVE  Line' /\ Queue'
<1> USE TakenType DEF WorkerInv
<1>1. CASE Submit
  <2>1. /\ Taken' = Taken /\ submitted' = submitted + 1 /\ submitted + 1 \in Command
        /\ commands' = Append(commands, submitted + 1)
        /\ UNCHANGED <<worker, responses>>
    BY <1>1 DEF Submit, Taken, Spawns, Interrupting, Command, Request, TypeOK
  <2>2. QED
    BY <2>1, QueueAppend DEF Line, AnsweredInOrder, Interrupting
<1>2. CASE RequestCancel
  <2>1. /\ Taken' = Taken /\ submitted' = submitted /\ CancelActive \in Command
        /\ commands' = Append(commands, CancelActive)
        /\ UNCHANGED <<worker, responses>>
    BY <1>2 DEF RequestCancel, Taken, Spawns, Interrupting, Command
  <2>2. QED
    BY <2>1, QueueAppend DEF Line, AnsweredInOrder, Interrupting
<1>3. CASE Close \/ (\E r \in Request : Task(r)) \/ Database \/ UNCHANGED vars
  <2>1. UNCHANGED <<commands, submitted, worker, responses>>
    BY <1>3, TaskFrame, DatabaseFrame DEF Close, uiVars
  <2>2. QED
    BY <2>1 DEF Line, Queue, Taken, Spawns, AnsweredInOrder, Interrupting
<1>4. CASE Receive
  <2>1. /\ commands # <<>> /\ commands' = Tail(commands)
        /\ UNCHANGED <<submitted, responses>>
    BY <1>4 DEF Receive
  <2>2. Queue'
    BY <1>4, <2>1, ReceiveCount, QueueTail
  <2>3. Line'
    BY <1>4, <2>1, ReceiveCount, QueueHead DEF Line, AnsweredInOrder
  <2>4. QED
    BY <2>2, <2>3
<1>5. CASE Interrupt
  <2>1. UNCHANGED <<submitted, responses>>
    BY <1>5 DEF Interrupt
  <2>2. CASE commands # <<>>
    <3>1. commands' = Tail(commands)
      BY <1>5, <2>2 DEF Interrupt
    <3>2. Queue'
      BY <1>5, <2>1, <2>2, <3>1, InterruptCount, QueueTail
    <3>3. Line'
      BY <1>5, <2>1, <2>2, InterruptCount, QueueHead DEF Line, AnsweredInOrder
    <3>4. QED
      BY <3>2, <3>3
  <2>3. CASE commands = <<>>
    <3>1. commands' = commands /\ Closing \notin Request
      BY <1>5, <2>3, MaxRequestAssumption DEF Interrupt, Closing, Request
    <3>2. QED
      BY <1>5, <2>1, <2>3, <3>1, InterruptCount DEF Line, Queue, AnsweredInOrder
  <2>4. QED
    BY <2>2, <2>3
<1>6. CASE Stop
  <2>1. Taken' = Taken /\ ~Interrupting' /\ worker'.active = None
    BY <1>6, StateFields DEF Stop, Control, Taken, Spawns, Interrupting
  <2>2. UNCHANGED <<commands, submitted, responses>>
    BY <1>6 DEF Stop, uiVars
  <2>3. QED
    BY <2>1, <2>2 DEF Line, Queue, AnsweredInOrder
<1>7. CASE ServeOutcome
  <2>1. /\ worker.active \in Request /\ UNCHANGED <<commands, submitted>>
        /\ \E answer : Respond(answer)
        /\ worker.pc = "serve" /\ worker' = Idle
    BY <1>7, ActiveType DEF ServeOutcome, uiVars
  <2>2. /\ Len(responses') = Len(responses) + 1
        /\ responses'[Len(responses')].request = worker.active
        /\ \A i \in 1 .. Len(responses) : responses'[i] = responses[i]
    BY <2>1 DEF Respond, TypeOK
  <2>3. Taken' = Taken /\ ~Interrupting' /\ worker'.active = None
    BY <2>1, <2>2, StateFields DEF Taken, Spawns, Interrupting, Request, None
  <2>4. Line'
    BY <2>1, <2>2, <2>3 DEF Line, AnsweredInOrder, Request, None
  <2>5. QED
    BY <2>1, <2>3, <2>4 DEF Queue
<1>8. CASE Waits
  <2>1. Taken' = Taken /\ UNCHANGED <<commands, submitted, responses>>
    BY <1>8, WaitsFrame DEF Taken, Spawns, uiVars
  <2>2. QED
    BY <1>8, <2>1, WaitsFrame DEF Line, Queue, AnsweredInOrder
<1>9. CASE Answers
  <2>1. UNCHANGED <<commands, submitted>>
    BY <1>9, AnswersFrame DEF uiVars
  <2>2. Line'
    BY <1>9, <2>1, AnswersCount, AnswersFrame DEF Line, AnsweredInOrder, Request, None
  <2>3. QED
    BY <1>9, <2>1, <2>2, AnswersCount DEF Queue
<1>10. QED
  BY <1>1, <1>2, <1>3, <1>4, <1>5, <1>6, <1>7, <1>8, <1>9, NextCases

-----------------------------------------------------------------------------
(* The tasks and their operations.                                         *)

LEMMA TasksKept ==
  ASSUME TypeOK, Tasks, UNCHANGED <<task, owner, generations>>, worker'.active = worker.active,
         Spawns' = Spawns, Len(responses') = Len(responses),
         \A g \in Generation : op'[g].stage = op[g].stage
  PROVE  Tasks'
<1>1. \A g \in Generation : Open(g)' <=> Open(g)
  BY DEF Open, Over
<1>2. \A g \in Generation : op'[g].stage = "unborn" <=> owner'[g].request = None
  BY DEF Tasks
<1>3. \A g \in Generation :
          Open(g)' => worker'.active # None /\ task'[worker'.active].generation = g
  BY <1>1 DEF Tasks
<1>4. ASSUME NEW r \in Request
      PROVE  /\ task'[r].stage = "unborn" <=> r > Spawns'
             /\ task'[r].stage = "running" => r = worker'.active
             /\ task'[r].stage = "gone" => r <= Len(responses')
  BY DEF Tasks
<1>5. ASSUME NEW r \in Request, task'[r].generation # None
      PROVE  /\ task'[r].stage = "running"
             /\ task'[r].generation = generations'
             /\ Open(task[r].generation)'
             /\ owner'[task'[r].generation].request = r
  <2>1. task[r].generation \in Generation
    BY <1>5 DEF TypeOK, TaskState
  <2>2. QED
    BY <1>1, <1>5, <2>1 DEF Tasks
<1>6. QED
  BY <1>2, <1>3, <1>4, <1>5 DEF Tasks

LEMMA NoneOpen ==
  ASSUME TypeOK, Tasks, NEW r \in Request, task[r].stage = "running", task[r].generation = None
  PROVE  \A g \in Generation : ~Open(g)
  BY DEF Tasks, Generation, None

\* The worker starts the next request in line; no operation is open.
LEMMA TasksSpawn ==
  ASSUME TypeOK, Tasks, Spawns \in Nat, Spawns + 1 \in Request,
         \A g \in Generation : ~Open(g)',
         \A g \in Generation : op'[g].stage = "unborn" <=> op[g].stage = "unborn",
         UNCHANGED <<owner, generations>>,
         NEW tasks \in [Request -> TaskState],
         \A r \in Request : task[r].stage = "unborn" <=> tasks[r].stage = "unborn",
         \A r \in Request : tasks[r].stage # "running" /\ tasks[r].generation = None,
         \A r \in Request : tasks[r].stage = "gone" => r <= Len(responses'),
         task' = [tasks EXCEPT ![Spawns + 1].stage = "running"],
         worker'.active = Spawns + 1, Spawns' = Spawns + 1
  PROVE  Tasks'
<1>1. \A r \in Request :
          /\ r # Spawns + 1 => task'[r] = tasks[r]
          /\ r = Spawns + 1 => task'[r].stage = "running" /\ task'[r].generation = None
  BY DEF TaskState
<1>2. \A r \in Request : task'[r].stage = "unborn" <=> r > Spawns'
  BY <1>1 DEF Tasks, Request
<1>3. QED
  BY <1>1, <1>2 DEF Tasks

\* The worker is left without a request.
LEMMA TasksRest ==
  ASSUME TypeOK, Tasks, Spawns' = Spawns,
         \A g \in Generation : ~Open(g)',
         \A g \in Generation : op'[g].stage = "unborn" <=> op[g].stage = "unborn",
         UNCHANGED <<owner, generations>>,
         \A r \in Request : task[r].stage = "unborn" <=> task'[r].stage = "unborn",
         \A r \in Request : task'[r].stage # "running" /\ task'[r].generation = None,
         \A r \in Request : task'[r].stage = "gone" => r <= Len(responses')
  PROVE  Tasks'
  BY DEF Tasks

\* An operation that is dropped or returns leaves none open, and touches no other.
LEMMA Closes ==
  ASSUME TypeOK, DbInv, Tasks, NEW r \in Request, task[r].stage = "running",
         DropOperation(r) \/ (task[r].generation # None /\ \E outcome \in Outcome : Return(task[r].generation, outcome))
  PROVE  /\ \A g \in Generation : ~Open(g)'
         /\ \A g \in Generation : op'[g].stage = "unborn" <=> op[g].stage = "unborn"
         /\ \A g \in Generation : op'[g].canceled = op[g].canceled
         /\ \A g \in Generation : g # task[r].generation => op'[g] = op[g]
         /\ UNCHANGED <<generations, cancelCall>>
<1> DEFINE g == task[r].generation
<1>1. g \in Generation \union {None}
  BY DEF TypeOK, TaskState
<1>2. CASE g = None
  <2>1. UNCHANGED <<op, generations, cancelCall>>
    BY <1>2 DEF DropOperation, dbVars
  <2>2. QED
    BY <1>2, <2>1, NoneOpen DEF Open, Over
<1>3. CASE g # None
  <2>1. g \in Generation /\ Open(g) /\ \A h \in Generation : h # g => ~Open(h)
    BY <1>1, <1>3 DEF Tasks
  <2>2. /\ OnlyMoves(g) /\ op'[g].stage \in Outcome
        /\ UNCHANGED <<generations, cancelCall>>
    BY <1>3, <2>1, ReturnShape, DropShape DEF DropOperation, DbInv, Outcome
  <2>3. \A h \in Generation : h # g => op'[h] = op[h]
    BY <2>2 DEF OnlyMoves
  <2>4. QED
    BY <2>1, <2>2, <2>3 DEF Open, Over, OnlyMoves, Outcome
<1>4. QED
  BY <1>2, <1>3

LEMMA TasksTask ==
  ASSUME TypeOK, TypeOK', DbInv, DbInv', Control, Line, Tasks, NEW r \in Request, Task(r)
  PROVE  Tasks'
<1>1. /\ worker' = worker /\ responses' = responses
      /\ task[r].stage = "running" /\ r = worker.active /\ r <= Spawns /\ r # None
  <2>1. UNCHANGED <<uiVars, worker, responses>>
    BY TaskFrame
  <2>2. task[r].stage = "running"
    BY DEF Task, TaskBegins, TaskRefuses, TaskProgresses, TaskReturns, TaskPanics
  <2>3. r # None /\ Spawns \in Nat
    BY TakenType DEF Request, None
  <2>4. r = worker.active /\ r <= Spawns
    BY <2>2, <2>3 DEF Tasks, Request
  <2>5. QED
    BY <2>1, <2>2, <2>3, <2>4
<1>2. Spawns' = Spawns
  BY <1>1 DEF Spawns
<1>3. CASE TaskBegins(r)
  <2> DEFINE n == generations + 1
  <2>1. /\ task[r].generation = None /\ generations' = n /\ n \in Generation
        /\ op' = [op EXCEPT ![n].stage = "acquiring"]
        /\ task' = [task EXCEPT ![r].generation = n]
    BY <1>3 DEF TaskBegins, Begin, DbInv, DbTypeOK, Generation
  <2>2. PICK purpose \in Purpose : owner' = [owner EXCEPT ![n] = [request |-> r, purpose |-> purpose]]
    BY <1>3 DEF TaskBegins
  <2>3. \A g \in Generation : IF g = n THEN op'[g].stage = "acquiring" ELSE op'[g].stage = op[g].stage
    BY <2>1 DEF DbInv, DbTypeOK, OperationState
  <2>4. \A g \in Generation : Open(g)' <=> g = n
    BY <1>1, <2>1, <2>3, NoneOpen DEF Open, Over, Outcome
  <2>5. \A g \in Generation : IF g = n THEN owner'[g].request = r ELSE owner'[g] = owner[g]
    BY <2>1, <2>2 DEF TypeOK
  <2>6. \A s \in Request :
           /\ task'[s].stage = task[s].stage
           /\ task'[s].generation = IF s = r THEN n ELSE task[s].generation
    BY <2>1 DEF TypeOK, TaskState
  <2>7. \A s \in Request : s # r => task[s].generation = None
    BY <1>1 DEF Tasks
  <2>8. ASSUME NEW s \in Request
        PROVE  /\ task'[s].stage = "unborn" <=> s > Spawns'
               /\ task'[s].stage = "running" => s = worker'.active
               /\ task'[s].stage = "gone" => s <= Len(responses')
               /\ task'[s].generation # None =>
                     s = r /\ task'[s].stage = "running" /\ task'[s].generation = n
    BY <1>1, <1>2, <2>6, <2>7 DEF Tasks
  <2>9. \A g \in Generation : op'[g].stage = "unborn" <=> owner'[g].request = None
    BY <1>1, <2>3, <2>5 DEF Tasks
  <2>10. \A s \in Request : task'[s].generation # None =>
            /\ task'[s].generation \in Generation
            /\ op'[task'[s].generation].stage = "acquiring"
            /\ owner'[task'[s].generation].request = s
    BY <2>1, <2>3, <2>5, <2>8
  <2>11. QED
    BY <1>1, <2>1, <2>4, <2>6, <2>8, <2>9, <2>10 DEF Tasks, Open, Over, Outcome
<1>4. CASE TaskProgresses(r)
  <2> DEFINE g == task[r].generation
  <2>1. g \in Generation /\ Open(g)
    BY <1>4 DEF TaskProgresses, TypeOK, TaskState, Tasks
  <2>2. /\ OnlyMoves(g) /\ op'[g].stage \in {"acquired", "active"}
        /\ UNCHANGED <<generations, task, owner>>
    BY <1>4, <2>1, ProgressShape DEF TaskProgresses, DbInv
  <2>3. \A h \in Generation : (Open(h)' <=> Open(h)) /\ (op'[h].stage = "unborn" <=> op[h].stage = "unborn")
    BY <2>1, <2>2 DEF OnlyMoves, Open, Over, Outcome
  <2>4. \A s \in Request : task[s].generation # None => task[s].generation \in Generation
    BY DEF TypeOK, TaskState
  <2>5. \A s \in Request : task[s].generation # None => Open(task[s].generation)'
    BY <2>2, <2>3, <2>4 DEF Tasks
  <2>6. QED
    BY <1>1, <1>2, <2>2, <2>3, <2>5 DEF Tasks
<1>5. CASE TaskRefuses(r) \/ TaskReturns(r) \/ TaskPanics(r)
  <2>1. UNCHANGED <<owner, generations>>
    BY <1>5, <1>1, Closes DEF TaskRefuses, TaskReturns, TaskPanics, dbVars, Outcome
  <2>2. /\ \A g \in Generation : ~Open(g)'
        /\ \A g \in Generation : op'[g].stage = "unborn" <=> op[g].stage = "unborn"
    <3>1. CASE TaskRefuses(r)
      BY <1>1, <3>1, NoneOpen DEF TaskRefuses, dbVars, Open, Over
    <3>2. CASE TaskReturns(r) \/ TaskPanics(r)
      BY <1>1, <3>2, Closes DEF TaskReturns, TaskPanics, Outcome
    <3>3. QED
      BY <1>5, <3>1, <3>2
  <2>3. (\E outcome \in Answer : TaskEnds(r, outcome)) \/ task' = [task EXCEPT ![r].generation = None]
    <3>1. task[r].generation # None => owner[task[r].generation].purpose \in Purpose
      BY DEF TypeOK, TaskState
    <3>2. QED
      BY <1>5, <3>1 DEF TaskRefuses, TaskReturns, TaskPanics, Answer, Purpose
  <2>4. \A s \in Request :
           /\ s # r => task'[s] = task[s]
           /\ task'[r].stage \in {"running", "finished"} /\ task'[r].generation = None
    <3>1. ASSUME NEW outcome \in Answer, TaskEnds(r, outcome)
          PROVE  task' = [task EXCEPT ![r] = [stage |-> "finished", generation |-> None,
                                              outcome |-> outcome]]
      BY <3>1 DEF TaskEnds
    <3>2. CASE \E outcome \in Answer : TaskEnds(r, outcome)
      BY <3>1, <3>2 DEF TypeOK
    <3>3. CASE task' = [task EXCEPT ![r].generation = None]
      BY <1>1, <3>3 DEF TypeOK, TaskState
    <3>4. QED
      BY <2>3, <3>2, <3>3
  <2>5. \A s \in Request : s # r => task[s].generation = None /\ task[s].stage # "running"
    BY <1>1 DEF Tasks
  <2>6. \A s \in Request :
           /\ task'[s].generation = None
           /\ task'[s].stage = "unborn" <=> task[s].stage = "unborn"
           /\ task'[s].stage = "running" => s = worker.active
           /\ task'[s].stage = "gone" => task[s].stage = "gone"
    BY <1>1, <2>4, <2>5
  <2>7. QED
    BY <1>1, <1>2, <2>1, <2>2, <2>6 DEF Tasks
<1>6. QED
  BY <1>3, <1>4, <1>5 DEF Task

LEMMA TasksStep ==
  ASSUME WorkerInv, DbInv, DbInv', TypeOK', [Next]_vars
  PROVE  Tasks'
<1> USE DEF WorkerInv
<1>1. CASE Submit \/ RequestCancel \/ Close \/ Stop \/ Interrupt \/ Database \/ UNCHANGED vars
  <2>1. /\ UNCHANGED <<task, owner, generations, responses, op>>
        /\ worker'.active = worker.active
    BY <1>1, DatabaseFrame, StateFields
    DEF Submit, RequestCancel, Close, Stop, Interrupt, dbVars, uiVars, Control,
        StartCanceling, TypeOK, WorkerState
  <2>2. QED
    BY <2>1, TasksKept DEF Spawns
<1>2. CASE Waits
  <2>1. UNCHANGED <<task, owner, responses>> /\ worker'.active = worker.active
    BY <1>2, WaitsFrame
  <2>2. generations' = generations /\ \A g \in Generation : op'[g].stage = op[g].stage
    BY <1>2, MarkShape
    DEF Waits, Deadline, CancelExpires, DropCancelCall, CancelPoll, CancelFindsNothing, CancelMarks,
        CancelWrites, WriteCancel, CancelDelivered, CancelFails, EndCancel, SettleExpires, dbVars
  <2>3. QED
    BY <2>1, <2>2, TasksKept DEF Spawns
<1>3. CASE Receive
  <2>1. UNCHANGED <<op, generations, owner, responses>> /\ worker.pc = "receive" /\ worker.active = None
    BY <1>3 DEF Receive, dbVars, Control
  <2>2. CASE Head(commands) = CancelActive
    BY <1>3, <2>1, <2>2, TasksKept DEF Receive, Spawns
  <2>3. CASE Head(commands) # CancelActive
    <3>1. Head(commands) \in Request /\ Head(commands) = Taken + 1
      BY <1>3, <2>3, TakeCommand, CommandCases, QueueHead DEF Receive, TypeOK
    <3>2. Taken = Spawns /\ Spawns \in Nat /\ Spawns = Len(responses)
      BY <2>1, TakenType DEF Taken, Spawns, Interrupting
    <3>3. worker'.active = Spawns + 1 /\ task' = [task EXCEPT ![Spawns + 1].stage = "running"]
      BY <1>3, <2>3, <3>1, <3>2, StateFields DEF Receive, Spawned
    <3>4. Spawns' = Spawns + 1
      BY <2>1, <3>2, <3>3 DEF Spawns, None
    <3>5. \A g \in Generation : ~Open(g)
      BY <2>1 DEF Tasks
    <3>6. \A r \in Request :
             /\ task[r].stage # "running" /\ task[r].generation = None
             /\ task[r].stage = "gone" => r <= Len(responses')
      BY <2>1 DEF Tasks, Request, None
    <3>7. QED
      BY <2>1, <3>1, <3>2, <3>3, <3>4, <3>5, <3>6, TasksSpawn DEF TypeOK, Open, Over
  <2>4. QED
    BY <2>2, <2>3
<1>4. CASE ServeOutcome
  <2>1. /\ UNCHANGED <<op, generations, owner, task>> /\ worker.pc = "serve"
        /\ worker.active \in Request /\ task[worker.active].stage = "finished"
        /\ worker' = Idle /\ Len(responses') = Len(responses) + 1
    BY <1>4, ActiveType DEF ServeOutcome, dbVars, Active, Respond, TypeOK
  <2>2. Spawns' = Spawns
    BY <2>1, StateFields, TakenType DEF Spawns, Request, None
  <2>3. \A r \in Request : task[r].stage # "running" /\ task[r].generation = None
    BY <2>1 DEF Tasks
  <2>4. \A g \in Generation : ~Open(g)
    BY <2>1, <2>3 DEF Tasks, Generation, None
  <2>5. \A r \in Request : task[r].stage = "gone" => r <= Len(responses')
    BY <2>1, TakenType DEF Tasks, Request
  <2>6. QED
    BY <2>1, <2>2, <2>3, <2>4, <2>5, TasksRest DEF Open, Over
<1>5. CASE Answers
  <2>1. /\ Interrupting /\ worker.active \in Request /\ UNCHANGED <<uiVars, owner>>
        /\ worker' \in {Idle, Stopped, Serving(worker.interrupt)}
        /\ worker.interrupt \in Request <=> worker' = Serving(worker.interrupt)
        /\ Len(responses') = Len(responses) + 1
        /\ Len(responses) \in Nat /\ Spawns \in Nat
        /\ worker.active = Len(responses) + 1 /\ Spawns = Len(responses) + 1
    BY <1>5, AnswersFrame, AnswersCount, GoOnShape, TakenType DEF Line, Spawns, Request, None
  <2>2. PICK tasks \in [Request -> TaskState] :
           /\ task' = NextTasks(tasks)
           /\ tasks = task \/ tasks = [task EXCEPT ![worker.active] = Gone]
           /\ tasks[worker.active].stage \in {"finished", "gone"}
           /\ tasks[worker.active].generation = None
    <3>1. CASE CancelFindsOutcome \/ Settle \/ AbortFindsOutcome
      <4>1. task' = NextTasks(task) /\ task[worker.active].stage = "finished"
        BY <3>1 DEF CancelFindsOutcome, Settle, AbortFindsOutcome, Active
      <4>2. task[worker.active].generation = None
        BY <2>1, <4>1 DEF Tasks
      <4>3. QED
        BY <4>1, <4>2 DEF TypeOK
    <3>2. CASE AbortDrops
      <4> DEFINE tasks == [task EXCEPT ![worker.active] = Gone]
      <4>1. tasks \in [Request -> TaskState] /\ tasks[worker.active] = Gone
        BY <2>1 DEF TypeOK, Gone, TaskState, Answer
      <4> USE <4>1
      <4>2. WITNESS tasks \in [Request -> TaskState]
      <4>3. QED
        BY <3>2, <4>1 DEF AbortDrops, Gone
    <3>3. QED
      BY <1>5, <3>1, <3>2 DEF Answers
  <2>3. /\ \A g \in Generation : ~Open(g)'
        /\ \A g \in Generation : op'[g].stage = "unborn" <=> op[g].stage = "unborn"
        /\ generations' = generations
    <3>1. CASE CancelFindsOutcome \/ Settle \/ AbortFindsOutcome
      <4>1. task[worker.active].stage = "finished" /\ UNCHANGED <<op, generations>>
        BY <3>1 DEF CancelFindsOutcome, DropCancelCall, Settle, AbortFindsOutcome, Active, dbVars
      <4>2. \A g \in Generation : ~Open(g)
        BY <2>1, <4>1 DEF Tasks, Generation, None
      <4>3. QED
        BY <4>1, <4>2 DEF Open, Over
    <3>2. CASE AbortDrops
      BY <2>1, <3>2, Closes DEF AbortDrops, Active
    <3>3. QED
      BY <1>5, <3>1, <3>2 DEF Answers
  <2>4. \A r \in Request :
           /\ task[r].stage = "unborn" <=> tasks[r].stage = "unborn"
           /\ tasks[r].stage # "running" /\ tasks[r].generation = None
           /\ tasks[r].stage = "gone" => r <= Len(responses')
    <3>1. \A r \in Request : r # worker.active => tasks[r] = task[r]
      BY <2>1, <2>2 DEF TypeOK
    <3>2. task[worker.active].stage # "unborn"
      BY <2>1 DEF Tasks
    <3>3. ASSUME NEW r \in Request, r # worker.active
          PROVE  /\ task[r].stage # "running" /\ task[r].generation = None
                 /\ task[r].stage = "gone" => r <= Len(responses')
      BY <2>1, <3>3 DEF Tasks, Request
    <3>4. QED
      BY <2>1, <2>2, <3>1, <3>2, <3>3
  <2>5. CASE worker.interrupt \in Request
    <3>1. worker.interrupt = Spawns + 1 /\ worker'.active = Spawns + 1
      BY <2>1, <2>5, StateFields DEF Line
    <3>2. task' = [tasks EXCEPT ![Spawns + 1].stage = "running"]
      BY <2>2, <2>5, <3>1 DEF NextTasks
    <3>3. Spawns' = Spawns + 1
      BY <2>1, <3>1 DEF Spawns, None
    <3>4. QED
      BY <2>1, <2>2, <2>3, <2>4, <2>5, <3>1, <3>2, <3>3, TasksSpawn
  <2>6. CASE worker.interrupt \notin Request
    <3>1. task' = tasks /\ worker'.active = None
      BY <2>1, <2>2, <2>6, StateFields DEF NextTasks
    <3>2. Spawns' = Spawns
      BY <2>1, <3>1 DEF Spawns
    <3>3. QED
      BY <2>1, <2>3, <2>4, <3>1, <3>2, TasksRest
  <2>7. QED
    BY <2>5, <2>6
<1>6. CASE \E r \in Request : Task(r)
  BY <1>6, TasksTask
<1>7. QED
  BY <1>1, <1>2, <1>3, <1>4, <1>5, <1>6, NextCases

-----------------------------------------------------------------------------
(* What the tasks and the answers report.                                  *)

\* An answered request has a task that has ended; the active one is not answered.
LEMMA AnsweredEnded ==
  ASSUME TypeOK, Line, Tasks
  PROVE  /\ \A i \in 1 .. Len(responses) : i \in Request /\ task[i].stage \in {"finished", "gone"}
         /\ \A i \in 1 .. Len(responses) : i # worker.active
<1>1. Len(responses) \in Nat /\ Spawns \in Nat /\ Taken \in Nat /\ submitted \in Nat
      /\ submitted <= MaxRequest /\ Taken <= submitted /\ MaxRequest \in Nat
  BY TakenType, MaxRequestAssumption DEF TypeOK, Line
<1>2. Spawns <= Taken /\ Len(responses) <= Spawns
  <2>1. Len(responses) <= Spawns
    BY <1>1 DEF Spawns
  <2>2. Spawns <= Taken
    BY <1>1 DEF Taken
  <2>3. QED
    BY <2>1, <2>2
<1>3. ASSUME NEW i \in 1 .. Len(responses)
      PROVE  i \in Request /\ i # worker.active /\ ~(i > Spawns)
  BY <1>1, <1>2 DEF Line, Request, None
<1>4. \A i \in 1 .. Len(responses) : task[i].stage \in {"unborn", "running", "finished", "gone"}
  BY <1>3 DEF TypeOK, TaskState
<1>5. QED
  BY <1>3, <1>4 DEF Tasks

\* The operations whose outcome decides the report of their request.
Telling(g) ==
    \/ op[g].stage \in {"dropped", "lost"}
    \/ op[g].stage = "ok" /\ owner[g].purpose = "statement"

LEMMA TellingOwner ==
  ASSUME TypeOK, Tasks, NEW g \in Generation, op[g].stage # "unborn"
  PROVE  owner[g].request \in Request
  BY DEF TypeOK, Tasks

LEMMA ReportsKept ==
  ASSUME TypeOK, Line, Tasks, Reports,
         \A g \in Generation : Telling(g) \/ Telling(g)' =>
             op'[g].stage = op[g].stage /\ owner'[g] = owner[g],
         \A r \in Request :
             task[r].stage \in {"finished", "gone"} \/ task'[r].stage \in {"finished", "gone"} =>
                 task'[r] = task[r],
         responses' = responses
  PROVE  Reports'
<1>1. \A r \in Request : (Unknown(r)' <=> Unknown(r)) /\ (Succeeded(r)' <=> Succeeded(r))
  BY DEF Unknown, Succeeded
<1>2. ASSUME NEW g \in Generation, Telling(g)'
      PROVE  /\ op'[g].stage = op[g].stage /\ owner'[g] = owner[g] /\ owner[g].request \in Request
  <2>1. op'[g].stage = op[g].stage /\ owner'[g] = owner[g]
    BY <1>2
  <2>2. op[g].stage # "unborn"
    BY <1>2, <2>1 DEF Telling
  <2>3. QED
    BY <2>1, <2>2, TellingOwner
<1>3. ASSUME NEW g \in Generation, op'[g].stage \in {"dropped", "lost"}
      PROVE  Unknown(owner[g].request)'
  <2>1. /\ op'[g].stage = op[g].stage /\ owner'[g] = owner[g] /\ owner[g].request \in Request
    BY <1>2, <1>3 DEF Telling
  <2>2. Unknown(owner[g].request)
    BY <1>3, <2>1 DEF Reports
  <2>3. QED
    BY <1>1, <2>1, <2>2 DEF Unknown
<1>4. ASSUME NEW g \in Generation, op'[g].stage = "ok", owner'[g].purpose = "statement"
      PROVE  Succeeded(owner[g].request)'
  <2>1. /\ op'[g].stage = op[g].stage /\ owner'[g] = owner[g] /\ owner[g].request \in Request
    BY <1>2, <1>4 DEF Telling
  <2>2. Succeeded(owner[g].request)
    BY <1>4, <2>1 DEF Reports
  <2>3. QED
    BY <1>1, <2>1, <2>2 DEF Succeeded
<1>5. ASSUME NEW r \in Request, Succeeded(r)'
      PROVE  \E g \in Operations(r)' : owner'[g].purpose = "statement" /\ op'[g].stage = "ok"
  <2>1. PICK g \in Operations(r) : owner[g].purpose = "statement" /\ op[g].stage = "ok"
    BY <1>1, <1>5 DEF Reports
  <2>2. g \in Generation /\ owner[g].request = r /\ op'[g].stage = op[g].stage /\ owner'[g] = owner[g]
    BY <2>1 DEF Operations, Telling
  <2>3. QED
    BY <2>1, <2>2 DEF Operations
<1>6. \A i \in 1 .. Len(responses) : task'[i] = task[i]
  BY AnsweredEnded
<1>7. \A i \in 1 .. Len(responses') :
          IF task'[i].stage = "gone" THEN responses'[i].answer = "unknown"
          ELSE responses'[i].answer \in {task'[i].outcome, TaskOutcome(task'[i].outcome)}
  BY <1>6 DEF Reports
<1>8. QED
  BY <1>3, <1>4, <1>5, <1>7 DEF Reports

\* The answers fit the tasks that have ended.
AnswersFit ==
    \A i \in 1 .. Len(responses) :
        IF task[i].stage = "gone" THEN responses[i].answer = "unknown"
        ELSE responses[i].answer \in {task[i].outcome, TaskOutcome(task[i].outcome)}

\* The running task of r ends, or goes on without its operation g.
LEMMA ReportsEnd ==
  ASSUME TypeOK, Tasks, Reports, NEW r \in Request, task[r].stage = "running", AnswersFit',
         owner' = owner,
         \A s \in Request :
             s # r /\ (task[s].stage \in {"finished", "gone"} \/ task'[s].stage \in {"finished", "gone"}) =>
                 task'[s] = task[s],
         \A g \in Generation : g # task[r].generation => op'[g].stage = op[g].stage,
         NEW stage,
         task[r].generation # None => stage = op'[task[r].generation].stage,
         task[r].generation # None /\ stage \in {"dropped", "lost"} => Unknown(r)',
         task[r].generation # None /\ stage = "ok" /\ owner[task[r].generation].purpose = "statement" =>
             Succeeded(r)',
         Succeeded(r)' => task[r].generation # None /\ stage = "ok"
                          /\ owner[task[r].generation].purpose = "statement"
  PROVE  Reports'
<1> DEFINE h == task[r].generation
<1>1. h \in Generation \union {None} /\ (h # None => owner[h].request = r)
  BY DEF TypeOK, TaskState, Tasks
<1>2. ~Unknown(r) /\ ~Succeeded(r)
  BY DEF Unknown, Succeeded
<1>3. ASSUME NEW s \in Request, s # r
      PROVE  (Unknown(s)' <=> Unknown(s)) /\ (Succeeded(s)' <=> Succeeded(s))
  BY <1>3 DEF Unknown, Succeeded
<1>4. ASSUME NEW g \in Generation, op'[g].stage \in {"dropped", "lost"}
      PROVE  Unknown(owner[g].request)'
  <2>1. CASE g = h
    BY <1>1, <1>4, <2>1 DEF Generation, None
  <2>2. CASE g # h
    <3>1. op[g].stage = op'[g].stage
      BY <2>2
    <3>2. Unknown(owner[g].request) /\ owner[g].request \in Request
      BY <1>4, <3>1, TellingOwner DEF Reports
    <3>3. owner[g].request # r
      BY <1>2, <3>2
    <3>4. QED
      BY <1>3, <3>2, <3>3 DEF Unknown
  <2>3. QED
    BY <2>1, <2>2
<1>5. ASSUME NEW g \in Generation, op'[g].stage = "ok", owner'[g].purpose = "statement"
      PROVE  Succeeded(owner[g].request)'
  <2>1. CASE g = h
    BY <1>1, <1>5, <2>1 DEF Generation, None
  <2>2. CASE g # h
    <3>1. op[g].stage = op'[g].stage
      BY <2>2
    <3>2. Succeeded(owner[g].request) /\ owner[g].request \in Request
      BY <1>5, <3>1, TellingOwner DEF Reports
    <3>3. owner[g].request # r
      BY <1>2, <3>2
    <3>4. QED
      BY <1>3, <3>2, <3>3 DEF Succeeded
  <2>3. QED
    BY <2>1, <2>2
<1>6. ASSUME NEW s \in Request, Succeeded(s)'
      PROVE  \E g \in Operations(s)' : owner'[g].purpose = "statement" /\ op'[g].stage = "ok"
  <2>1. CASE s = r
    BY <1>1, <1>6, <2>1 DEF Operations
  <2>2. CASE s # r
    <3>1. PICK g \in Operations(s) : owner[g].purpose = "statement" /\ op[g].stage = "ok"
      BY <1>3, <1>6, <2>2 DEF Reports
    <3>2. g \in Generation /\ g # h /\ owner[g].request = s
      BY <1>1, <2>2, <3>1 DEF Operations, Generation, None
    <3>3. op'[g].stage = op[g].stage
      BY <3>2
    <3>4. QED
      BY <3>1, <3>2, <3>3 DEF Operations
  <2>3. QED
    BY <2>1, <2>2
<1>7. QED
  BY <1>4, <1>5, <1>6 DEF Reports, AnswersFit

\* The answer to the active request repeats what its task has reported.
LEMMA AnswerFits ==
  ASSUME TypeOK, Line, Tasks, Reports, worker.active \in Request,
         NEW answer, Respond(answer),
         \A s \in Request :
             s # worker.active /\ task[s].stage \in {"finished", "gone"} => task'[s] = task[s],
         IF task'[worker.active].stage = "gone" THEN answer = "unknown"
         ELSE answer \in {task'[worker.active].outcome, TaskOutcome(task'[worker.active].outcome)}
  PROVE  AnswersFit'
<1>1. /\ Len(responses') = Len(responses) + 1 /\ Len(responses) \in Nat
      /\ responses'[Len(responses) + 1].answer = answer
      /\ \A i \in 1 .. Len(responses) : responses'[i] = responses[i]
  BY DEF Respond, TypeOK
<1>2. worker.active = Len(responses) + 1
  BY DEF Line, Request, None
<1>3. \A i \in 1 .. Len(responses) : task'[i] = task[i]
  BY AnsweredEnded
<1>4. ASSUME NEW i \in 1 .. Len(responses')
      PROVE  IF task'[i].stage = "gone" THEN responses'[i].answer = "unknown"
             ELSE responses'[i].answer \in {task'[i].outcome, TaskOutcome(task'[i].outcome)}
  <2>1. CASE i = Len(responses) + 1
    BY <1>1, <1>2, <2>1
  <2>2. CASE i # Len(responses) + 1
    BY <1>1, <1>3, <2>2 DEF Reports
  <2>3. QED
    BY <2>1, <2>2
<1>5. QED
  BY <1>4 DEF AnswersFit

LEMMA ReportsTask ==
  ASSUME TypeOK, DbInv, DbInv', Control, Line, Tasks, Reports, NEW r \in Request, Task(r)
  PROVE  Reports'
<1> DEFINE h == task[r].generation
<1>1. /\ responses' = responses /\ worker' = worker
      /\ task[r].stage = "running"
      /\ h \in Generation \union {None}
  BY TaskFrame DEF TypeOK, TaskState, Task, TaskBegins, TaskRefuses, TaskProgresses, TaskReturns,
     TaskPanics
<1>2. CASE TaskBegins(r)
  <2> DEFINE n == generations + 1
  <2>1. n \in Generation /\ op[n].stage = "unborn"
    BY <1>2 DEF TaskBegins, Begin, DbInv, DbTypeOK, Aging, Generation
  <2>2. op' = [op EXCEPT ![n].stage = "acquiring"] /\ task' = [task EXCEPT ![r].generation = n]
    BY <1>2 DEF TaskBegins, Begin
  <2>3. \A g \in Generation : g # n => op'[g] = op[g] /\ owner'[g] = owner[g]
    BY <1>2, <2>1, <2>2 DEF TaskBegins, TypeOK, DbInv, DbTypeOK
  <2>4. op'[n].stage = "acquiring"
    BY <2>1, <2>2 DEF DbInv, DbTypeOK, OperationState
  <2>5. \A s \in Request : task'[s].stage = task[s].stage /\ (s # r => task'[s] = task[s])
    BY <2>2 DEF TypeOK, TaskState
  <2>6. QED
    BY <1>1, <2>1, <2>3, <2>4, <2>5, ReportsKept DEF Telling
<1>3. CASE TaskProgresses(r)
  <2>1. h \in Generation /\ Open(h) /\ UNCHANGED <<task, owner>>
    BY <1>1, <1>3 DEF TaskProgresses, Tasks
  <2>2. OnlyMoves(h) /\ op'[h].stage \in {"acquired", "active"}
    BY <1>3, <2>1, ProgressShape DEF TaskProgresses, DbInv
  <2>3. QED
    BY <1>1, <2>1, <2>2, ReportsKept DEF Telling, OnlyMoves, Open, Over, Outcome
<1>4. ASSUME TaskRefuses(r) \/ TaskReturns(r) \/ TaskPanics(r)
      PROVE  owner' = owner /\ \A g \in Generation : g # h => op'[g].stage = op[g].stage
  BY <1>1, <1>4, Closes DEF TaskRefuses, TaskReturns, TaskPanics, dbVars, Outcome
<1>5. ASSUME NEW outcome \in Answer, TaskEnds(r, outcome)
      PROVE  /\ \A s \in Request : s # r => task'[s] = task[s]
             /\ task'[r].stage = "finished" /\ task'[r].outcome = outcome
  BY <1>5 DEF TypeOK, TaskEnds
<1>6. ASSUME \A s \in Request : s # r => task'[s] = task[s]
      PROVE  AnswersFit'
  <2>1. \A i \in 1 .. Len(responses) : i # r
    BY <1>1, AnsweredEnded
  <2>2. QED
    BY <1>1, <1>6, <2>1, AnsweredEnded DEF AnswersFit, Reports
<1>7. CASE TaskRefuses(r)
  <2>1. h = None /\ TaskEnds(r, "error") /\ "error" \in Answer
    BY <1>7 DEF TaskRefuses, Answer
  <2>2. QED
    BY <1>1, <1>4, <1>5, <1>6, <1>7, <2>1, ReportsEnd DEF Succeeded
<1>8. CASE TaskPanics(r)
  <2>1. TaskEnds(r, "unknown") /\ "unknown" \in Answer
    BY <1>8 DEF TaskPanics, Answer
  <2>2. h # None => op'[h].stage = "dropped"
    BY <1>1, <1>8, DropShape DEF TaskPanics, DropOperation, DbInv
  <2>3. QED
    BY <1>1, <1>4, <1>5, <1>6, <1>8, <2>1, <2>2, ReportsEnd DEF Succeeded, Unknown
<1>9. CASE TaskReturns(r)
  <2>1. h \in Generation /\ h # None
    BY <1>1, <1>9 DEF TaskReturns
  <2>2. \A outcome \in Outcome : Return(h, outcome) => op'[h].stage = outcome
    BY <2>1, ReturnShape DEF DbInv
  <2>3. CASE Return(h, "ok") /\ owner[h].purpose = "lookup" /\ task' = [task EXCEPT ![r].generation = None]
    <3>1. op'[h].stage = "ok" /\ owner' = owner
      BY <2>2, <2>3, <1>9 DEF Outcome, TaskReturns
    <3>2. /\ \A s \in Request : s # r => task'[s] = task[s]
          /\ task'[r].stage = "running"
      BY <1>1, <2>3 DEF TypeOK, TaskState
    <3>3. AnswersFit'
      BY <1>6, <3>2
    <3>4. QED
      BY <1>1, <1>4, <1>9, <2>1, <2>3, <3>1, <3>2, <3>3, ReportsEnd DEF Succeeded
  <2>4. CASE Return(h, "ok") /\ owner[h].purpose = "statement" /\ TaskEnds(r, "success")
    <3>1. op'[h].stage = "ok"
      BY <2>2, <2>4 DEF Outcome
    <3>2. /\ \A s \in Request : s # r => task'[s] = task[s]
          /\ task'[r].stage = "finished" /\ task'[r].outcome = "success"
      BY <1>5, <2>4 DEF Answer
    <3>3. AnswersFit' /\ Succeeded(r)'
      BY <1>6, <3>2 DEF Succeeded
    <3>4. QED
      BY <1>1, <1>4, <1>9, <2>1, <2>4, <3>1, <3>2, <3>3, ReportsEnd
  <2>5. CASE Return(h, "ok") /\ owner[h].purpose = "stale" /\ TaskEnds(r, "error")
    BY <1>1, <1>4, <1>5, <1>6, <1>9, <2>1, <2>2, <2>5, ReportsEnd DEF Succeeded, Outcome, Answer
  <2>6. CASE Return(h, "failed") /\ TaskEnds(r, "error")
    BY <1>1, <1>4, <1>5, <1>6, <1>9, <2>1, <2>2, <2>6, ReportsEnd DEF Succeeded, Outcome, Answer
  <2>7. CASE Return(h, "canceled") /\ TaskEnds(r, "canceled")
    BY <1>1, <1>4, <1>5, <1>6, <1>9, <2>1, <2>2, <2>7, ReportsEnd DEF Succeeded, Outcome, Answer
  <2>8. CASE Return(h, "lost") /\ TaskEnds(r, "unknown")
    BY <1>1, <1>4, <1>5, <1>6, <1>9, <2>1, <2>2, <2>8, ReportsEnd DEF Succeeded, Unknown, Outcome, Answer
  <2>9. owner[h].purpose \in Purpose
    BY <2>1 DEF TypeOK
  <2>10. QED
    BY <1>9, <2>3, <2>4, <2>5, <2>6, <2>7, <2>8, <2>9 DEF TaskReturns, Purpose
<1>10. QED
  BY <1>2, <1>3, <1>7, <1>8, <1>9 DEF Task

LEMMA ReportsStep ==
  ASSUME WorkerInv, DbInv, DbInv', [Next]_vars
  PROVE  Reports'
<1> USE DEF WorkerInv
<1>1. CASE Submit \/ RequestCancel \/ Close \/ Stop \/ Interrupt \/ Database \/ UNCHANGED vars
  <2>1. UNCHANGED <<task, owner, responses, op>>
    BY <1>1, DatabaseFrame DEF Submit, RequestCancel, Close, Stop, Interrupt, dbVars
  <2>2. QED
    BY <2>1, ReportsKept DEF Telling
<1>2. CASE Waits
  <2>1. UNCHANGED <<task, owner, responses>>
    BY <1>2, WaitsFrame
  <2>2. \A g \in Generation : op'[g].stage = op[g].stage
    BY <1>2, MarkShape
    DEF Waits, Deadline, CancelExpires, DropCancelCall, CancelPoll, CancelFindsNothing, CancelMarks,
        CancelWrites, WriteCancel, CancelDelivered, CancelFails, EndCancel, SettleExpires, dbVars
  <2>3. QED
    BY <2>1, <2>2, ReportsKept DEF Telling
<1>3. CASE Receive
  <2>1. UNCHANGED <<op, owner, responses>> /\ worker.pc = "receive" /\ worker.active = None
    BY <1>3 DEF Receive, dbVars, Control
  <2>2. CASE Head(commands) = CancelActive
    BY <1>3, <2>1, <2>2, ReportsKept DEF Receive, Telling
  <2>3. CASE Head(commands) # CancelActive
    <3>1. Head(commands) \in Request /\ Head(commands) = Spawns + 1 /\ Spawns \in Nat
      BY <1>3, <2>1, <2>3, TakeCommand, CommandCases, QueueHead, TakenType
      DEF Receive, TypeOK, Taken, Interrupting
    <3>2. task[Head(commands)].stage = "unborn"
      BY <3>1 DEF Tasks
    <3>3. \A s \in Request : IF s = Head(commands) THEN task'[s].stage = "running" ELSE task'[s] = task[s]
      BY <1>3, <2>3, <3>1 DEF Receive, Spawned, TypeOK, TaskState
    <3>4. QED
      BY <2>1, <3>1, <3>2, <3>3, ReportsKept DEF Telling
  <2>4. QED
    BY <2>2, <2>3
<1>4. CASE ServeOutcome
  <2>1. /\ UNCHANGED <<op, owner, task>>
        /\ worker.active \in Request /\ task[worker.active].stage = "finished"
        /\ Respond(TaskOutcome(Active.outcome))
    BY <1>4, ActiveType DEF ServeOutcome, dbVars, Active
  <2>2. AnswersFit'
    BY <2>1, AnswerFits DEF Active
  <2>3. QED
    BY <2>1, <2>2 DEF Reports, AnswersFit, Unknown, Succeeded, Operations
<1>5. CASE Answers
  <2> PICK a \in Request : a = worker.active
    BY <1>5, AnswersFrame
  <2> DEFINE i == worker.interrupt
  <2>1. /\ Interrupting /\ owner' = owner
        /\ a = Spawns /\ Spawns \in Nat
        /\ i \in Request => i = Spawns + 1 /\ task[i].stage = "unborn"
    BY <1>5, AnswersFrame, TakenType DEF Line, Spawns, Request, None, Tasks
  <2>2. ASSUME NEW tasks \in [Request -> TaskState], task' = NextTasks(tasks),
               tasks = task \/ tasks = [task EXCEPT ![a] = Gone]
        PROVE  \A s \in Request :
                  IF s = a THEN task'[s] = tasks[a]
                  ELSE IF s = i THEN task'[s].stage = "running"
                  ELSE task'[s] = task[s]
    <3>1. \A s \in Request : s # a => tasks[s] = task[s]
      BY <2>1, <2>2 DEF TypeOK
    <3>2. CASE i \in Request
      <4>1. task' = [tasks EXCEPT ![i].stage = "running"] /\ i # a
        BY <2>1, <2>2, <3>2 DEF NextTasks
      <4>2. QED
        BY <3>1, <3>2, <4>1 DEF TaskState
    <3>3. CASE i \notin Request
      BY <2>2, <3>1, <3>3 DEF NextTasks
    <3>4. QED
      BY <3>2, <3>3
  <2>3. CASE CancelFindsOutcome \/ Settle \/ AbortFindsOutcome
    <3>1. /\ task' = NextTasks(task) /\ task[a].stage = "finished" /\ op' = op
          /\ \E answer \in {task[a].outcome, TaskOutcome(task[a].outcome)} : Respond(answer)
      BY <2>3 DEF CancelFindsOutcome, DropCancelCall, Settle, AbortFindsOutcome, Active, dbVars
    <3>2. \A s \in Request :
              IF s = a THEN task'[s] = task[a]
              ELSE IF s = i THEN task'[s].stage = "running"
              ELSE task'[s] = task[s]
      BY <2>2, <3>1 DEF TypeOK
    <3>3. \A s \in Request : task[s].stage \in {"finished", "gone"} \/ task'[s].stage \in {"finished", "gone"}
              => task'[s] = task[s]
      BY <2>1, <3>2
    <3>4. AnswersFit'
      BY <2>1, <3>1, <3>2, <3>3, AnswerFits
    <3>5. \A s \in Request : (Unknown(s)' <=> Unknown(s)) /\ (Succeeded(s)' <=> Succeeded(s))
      BY <3>3 DEF Unknown, Succeeded
    <3>6. \A g \in Generation : op[g].stage # "unborn" => owner[g].request \in Request
      BY TellingOwner
    <3>7. ASSUME NEW g \in Generation
          PROVE  /\ op'[g].stage \in {"dropped", "lost"} => Unknown(owner[g].request)'
                 /\ op'[g].stage = "ok" /\ owner'[g].purpose = "statement" => Succeeded(owner[g].request)'
      BY <2>1, <3>1, <3>5, <3>6 DEF Reports, Unknown, Succeeded
    <3>8. QED
      BY <2>1, <3>1, <3>4, <3>5, <3>7 DEF Reports, AnswersFit, Operations
  <2>4. CASE AbortDrops
    <3> DEFINE tasks == [task EXCEPT ![a] = Gone]
               h == task[a].generation
    <3>1. /\ tasks \in [Request -> TaskState] /\ tasks[a] = Gone
      BY <2>1 DEF TypeOK, Gone, TaskState, Answer
    <3>2. /\ task' = NextTasks(tasks) /\ task[a].stage = "running"
          /\ DropOperation(a) /\ Respond("unknown")
      BY <2>4 DEF AbortDrops, Active
    <3>3. \A s \in Request :
              IF s = a THEN task'[s] = Gone
              ELSE IF s = i THEN task'[s].stage = "running"
              ELSE task'[s] = task[s]
      BY <2>2, <3>1, <3>2
    <3>4. \A s \in Request :
              s # a /\ (task[s].stage \in {"finished", "gone"} \/ task'[s].stage \in {"finished", "gone"})
              => task'[s] = task[s]
      BY <2>1, <3>3
    <3>5. AnswersFit'
      <4>1. task'[worker.active].stage = "gone"
        BY <3>3 DEF Gone
      <4>2. QED
        BY <3>2, <3>4, <4>1, AnswerFits
    <3>6. /\ \A g \in Generation : g # h => op'[g].stage = op[g].stage
          /\ h # None => op'[h].stage = "dropped"
      <4>1. h \in Generation \union {None}
        BY <2>1 DEF TypeOK, TaskState
      <4>2. QED
        BY <2>1, <3>2, <4>1, Closes, DropShape DEF DropOperation, DbInv
    <3>7. Unknown(a)' /\ ~Succeeded(a)'
      <4>1. task'[a] = Gone
        BY <2>1, <3>3
      <4>2. QED
        BY <4>1 DEF Unknown, Succeeded, Gone
    <3>8. QED
      BY <2>1, <3>2, <3>4, <3>5, <3>6, <3>7, ReportsEnd
  <2>5. QED
    BY <1>5, <2>3, <2>4 DEF Answers
<1>6. CASE \E r \in Request : Task(r)
  BY <1>6, ReportsTask
<1>7. QED
  BY <1>1, <1>2, <1>3, <1>4, <1>5, <1>6, NextCases

-----------------------------------------------------------------------------
(* The marks of cancellation.                                              *)

\* No step takes a mark away or hands an operation to another request.
LEMMA MarkedStays ==
  ASSUME WorkerInv, DbInv, DbInv', [Next]_vars, NEW r \in Request, Marked(r)
  PROVE  Marked(r)'
<1> USE DEF WorkerInv
<1>1. PICK g \in Generation : owner[g].request = r /\ op[g].canceled
  BY DEF Marked, Operations
<1>2. op[g].stage # "unborn"
  BY <1>1 DEF Tasks, Request, None
<1>3. CASE Submit \/ RequestCancel \/ Close \/ Receive \/ Stop \/ Interrupt \/ ServeOutcome
           \/ Database \/ UNCHANGED vars
  <2>1. UNCHANGED <<op, owner>>
    BY <1>3, DatabaseFrame
    DEF Submit, RequestCancel, Close, Receive, Stop, Interrupt, ServeOutcome, dbVars
  <2>2. QED
    BY <2>1 DEF Marked, Operations
<1>4. CASE Waits
  <2>1. owner' = owner /\ op'[g].canceled
    BY <1>1, <1>4, MarkShape, WaitsFrame
    DEF Waits, Deadline, CancelExpires, DropCancelCall, CancelPoll, CancelFindsNothing, CancelMarks,
        CancelWrites, WriteCancel, CancelDelivered, CancelFails, EndCancel, SettleExpires, dbVars
  <2>2. QED
    BY <1>1, <2>1 DEF Marked, Operations
<1>5. CASE Answers
  <2>1. owner' = owner /\ worker.active \in Request
    BY <1>5, AnswersFrame
  <2>2. op'[g].canceled
    <3>1. CASE CancelFindsOutcome \/ Settle \/ AbortFindsOutcome
      BY <1>1, <3>1 DEF CancelFindsOutcome, DropCancelCall, Settle, AbortFindsOutcome, dbVars
    <3>2. CASE AbortDrops
      BY <1>1, <2>1, <3>2, Closes DEF AbortDrops, Active
    <3>3. QED
      BY <1>5, <3>1, <3>2 DEF Answers
  <2>3. QED
    BY <1>1, <2>1, <2>2 DEF Marked, Operations
<1>6. ASSUME NEW s \in Request, Task(s)
      PROVE  Marked(r)'
  <2>1. task[s].stage = "running" /\ task[s].generation \in Generation \union {None}
    BY <1>6 DEF Task, TaskBegins, TaskRefuses, TaskProgresses, TaskReturns, TaskPanics, TypeOK, TaskState
  <2>2. owner'[g] = owner[g] /\ op'[g].canceled
    <3>1. CASE TaskBegins(s)
      <4>1. g # generations + 1
        BY <1>2, <3>1 DEF TaskBegins, Begin, DbInv, DbTypeOK, Aging
      <4>2. QED
        BY <1>1, <3>1, <4>1 DEF TaskBegins, Begin, DbInv, DbTypeOK, TypeOK
    <3>2. CASE TaskProgresses(s)
      BY <1>1, <2>1, <3>2, ProgressShape DEF TaskProgresses, OnlyMoves, DbInv
    <3>3. CASE TaskRefuses(s)
      BY <1>1, <3>3 DEF TaskRefuses, dbVars
    <3>4. CASE TaskReturns(s) \/ TaskPanics(s)
      BY <1>1, <2>1, <3>4, Closes DEF TaskReturns, TaskPanics, Outcome
    <3>5. QED
      BY <1>6, <3>1, <3>2, <3>3, <3>4 DEF Task
  <2>3. QED
    BY <1>1, <2>2 DEF Marked, Operations
<1>7. QED
  BY <1>3, <1>4, <1>5, <1>6, NextCases

\* The target of a cancel call keeps its owner.
LEMMA TargetStays ==
  ASSUME WorkerInv, DbInv, DbInv', [Next]_vars, cancelCall.target # None
  PROVE  owner'[cancelCall.target] = owner[cancelCall.target]
<1> USE DEF WorkerInv
<1>1. /\ cancelCall.target \in Generation
      /\ worker.active \in Request
      /\ owner[cancelCall.target].request = worker.active
  BY ActiveType DEF DbInv, DbTypeOK, CancelCall, Control, Marks
<1>2. op[cancelCall.target].stage # "unborn"
  BY <1>1 DEF Tasks, Request, None
<1>3. CASE \E r \in Request : TaskBegins(r)
  <2>1. cancelCall.target # generations + 1
    BY <1>2, <1>1, <1>3 DEF TaskBegins, Begin, DbInv, DbTypeOK, Aging
  <2>2. QED
    BY <1>1, <1>3, <2>1 DEF TaskBegins, TypeOK
<1>4. CASE owner' = owner
  BY <1>4
<1>5. QED
  BY <1>3, <1>4, NextCases, WaitsFrame, AnswersFrame, DatabaseFrame
  DEF Submit, RequestCancel, Close, Receive, Stop, Interrupt, ServeOutcome, Task, TaskRefuses,
      TaskProgresses, TaskReturns, TaskPanics

\* Only with the mark on an operation of the active request is it answered
\* that it was canceled.
LEMMA AnswerMarked ==
  ASSUME WorkerInv, DbInv, ServeOutcome \/ Answers
  PROVE  \E answer \in Answer :
            /\ Respond(answer)
            /\ answer = "canceled" => Marked(worker.active)
            /\ worker.active \in Request
<1> USE DEF WorkerInv
<1>1. worker.active \in Request /\ Active.outcome \in Answer /\ TaskOutcome(Active.outcome) \in Answer
  BY ActiveType DEF ServeOutcome, Answers, CancelFindsOutcome, Settle, AbortFindsOutcome, AbortDrops,
     Active
<1>2. \A answer : TaskOutcome(answer) # "canceled"
  BY DEF TaskOutcome
<1>3. CASE Settle
  BY <1>1, <1>3 DEF Settle, Marks
<1>4. CASE AbortFindsOutcome /\ worker.delivered
  BY <1>1, <1>4 DEF AbortFindsOutcome, Marks
<1>5. CASE AbortFindsOutcome /\ ~worker.delivered
  BY <1>1, <1>2, <1>5 DEF AbortFindsOutcome
<1>6. CASE AbortDrops
  <2>1. "unknown" \in Answer
    BY DEF Answer
  <2>2. QED
    BY <1>1, <1>6, <2>1 DEF AbortDrops
<1>7. CASE ServeOutcome \/ CancelFindsOutcome
  BY <1>1, <1>2, <1>7 DEF ServeOutcome, CancelFindsOutcome
<1>8. QED
  BY <1>3, <1>4, <1>5, <1>6, <1>7 DEF Answers

LEMMA CanceledOnlyOnRequestStep ==
  ASSUME WorkerInv, DbInv, DbInv', [Next]_vars
  PROVE  CanceledOnlyOnRequest'
<1> USE DEF WorkerInv
<1>1. \A r \in Request : Marked(r) => Marked(r)'
  BY MarkedStays
<1>2. \A i \in 1 .. Len(responses) :
          /\ responses[i].request \in Request
          /\ responses[i].answer = "canceled" => Marked(responses[i].request)
  <2>1. responses \in Seq([request : Request, answer : Answer])
    BY DEF TypeOK
  <2>2. DOMAIN responses = 1 .. Len(responses)
    BY <2>1
  <2>3. \A i \in 1 .. Len(responses) : responses[i] \in [request : Request, answer : Answer]
    BY <2>1, ElementOfSeq
  <2>4. QED
    BY <2>2, <2>3 DEF Marks, CanceledOnlyOnRequest, Marked
<1>3. CASE ServeOutcome \/ Answers
  <2>1. PICK answer \in Answer :
           /\ Respond(answer)
           /\ answer = "canceled" => Marked(worker.active)
           /\ worker.active \in Request
    BY <1>3, AnswerMarked
  <2>2. /\ Len(responses') = Len(responses) + 1 /\ Len(responses) \in Nat
        /\ responses'[Len(responses) + 1] = [request |-> worker.active, answer |-> answer]
        /\ \A i \in 1 .. Len(responses) : responses'[i] = responses[i]
    BY <2>1 DEF Respond, TypeOK
  <2>3. ASSUME NEW i \in 1 .. Len(responses'), responses'[i].answer = "canceled"
        PROVE  responses'[i].request \in Request /\ Marked(responses'[i].request)
    <3>1. CASE i = Len(responses) + 1
      BY <2>1, <2>2, <2>3, <3>1
    <3>2. CASE i # Len(responses) + 1
      BY <1>2, <2>2, <2>3, <3>2
    <3>3. QED
      BY <3>1, <3>2
  <2>4. QED
    BY <1>1, <2>3 DEF CanceledOnlyOnRequest, Marked, Operations
<1>4. CASE responses' = responses
  BY <1>1, <1>2, <1>4 DEF CanceledOnlyOnRequest, Marked, Operations
<1>5. QED
  BY <1>3, <1>4, NextCases, WaitsFrame, TaskFrame, DatabaseFrame
  DEF Submit, RequestCancel, Close, Receive, Stop, Interrupt

\* A cancellation marks what the active request is doing, and settles only then.
LEMMA SettlesMarked ==
  ASSUME WorkerInv, DbInv, DbInv', Waits, NEW a \in Request, a = worker.active,
         Marked(a) => Marked(a)', UNCHANGED owner
  PROVE  /\ worker'.pc = "settle" \/ worker'.delivered => Marked(a)'
         /\ cancelCall'.target # None => owner[cancelCall'.target].request = a
<1> USE DEF WorkerInv
<1>1. CASE CancelMarks
  <2>1. /\ registered \in Generation /\ op'[registered].canceled /\ Open(registered)
        /\ cancelCall'.target \in {registered, None}
    BY <1>1, MarkShape DEF CancelMarks
  <2>2. owner[registered].request = a
    BY <2>1 DEF Tasks, Generation, None
  <2>3. Marked(a)'
    BY <2>1, <2>2 DEF Marked, Operations
  <2>4. QED
    BY <2>1, <2>2, <2>3
<1>2. CASE CancelDelivered \/ CancelFails
  <2>1. /\ cancelCall.target \in Generation /\ op[cancelCall.target].canceled
        /\ owner[cancelCall.target].request = a
        /\ cancelCall' = NoCall
    BY <1>2 DEF CancelDelivered, CancelFails, EndCancel, DbInv, DbTypeOK, CancelCall, Canceling,
       CancelOutstanding, Marks
  <2>2. Marked(a)
    BY <2>1 DEF Marked, Operations
  <2>3. QED
    BY <2>1, <2>2 DEF NoCall
<1>3. CASE CancelWrites
  <2>1. cancelCall'.target = cancelCall.target /\ cancelCall.target # None /\ worker' = worker
    BY <1>3 DEF CancelWrites, WriteCancel, DbInv, DbTypeOK, CancelCall
  <2>2. QED
    BY <2>1 DEF Marks
<1>4. CASE SettleExpires \/ Deadline \/ CancelPoll \/ CancelFindsNothing
  <2>1. /\ cancelCall' = cancelCall
        /\ worker'.pc = "settle" \/ worker'.delivered => worker.pc = "settle" \/ worker.delivered
    BY <1>4 DEF SettleExpires, Deadline, CancelPoll, CancelFindsNothing, dbVars, TypeOK, WorkerState
  <2>2. QED
    BY <2>1 DEF Marks
<1>5. CASE CancelExpires
  <2>1. cancelCall' = NoCall
        /\ (worker'.pc = "settle" \/ worker'.delivered => worker.pc = "settle" \/ worker.delivered)
    BY <1>5 DEF CancelExpires, DropCancelCall, TypeOK, WorkerState
  <2>2. QED
    BY <2>1 DEF Marks, NoCall
<1>6. QED
  BY <1>1, <1>2, <1>3, <1>4, <1>5 DEF Waits

LEMMA MarksStep ==
  ASSUME WorkerInv, DbInv, DbInv', [Next]_vars
  PROVE  Marks'
<1> USE DEF WorkerInv
<1>1. CanceledOnlyOnRequest'
  BY CanceledOnlyOnRequestStep
<1>2. CASE Waits
  <2>1. UNCHANGED owner /\ worker'.active = worker.active /\ worker.active \in Request
    BY <1>2, WaitsFrame, ActiveType DEF Interrupting
  <2>2. PICK a \in Request : a = worker.active
    BY <2>1
  <2>3. Marked(a) => Marked(a)'
    BY MarkedStays
  <2>4. /\ worker'.pc = "settle" \/ worker'.delivered => Marked(a)'
        /\ cancelCall'.target # None => owner[cancelCall'.target].request = a
    BY <1>2, <2>1, <2>2, <2>3, SettlesMarked
  <2>5. Marked(a)' => Marked(worker.active)'
    BY <2>1, <2>2 DEF Marked, Operations
  <2>6. QED
    BY <1>1, <2>1, <2>2, <2>4, <2>5 DEF Marks
<1>3. CASE ServeOutcome \/ Answers \/ Receive \/ Stop \/ Interrupt
  <2>1. cancelCall'.target = None
    BY <1>3, AnswersFrame DEF ServeOutcome, Receive, Stop, Interrupt, dbVars, Control
  <2>2. worker'.pc # "settle" /\ ~worker'.delivered
    <3>1. CASE ServeOutcome \/ Answers \/ Stop
      BY <3>1, AnswersFrame, GoOnShape, StateFields DEF ServeOutcome, Stop
    <3>2. CASE Receive
      BY <3>2, StateFields DEF Receive, Control
    <3>3. CASE Interrupt
      BY <3>3 DEF Interrupt, StartCanceling, Control, TypeOK, WorkerState
    <3>4. QED
      BY <1>3, <3>1, <3>2, <3>3
  <2>3. QED
    BY <1>1, <2>1, <2>2 DEF Marks
<1>4. CASE Submit \/ RequestCancel \/ Close \/ (\E r \in Request : Task(r)) \/ Database \/ UNCHANGED vars
  <2>1. worker' = worker /\ cancelCall' = cancelCall
    BY <1>4, TaskFrame, DatabaseFrame DEF Submit, RequestCancel, Close, dbVars
  <2>2. cancelCall'.target # None => owner'[cancelCall'.target].request = worker'.active
    BY <2>1, TargetStays DEF Marks
  <2>3. worker'.pc = "settle" \/ worker'.delivered => Marked(worker.active)'
    <3>1. CASE worker.pc = "settle" \/ worker.delivered
      <4>1. worker.active \in Request
        BY <3>1, ActiveType DEF Control
      <4>2. PICK a \in Request : a = worker.active
        BY <4>1
      <4>3. Marked(a)'
        BY <3>1, <4>2, MarkedStays DEF Marks
      <4>4. QED
        BY <2>1, <4>2, <4>3 DEF Marked, Operations
    <3>2. QED
      BY <2>1, <3>1
  <2>4. QED
    BY <1>1, <2>1, <2>2, <2>3 DEF Marks
<1>5. QED
  BY <1>2, <1>3, <1>4, NextCases

-----------------------------------------------------------------------------
(* The invariant holds throughout.                                         *)

LEMMA WorkerInitInv == Init => WorkerInv
<1> SUFFICES ASSUME Init
             PROVE  WorkerInv
  OBVIOUS
<1> USE MaxRequestAssumption, MaxCancelAssumption
    DEF Init, Idle, Request, None, CancelActive, Closing, Command
<1>1. op = [g \in Generation |-> NewOperation] /\ cancelCall = NoCall /\ DbTypeOK
  BY DbInitInv DEF DbInit, DbInv
<1>2. \A g \in Generation : op[g].stage = "unborn"
  BY <1>1 DEF NewOperation
<1>3. TypeOK
  <2>1. worker \in WorkerState
    BY DEF WorkerState
  <2>2. task \in [Request -> TaskState]
    BY DEF TaskState, Answer
  <2>3. owner \in [Generation -> [request : Request \union {None}, purpose : Purpose]]
    BY DEF Purpose
  <2>4. commands \in Seq(Command) /\ responses \in Seq([request : Request, answer : Answer])
    BY EmptySeq
  <2>5. /\ submitted \in 0 .. MaxRequest /\ cancels \in 0 .. MaxCancel
        /\ closed \in BOOLEAN
    <3>1. submitted = 0 /\ cancels = 0 /\ closed = FALSE
      OBVIOUS
    <3> HIDE DEF Init, Idle, Request, None, Command, CancelActive, Closing
    <3>2. submitted \in 0 .. MaxRequest /\ cancels \in 0 .. MaxCancel
      BY <3>1
    <3>3. closed \in BOOLEAN
      BY <3>1
    <3>4. QED
      BY <3>2, <3>3
  <2> HIDE DEF Init, Idle, Request, None, Command
  <2>6. QED
    BY <1>1, <2>1, <2>2, <2>3, <2>4, <2>5 DEF TypeOK
<1>4. Spawns = 0 /\ Taken = 0 /\ Len(responses) = 0 /\ Len(commands) = 0
  BY DEF Spawns, Taken, Interrupting
<1>5. Control
  BY <1>1 DEF Control, NoCall, Interrupting
<1>6. Line /\ Queue
  BY <1>4 DEF Line, Queue, AnsweredInOrder, Interrupting
<1>7. Tasks
  BY <1>2, <1>4 DEF Tasks, Open
<1>8. Reports
  BY <1>2, <1>4 DEF Reports, Succeeded, Unknown
<1>9. Marks
  BY <1>1, <1>4 DEF Marks, CanceledOnlyOnRequest, NoCall
<1>10. QED
  BY <1>3, <1>5, <1>6, <1>7, <1>8, <1>9 DEF WorkerInv

LEMMA DbInvStep == DbInv /\ [DbNext]_dbVars => DbInv'
  BY DbTypeStep, DbStructureStep DEF DbInv, DbStructure

LEMMA WorkerInvStep == WorkerInv /\ DbInv /\ [Next]_vars => WorkerInv' /\ DbInv'
<1> SUFFICES ASSUME WorkerInv, DbInv, [Next]_vars
             PROVE  WorkerInv' /\ DbInv'
  OBVIOUS
<1>1. DbInv'
  BY WorkerStepIsDbStep, DbInvStep
<1>2. TypeOK'
  BY <1>1, TypeStep
<1>3. QED
  BY <1>1, <1>2, ControlStep, LineStep, TasksStep, ReportsStep, MarksStep DEF WorkerInv

\* Every reachable state satisfies the inductive invariant.
THEOREM WorkerInvariance == Spec => [](WorkerInv /\ DbInv)
<1>1. Init => WorkerInv /\ DbInv
  BY WorkerInitInv, DbInitInv DEF Init
<1>2. QED
  BY <1>1, WorkerInvStep, PTL DEF Spec

\* Every state of every behaviour of the worker is well-typed.
THEOREM TypeCorrect == Spec => []TypeOK
  BY WorkerInvariance, PTL DEF WorkerInv

\* The worker is a user of the database as module Cancellation describes it: all
\* that is proved there holds here.
THEOREM WorkerUsesDatabase == Spec => DbSpec
<1>1. Init => DbInit
  BY DEF Init
<1>2. QED
  BY <1>1, WorkerStepIsDbStep, WorkerInvariance, PTL DEF Spec, DbSpec

\* Every request is answered once, in the order of submission.
THEOREM AnswersKeepOrder == Spec => []AnsweredInOrder
<1>1. WorkerInv => AnsweredInOrder
  BY DEF WorkerInv, Line
<1>2. QED
  BY <1>1, WorkerInvariance, PTL

\* No operation begins before the one before it has been retired.
THEOREM OperationsAreSerial == Spec => []OneOpenOperation
<1>1. WorkerInv => OneOpenOperation
  <2> SUFFICES ASSUME WorkerInv, NEW g \in Generation, Open(g)
               PROVE  g = generations
    BY DEF OneOpenOperation, Open
  <2>1. worker.active \in Request /\ task[worker.active].generation = g
    BY DEF WorkerInv, TypeOK, WorkerState, Tasks
  <2>2. QED
    BY <2>1 DEF WorkerInv, Tasks, Generation, None
<1>2. QED
  BY <1>1, WorkerInvariance, PTL

\* An answered request has no open operation, and an operation that was dropped
\* or lost its connection makes the answer unknown.
LEMMA AnsweredOperations ==
  ASSUME WorkerInv, DbInv, NEW i \in 1 .. Len(responses), NEW g \in Operations(i)
  PROVE  /\ op[g].stage \in Outcome
         /\ op[g].stage \in {"dropped", "lost"} => responses[i].answer = "unknown"
<1> USE DEF WorkerInv
<1>1. /\ i \in Request /\ i # worker.active /\ task[i].stage \in {"finished", "gone"}
      /\ g \in Generation /\ owner[g].request = i
  BY AnsweredEnded DEF Operations
<1>2. op[g].stage # "unborn" /\ ~Open(g)
  <2>1. op[g].stage # "unborn"
    BY <1>1 DEF Tasks, Request, None
  <2>2. ASSUME Open(g)
        PROVE  FALSE
    <3>1. worker.active \in Request /\ task[worker.active].generation = g /\ g # None
      BY <1>1, <2>2 DEF Tasks, TypeOK, WorkerState, Generation, None
    <3>2. owner[g].request = worker.active
      BY <3>1 DEF Tasks
    <3>3. QED
      BY <1>1, <3>2
  <2>3. QED
    BY <2>1, <2>2
<1>3. op[g].stage \in Outcome
  BY <1>2 DEF Open, Over
<1>4. ASSUME op[g].stage \in {"dropped", "lost"}
      PROVE  responses[i].answer = "unknown"
  <2>1. Unknown(i)
    BY <1>1, <1>4 DEF Reports
  <2>2. QED
    BY <2>1 DEF Reports, Unknown, TaskOutcome
<1>5. QED
  BY <1>3, <1>4

\* Only a request that was answered with unknown can still be at work on the
\* server, where it may meet the statements of a later one.
THEOREM OverlapsAreAdmitted == Spec => []OverlapIsAdmitted
<1>1. WorkerInv /\ DbInv => OverlapIsAdmitted
  <2> SUFFICES ASSUME WorkerInv, DbInv, NEW i \in DOMAIN responses, responses[i].answer # "unknown"
               PROVE  Settled(responses[i].request)
    BY DEF OverlapIsAdmitted
  <2>1. i \in 1 .. Len(responses) /\ responses[i].request = i
    BY DEF WorkerInv, Line, AnsweredInOrder, TypeOK
  <2>2. ASSUME NEW g \in Operations(i)
        PROVE  server[g] \in {"none", "committed", "aborted", "canceled"}
    <3>1. op[g].stage \in {"ok", "failed", "canceled"} /\ g \in Generation
      BY <2>1, AnsweredOperations DEF Outcome, Operations
    <3>2. QED
      BY <3>1 DEF DbInv, OutcomeIsTrue
  <2>3. QED
    BY <2>1, <2>2 DEF Settled
<1>2. QED
  BY <1>1, WorkerInvariance, PTL

\* A request is told that it was canceled only when poqi marked it.
THEOREM CancellationsAreRequested == Spec => []CanceledOnlyOnRequest
<1>1. WorkerInv => CanceledOnlyOnRequest
  BY DEF WorkerInv, Marks
<1>2. QED
  BY <1>1, WorkerInvariance, PTL

\* A worker that has stopped has answered every request and left no operation,
\* no client and no task behind.
THEOREM StopIsClean == Spec => []StopsClean
<1>1. WorkerInv /\ DbInv => StopsClean
  <2> SUFFICES ASSUME WorkerInv, DbInv, worker.pc = "stopped"
               PROVE  /\ Len(responses) = submitted
                      /\ \A r \in Request : task[r].stage # "running"
                      /\ \A g \in 1 .. generations : Over(g)
    BY DEF StopsClean
  <2>1. worker.active = None /\ commands = <<>> /\ ~Interrupting
    BY DEF WorkerInv, Control, Interrupting
  <2>2. \A r \in Request : task[r].stage # "running"
    BY <2>1 DEF WorkerInv, Tasks, Request, None
  <2>3. Len(responses) = submitted
    <3>1. Taken = Len(responses) /\ Taken \in Nat /\ submitted \in Nat /\ submitted <= MaxRequest
      BY <2>1, TakenType, MaxRequestAssumption DEF WorkerInv, TypeOK, Taken, Spawns
    <3>2. Taken <= submitted
      BY DEF WorkerInv, Line
    <3>3. \A r \in Request : ~(Taken < r /\ r <= submitted)
      BY <2>1 DEF WorkerInv, Queue
    <3>4. QED
      BY <3>1, <3>2, <3>3, MaxRequestAssumption DEF Request
  <2>4. ASSUME NEW g \in 1 .. generations
        PROVE  Over(g)
    <3>1. g \in Generation /\ op[g].stage # "unborn"
      BY MaxGenerationAssumption DEF DbInv, DbTypeOK, Aging, Generation
    <3>2. QED
      BY <2>1, <3>1 DEF WorkerInv, Tasks, Open
  <2>5. QED
    BY <2>2, <2>3, <2>4
<1>2. QED
  BY <1>1, WorkerInvariance, PTL

-----------------------------------------------------------------------------
(* The worker implements SingleFlight.                                     *)

LEMMA ActiveIsServed ==
  ASSUME WorkerInv, worker.active \in Request
  PROVE  FlightServing = worker.active /\ FlightServing = Len(responses) + 1 /\ FlightServing # 0
  BY TakenType DEF WorkerInv, Line, FlightServing, Request, None

LEMMA CommittedIsOwned ==
  ASSUME WorkerInv, DbInv, NEW g \in Generation, server[g] = "committed" \/ server[g] = "committing"
  PROVE  op[g].stage # "unborn" /\ owner[g].request \in Request
<1>1. op[g].stage # "unborn"
  BY DEF DbInv, Tokens
<1>2. QED
  BY <1>1, TellingOwner DEF WorkerInv

\* A step that commits nothing applies nothing.
LEMMA AppliedSame ==
  ASSUME \A g \in Generation : server'[g] = "committed" <=> server[g] = "committed",
         \A g \in Generation : server[g] = "committed" => owner'[g] = owner[g]
  PROVE  FlightApplied' = FlightApplied
<1>1. \A r \in Request : Applied(r)' <=> Applied(r)
  BY DEF Applied, Operations
<1>2. QED
  BY <1>1 DEF FlightApplied

\* No step of the user interface, the worker or a task commits anything.
LEMMA CommitsNothing ==
  ASSUME WorkerInv, DbInv, DbInv', [Next]_vars, ~Database
  PROVE  FlightApplied' = FlightApplied
<1>1. \A g \in Generation : server'[g] = "committed" <=> server[g] = "committed"
  <2>1. CASE Submit \/ RequestCancel \/ Close \/ Receive \/ Stop \/ Interrupt \/ ServeOutcome
             \/ UNCHANGED vars
    BY <2>1 DEF Submit, RequestCancel, Close, Receive, Stop, Interrupt, ServeOutcome, vars, dbVars
  <2>2. CASE Waits
    BY <2>2
    DEF Waits, Deadline, CancelExpires, DropCancelCall, CancelPoll, CancelFindsNothing, CancelMarks,
        MarkCanceled, CancelWrites, WriteCancel, CancelDelivered, CancelFails, EndCancel,
        SettleExpires, dbVars
  <2>3. ASSUME NEW r \in Request, DropOperation(r)
        PROVE  server' = server
    BY <2>3 DEF DropOperation, Drop, DropWaiting, DropActive, dbVars
  <2>4. CASE Answers
    <3>1. worker.active \in Request
      BY <2>4, AnswersFrame DEF WorkerInv
    <3>2. QED
      BY <2>3, <2>4, <3>1 DEF Answers, CancelFindsOutcome, DropCancelCall, Settle, AbortFindsOutcome,
         AbortDrops, dbVars
  <2>5. ASSUME NEW r \in Request, Task(r)
        PROVE  \A g \in Generation : server'[g] = "committed" <=> server[g] = "committed"
    <3>1. CASE TaskBegins(r) \/ TaskRefuses(r)
      BY <3>1 DEF TaskBegins, Begin, TaskRefuses, dbVars
    <3>2. CASE TaskPanics(r)
      BY <2>3, <3>2 DEF TaskPanics
    <3>3. CASE TaskReturns(r)
      BY <3>3 DEF TaskReturns, Return, FailAcquire, RefuseActivation, Finish
    <3>4. CASE TaskProgresses(r)
      <4>1. task[r].generation \in Generation
        BY <3>4 DEF TaskProgresses, WorkerInv, TypeOK, TaskState
      <4>2. QED
        BY <3>4, <4>1 DEF TaskProgresses, Progress, Acquire, Activate, SendStatement, SendCommit,
           DbInv, DbTypeOK
    <3>5. QED
      BY <2>5, <3>1, <3>2, <3>3, <3>4 DEF Task
  <2>6. QED
    BY <2>1, <2>2, <2>4, <2>5, NextCases
<1>2. \A g \in Generation : server[g] = "committed" => owner'[g] = owner[g]
  <2>1. CASE \E r \in Request : TaskBegins(r)
    <3>1. \A g \in Generation : server[g] = "committed" => g # generations + 1
      BY <2>1, CommittedIsOwned DEF TaskBegins, Begin, DbInv, DbTypeOK, Aging
    <3>2. QED
      BY <2>1, <3>1 DEF TaskBegins, WorkerInv, TypeOK
  <2>2. CASE owner' = owner
    BY <2>2
  <2>3. QED
    BY <2>1, <2>2, NextCases, WaitsFrame, AnswersFrame
    DEF Submit, RequestCancel, Close, Receive, Stop, Interrupt, ServeOutcome, Task, TaskRefuses,
        TaskProgresses, TaskReturns, TaskPanics, vars, WorkerInv
<1>3. QED
  BY <1>1, <1>2, AppliedSame

\* What a task that has ended reports is true of its request's change.
LEMMA OutcomeIsApplied ==
  ASSUME WorkerInv, DbInv, NEW r \in Request, task[r].stage = "finished"
  PROVE  /\ task[r].outcome = "success" => Applied(r)
         /\ task[r].outcome \in {"error", "canceled"} => ~Applied(r)
<1>1. ASSUME task[r].outcome = "success"
      PROVE  Applied(r)
  <2>1. PICK g \in Operations(r) : owner[g].purpose = "statement" /\ op[g].stage = "ok"
    BY <1>1 DEF WorkerInv, Reports, Succeeded
  <2>2. server[g] = "committed"
    BY <2>1 DEF DbInv, OutcomeIsTrue, Operations
  <2>3. QED
    BY <2>1, <2>2 DEF Applied
<1>2. ASSUME task[r].outcome \in {"error", "canceled"}, Applied(r)
      PROVE  FALSE
  <2>1. PICK g \in Operations(r) : owner[g].purpose = "statement" /\ server[g] = "committed"
    BY <1>2 DEF Applied
  <2>2. g \in Generation /\ owner[g].request = r
    BY <2>1 DEF Operations
  <2>3. op[g].stage \notin {"failed", "canceled"}
    BY <2>1, <2>2 DEF DbInv, OutcomeIsTrue
  <2>4. op[g].stage \notin {"ok", "dropped", "lost"}
    BY <1>2, <2>1, <2>2 DEF WorkerInv, Reports, Unknown, Succeeded
  <2>5. Open(g)
    BY <2>1, <2>2, <2>3, <2>4, CommittedIsOwned DEF Open, Over, Outcome
  <2>6. worker.active \in Request /\ task[worker.active].generation = g /\ g # None
    BY <2>2, <2>5 DEF WorkerInv, Tasks, TypeOK, WorkerState, Generation, None
  <2>7. worker.active = r /\ task[r].stage = "running"
    BY <2>2, <2>6 DEF WorkerInv, Tasks
  <2>8. QED
    BY <2>7
<1>3. QED
  BY <1>1, <1>2

LEMMA AnswerIsTrue ==
  ASSUME WorkerInv, DbInv, ServeOutcome \/ Answers
  PROVE  \E answer \in Answer : Respond(answer) /\ Flight!Truthful(worker.active, answer)
<1>1. worker.active \in Request /\ Active.outcome \in Answer /\ TaskOutcome(Active.outcome) \in Answer
  BY ActiveType DEF ServeOutcome, Answers, CancelFindsOutcome, Settle, AbortFindsOutcome, AbortDrops,
     Active, WorkerInv
<1>2. CASE AbortDrops
  <2>1. Respond("unknown") /\ "unknown" \in Answer
    BY <1>2 DEF AbortDrops, Answer
  <2>2. Flight!Truthful(worker.active, "unknown")
    BY DEF Flight!Truthful
  <2>3. QED
    BY <2>1, <2>2
<1>3. CASE ServeOutcome \/ CancelFindsOutcome \/ Settle \/ AbortFindsOutcome
  <2>1. /\ task[worker.active].stage = "finished"
        /\ \E answer \in {Active.outcome, TaskOutcome(Active.outcome)} : Respond(answer)
    BY <1>3 DEF ServeOutcome, CancelFindsOutcome, Settle, AbortFindsOutcome, Active
  <2>2. PICK answer \in {Active.outcome, TaskOutcome(Active.outcome)} : Respond(answer)
    BY <2>1
  <2>3. /\ answer = "success" => task[worker.active].outcome = "success"
        /\ answer \in {"error", "canceled"} => task[worker.active].outcome \in {"error", "canceled"}
    BY DEF TaskOutcome, Active
  <2>4. /\ answer = "success" => Applied(worker.active)
        /\ answer \in {"error", "canceled"} => ~Applied(worker.active)
    BY <1>1, <2>1, <2>3, OutcomeIsApplied
  <2>5. Flight!Truthful(worker.active, answer)
    BY <1>1, <2>4 DEF Flight!Truthful, FlightApplied
  <2>6. QED
    BY <1>1, <2>2, <2>5
<1>4. QED
  BY <1>2, <1>3 DEF Answers

\* The server may still commit for a request only while the request is served, or
\* after the answer has admitted that the outcome is unknown.
LEMMA CommitsWhileServed ==
  ASSUME WorkerInv, DbInv, NEW g \in Generation, server[g] = "committing"
  PROVE  /\ owner[g].request \in Request
         /\ \/ owner[g].request = FlightServing
            \/ /\ owner[g].request \in 1 .. Len(responses)
               /\ responses[owner[g].request].answer = "unknown"
<1> DEFINE r == owner[g].request
<1>1. op[g].stage # "unborn" /\ r \in Request
  BY CommittedIsOwned
<1>2. CASE Open(g)
  <2>1. worker.active \in Request /\ task[worker.active].generation = g /\ g # None
    BY <1>2 DEF WorkerInv, Tasks, TypeOK, WorkerState, Generation, None
  <2>2. worker.active = r
    BY <2>1 DEF WorkerInv, Tasks
  <2>3. r = FlightServing
    BY <2>1, <2>2, ActiveIsServed
  <2>4. QED
    BY <1>1, <2>3
<1>3. CASE ~Open(g)
  <2>1. op[g].stage \in {"dropped", "lost"}
    BY <1>1, <1>3 DEF Open, Over, Outcome, DbInv, OutcomeIsTrue
  <2>2. CASE r \in 1 .. Len(responses)
    <3>1. g \in Operations(r)
      BY DEF Operations
    <3>2. QED
      BY <1>1, <2>1, <2>2, <3>1, AnsweredOperations
  <2>3. CASE r \notin 1 .. Len(responses)
    <3>1. Unknown(r)
      BY <2>1 DEF WorkerInv, Reports
    <3>2. ~(r > Spawns)
      BY <1>1, <3>1 DEF WorkerInv, Tasks, Unknown
    <3>3. worker.active # None /\ r = Len(responses) + 1
      BY <1>1, <2>3, <3>2, TakenType DEF WorkerInv, Spawns, Request
    <3>4. worker.active = r
      BY <3>3 DEF WorkerInv, Line
    <3>5. r = FlightServing
      BY <1>1, <3>4, ActiveIsServed
    <3>6. QED
      BY <1>1, <3>5
  <2>4. QED
    BY <2>2, <2>3
<1>4. QED
  BY <1>2, <1>3

LEMMA FlightFrame ==
  ASSUME UNCHANGED <<worker, responses>>
  PROVE  UNCHANGED <<FlightServing, FlightAnswers>>
  BY DEF FlightServing, FlightAnswers

LEMMA DatabaseApplies ==
  ASSUME WorkerInv, DbInv, Database
  PROVE  [Flight!FlightNext]_Flight!flightVars
<1>1. UNCHANGED <<submitted, worker, responses, owner>> /\ Environment
  BY DEF Database, uiVars
<1>2. UNCHANGED <<submitted, FlightServing, FlightAnswers>>
  BY <1>1, FlightFrame
<1>3. CASE \E g \in Generation : server[g] = "committing" /\ server' = [server EXCEPT ![g] = "committed"]
  <2>1. PICK g \in Generation : server[g] = "committing" /\ server' = [server EXCEPT ![g] = "committed"]
    BY <1>3
  <2> DEFINE r == owner[g].request
  <2>2. /\ r \in Request
        /\ \/ r = FlightServing
           \/ r \in 1 .. Len(responses) /\ responses[r].answer = "unknown"
    BY <2>1, CommitsWhileServed
  <2>3. CASE owner[g].purpose = "statement"
    <3>1. \A h \in Generation : server'[h] = "committed" <=> server[h] = "committed" \/ h = g
      BY <2>1 DEF DbInv, DbTypeOK
    <3>2. \A s \in Request : Applied(s)' <=> Applied(s) \/ s = r
      BY <1>1, <2>3, <3>1 DEF Applied, Operations
    <3>3. FlightApplied' = FlightApplied \union {r}
      BY <2>2, <3>2 DEF FlightApplied
    <3>4. \/ r = FlightServing
          \/ r \in DOMAIN FlightAnswers /\ FlightAnswers[r] = "unknown"
      <4>1. DOMAIN responses = 1 .. Len(responses)
        BY LenProperties DEF WorkerInv, TypeOK
      <4>2. FlightAnswers = [i \in 1 .. Len(responses) |-> responses[i].answer]
        BY <4>1 DEF FlightAnswers
      <4>3. QED
        BY <2>2, <4>2
    <3>5. Flight!Apply(r)
      BY <1>2, <3>3, <3>4 DEF Flight!Apply
    <3>6. QED
      BY <2>2, <3>5 DEF Flight!FlightNext, Flight!Request, Request
  <2>4. CASE owner[g].purpose # "statement"
    <3>1. \A h \in Generation : h # g => (server'[h] = "committed" <=> server[h] = "committed")
      BY <2>1 DEF DbInv, DbTypeOK
    <3>2. \A s \in Request : Applied(s)' <=> Applied(s)
      BY <1>1, <2>4, <3>1 DEF Applied, Operations
    <3>3. FlightApplied' = FlightApplied
      BY <3>2 DEF FlightApplied
    <3>4. QED
      BY <1>2, <3>3 DEF Flight!flightVars
  <2>5. QED
    BY <2>3, <2>4
<1>4. CASE ~\E g \in Generation : server[g] = "committing" /\ server' = [server EXCEPT ![g] = "committed"]
  <2>1. \A g \in Generation : server'[g] = "committed" <=> server[g] = "committed"
    <3>1. ASSUME NEW g \in Generation, NEW s \in ServerState,
                 server' = [server EXCEPT ![g] = s],
                 server[g] # "committed", s # "committed"
          PROVE  \A h \in Generation : server'[h] = "committed" <=> server[h] = "committed"
      BY <3>1 DEF DbInv, DbTypeOK
    <3>2. CASE ServerStep
      BY <1>4, <3>1, <3>2
      DEF ServerStep, StartStatement, EndStatement, Rollback, EndCommit, ServerState
    <3>3. CASE \E g \in Generation : CancelArrives(g)
      BY <3>1, <3>3 DEF CancelArrives, Interruptible, Backend, ServerState
    <3>4. CASE \E c \in Connection : LoseConnection(c)
      BY <3>4 DEF LoseConnection
    <3>5. QED
      BY <1>1, <3>2, <3>3, <3>4 DEF Environment
  <2>2. FlightApplied' = FlightApplied
    BY <1>1, <2>1, AppliedSame
  <2>3. QED
    BY <1>2, <2>2 DEF Flight!flightVars
<1>5. QED
  BY <1>3, <1>4

LEMMA AnswersServe ==
  ASSUME WorkerInv, DbInv, DbInv', TypeOK', Line', ServeOutcome \/ Answers, FlightApplied' = FlightApplied
  PROVE  Flight!FlightNext
<1> USE DEF WorkerInv
<1>1. PICK answer \in Answer : Respond(answer) /\ Flight!Truthful(worker.active, answer)
  BY AnswerIsTrue
<1>2. /\ worker.active \in Request /\ UNCHANGED uiVars
      /\ worker' = Idle \/ worker' = Stopped
         \/ (worker' = Serving(worker.interrupt) /\ worker.interrupt \in Request /\ Interrupting)
  BY AnswersFrame, GoOnShape, ActiveType DEF ServeOutcome
<1>3. FlightServing = worker.active /\ FlightServing = Len(responses) + 1 /\ FlightServing # 0
  BY <1>2, ActiveIsServed
<1>4. FlightAnswers' = Append(FlightAnswers, answer)
  <2>1. /\ responses \in Seq([request : Request, answer : Answer])
        /\ responses' = Append(responses, [request |-> worker.active, answer |-> answer])
    BY <1>1 DEF TypeOK, Respond
  <2>2. /\ Len(responses') = Len(responses) + 1 /\ Len(responses) \in Nat
        /\ DOMAIN responses' = 1 .. Len(responses) + 1 /\ DOMAIN responses = 1 .. Len(responses)
        /\ responses'[Len(responses) + 1].answer = answer
        /\ \A i \in 1 .. Len(responses) : responses'[i] = responses[i]
    BY <1>2, <2>1
  <2>3. FlightAnswers = [i \in 1 .. Len(responses) |-> responses[i].answer]
    BY <2>2 DEF FlightAnswers
  <2>4. FlightAnswers' = [i \in 1 .. Len(responses) + 1 |-> responses'[i].answer]
    BY <2>2 DEF FlightAnswers
  <2>5. \A i \in 1 .. Len(responses) : responses[i].answer \in Answer
    <3>1. \A i \in 1 .. Len(responses) : responses[i] \in [request : Request, answer : Answer]
      BY <2>1, ElementOfSeq
    <3>2. QED
      BY <3>1
  <2>6. FlightAnswers \in Seq(Answer) /\ Len(FlightAnswers) = Len(responses)
    BY <2>2, <2>3, <2>5
  <2>7. QED
    BY <2>2, <2>3, <2>4, <2>6
<1>5. FlightServing' \in {0, FlightServing + 1} /\ FlightServing' <= submitted
  <2>1. CASE worker' = Idle \/ worker' = Stopped
    <3>1. FlightServing' = 0
      BY <2>1, StateFields DEF FlightServing, Request, None
    <3>2. QED
      BY <3>1, TakenType
  <2>2. CASE worker' = Serving(worker.interrupt) /\ worker.interrupt \in Request /\ Interrupting
    <3>1. worker.interrupt = Len(responses) + 2 /\ worker'.active = worker.interrupt
      BY <2>2, StateFields DEF Line
    <3>2. FlightServing' = worker.interrupt
      BY <2>2, <3>1 DEF FlightServing
    <3>3. Taken = worker.interrupt
      BY <1>2, <2>2, <3>1, TakenType DEF Taken, Spawns, Request, None
    <3>4. QED
      BY <1>3, <3>1, <3>2, <3>3, TakenType DEF Line
  <2>3. QED
    BY <1>2, <2>1, <2>2
<1>6. Flight!AnswerServed(answer)
  BY <1>1, <1>2, <1>3, <1>4, <1>5 DEF Flight!AnswerServed, uiVars
<1>7. QED
  BY <1>6 DEF Flight!FlightNext, Flight!Answer, Answer

LEMMA FlightStep ==
  ASSUME WorkerInv, DbInv, WorkerInv', DbInv', [Next]_vars
  PROVE  [Flight!FlightNext]_Flight!flightVars
<1>1. CASE Database
  BY <1>1, DatabaseApplies
<1>2. CASE ~Database
  <2>1. FlightApplied' = FlightApplied
    BY <1>2, CommitsNothing
  <2>2. CASE Submit
    <3>1. UNCHANGED <<FlightServing, FlightAnswers>>
      BY <2>2, FlightFrame DEF Submit
    <3>2. Flight!SubmitRequest
      BY <2>1, <2>2, <3>1 DEF Flight!SubmitRequest, Submit
    <3>3. QED
      BY <3>2 DEF Flight!FlightNext
  <2>3. CASE ServeOutcome \/ Answers
    BY <2>1, <2>3, AnswersServe DEF WorkerInv
  <2>4. CASE Receive
    <3>1. /\ worker.active = None /\ UNCHANGED <<submitted, responses>> /\ commands # <<>>
          /\ FlightServing = 0 /\ FlightAnswers' = FlightAnswers
      BY <2>4 DEF Receive, WorkerInv, Control, FlightServing, FlightAnswers, Request, None
    <3>2. CASE Head(commands) = CancelActive
      BY <2>1, <2>4, <3>1, <3>2, FlightFrame DEF Receive, Flight!flightVars
    <3>3. CASE Head(commands) # CancelActive
      <4>1. Head(commands) \in Request
        BY <3>1, <3>3, TakeCommand, CommandCases DEF WorkerInv, TypeOK
      <4>2. worker'.active = Head(commands)
        BY <2>4, <3>3, StateFields DEF Receive
      <4>3. Head(commands) = Len(responses) + 1 /\ Head(commands) <= submitted
        BY <2>4, <3>1, <4>1, QueueHead, TakenType DEF WorkerInv, Taken, Spawns, Interrupting, Receive
      <4>4. FlightServing' = Len(responses) + 1
        BY <4>1, <4>2, <4>3 DEF FlightServing
      <4>5. Len(FlightAnswers) = Len(responses)
        BY DEF FlightAnswers, WorkerInv, TypeOK
      <4>6. Flight!StartServing
        BY <2>1, <3>1, <4>3, <4>4, <4>5, TakenType DEF Flight!StartServing, WorkerInv
      <4>7. QED
        BY <4>6 DEF Flight!FlightNext
    <3>4. QED
      BY <3>2, <3>3
  <2>5. CASE RequestCancel \/ Close \/ Stop \/ Interrupt \/ Waits \/ (\E r \in Request : Task(r))
             \/ UNCHANGED vars
    <3>1. /\ worker'.active = worker.active /\ UNCHANGED <<submitted, responses>>
      BY <2>5, WaitsFrame, TaskFrame, StateFields
      DEF RequestCancel, Close, Stop, Interrupt, StartCanceling, uiVars, vars, WorkerInv, Control,
          TypeOK, WorkerState
    <3>2. UNCHANGED <<FlightServing, FlightAnswers>>
      BY <3>1 DEF FlightServing, FlightAnswers
    <3>3. QED
      BY <2>1, <3>1, <3>2 DEF Flight!flightVars
  <2>6. QED
    BY <1>2, <2>2, <2>3, <2>4, <2>5, NextCases
<1>3. QED
  BY <1>1, <1>2

\* Requests are answered one at a time, in order, and truthfully: success means
\* that the change is committed, an error or a cancellation that it never will be.
THEOREM WorkerImplementsFlight == Spec => ImplementsSingleFlight
<1>1. Init => Flight!FlightInit
  <2> SUFFICES ASSUME Init
               PROVE  Flight!FlightInit
    OBVIOUS
  <2>1. FlightServing = 0
    BY DEF Init, Idle, FlightServing, Request, None
  <2>2. FlightAnswers = <<>>
    BY DEF Init, FlightAnswers
  <2>3. FlightApplied = {}
    BY DEF Init, DbInit, FlightApplied, Applied, Operations
  <2>4. QED
    BY <2>1, <2>2, <2>3 DEF Flight!FlightInit, Init
<1>2. QED
  BY <1>1, FlightStep, WorkerInvariance, PTL DEF Spec, ImplementsSingleFlight, Flight!FlightSpec
=============================================================================
