------------------------- MODULE CancellationProofs -------------------------
(***************************************************************************)
(* Proofs about module Cancellation, for any number of generations and     *)
(* connections and any pool size.                                          *)
(*                                                                         *)
(* The argument for the cancel request that meets no later operation: a    *)
(* request is written only for a generation that was the newest one when   *)
(* it was marked; from then on its client either still holds the           *)
(* connection or has thrown it away, so a later generation, which takes    *)
(* its connection from the pool or opens a new one, never gets that one.   *)
(***************************************************************************)
EXTENDS Cancellation, FiniteSetTheorems, TLAPS

\* Generations are begun in order, and none is connected before it waits for it.
Aging ==
    \A g \in Generation :
        /\ op[g].stage = "unborn" <=> g > generations
        /\ op[g].stage \in {"unborn", "acquiring"} => op[g].conn = NoConnection

\* The slot holds the newest operation for exactly as long as it is open.
Registry ==
    /\ \A g \in Generation : op[g].retired <=> Over(g)
    /\ registered # None => registered = generations /\ ~Over(registered)
    /\ NewestIsCancelable

Borrowing(g) == op[g].stage \in {"acquired", "active"}

\* A borrowed connection is out of the pool and has one borrower.
Lending ==
    /\ \A g \in Generation :
          Borrowing(g) => /\ op[g].conn \in Connection
                          /\ connection[op[g].conn] \in {"held", "broken"}
    /\ \A g, h \in Generation :
          Borrowing(g) /\ Borrowing(h) /\ op[g].conn = op[h].conn => g = h

\* The token is the connection, from activation on; only then is SQL sent.
Tokens ==
    \A g \in Generation :
        /\ op[g].token \in {op[g].conn, NoConnection}
        /\ op[g].stage \in {"unborn", "acquiring", "acquired"} => op[g].token = NoConnection
        /\ op[g].stage = "active" => op[g].token = op[g].conn
        /\ server[g] # "none" => op[g].token # NoConnection

\* A cancel request belongs to a marked client that is held or thrown away.
Canceling ==
    /\ cancelCall.target = None => cancelCall = NoCall
    /\ \A g \in Generation :
          CancelOutstanding(g) =>
              /\ op[g].canceled
              /\ op[g].token \in Connection
              /\ op[g].stage = "active" \/ connection[op[g].token] = "discarded"
    /\ CancelMeetsNoLaterOperation

DbInv ==
    /\ DbTypeOK
    /\ Aging
    /\ Registry
    /\ Lending
    /\ Tokens
    /\ Canceling
    /\ OutcomeIsTrue

LEMMA DbInitInv == DbInit => DbInv
  BY MaxGenerationAssumption, NoConnectionAssumption
  DEF DbInit, DbInv, DbTypeOK, Aging, Registry, NewestIsCancelable, Lending, Borrowing,
      Tokens, Canceling, CancelMeetsNoLaterOperation, CancelOutstanding, OutcomeIsTrue,
      Over, Outcome, Stage, ServerState, ConnectionState, OperationState, CancelCall,
      NewOperation, NoCall, Generation, None

\* Overwriting one operation with a well-typed one keeps the type.
LEMMA OperationUpdate ==
  ASSUME op \in [Generation -> OperationState], NEW g \in Generation,
         NEW new \in OperationState, op' = [op EXCEPT ![g] = new]
  PROVE  op' \in [Generation -> OperationState]
  OBVIOUS

LEMMA OperationFields ==
  ASSUME NEW o \in OperationState, NEW s \in Stage, NEW c \in Connection \union {NoConnection}
  PROVE  /\ [o EXCEPT !.stage = s, !.conn = c] \in OperationState
         /\ [o EXCEPT !.stage = s, !.token = c] \in OperationState
         /\ [o EXCEPT !.canceled = TRUE] \in OperationState
         /\ o.conn \in Connection \union {NoConnection}
  BY DEF OperationState

\* Retiring keeps the types of the registry and of the operations.
LEMMA RetiredType ==
  ASSUME DbTypeOK, NEW g \in Generation, NEW outcome \in Outcome, Retired(g, outcome)
  PROVE  /\ op' \in [Generation -> OperationState]
         /\ registered' \in Generation \union {None}
<1>1. op' \in [Generation -> OperationState]
  BY DEF DbTypeOK, Retired, OperationState, Stage
<1>2. registered' \in Generation \union {None}
  BY DEF DbTypeOK, Retired, RegistryAfterRetire
<1>3. QED
  BY <1>1, <1>2

\* Dropping a client keeps the types of all that it touches.
LEMMA DropClientType ==
  ASSUME DbTypeOK, NEW g \in Generation, NEW outcome \in Outcome, DropClient(g, outcome)
  PROVE  /\ op' \in [Generation -> OperationState]
         /\ registered' \in Generation \union {None}
         /\ connection' \in [Connection -> ConnectionState]
<1>1. connection' \in [Connection -> ConnectionState]
  BY DEF DbTypeOK, DropClient, ClientAfterDrop, ConnectionState
<1>2. QED
  BY <1>1, RetiredType DEF DropClient

LEMMA DbTypeStep == DbTypeOK /\ [DbNext]_dbVars => DbTypeOK'
<1> SUFFICES ASSUME DbTypeOK, [DbNext]_dbVars
             PROVE  DbTypeOK'
  OBVIOUS
<1> USE MaxGenerationAssumption, NoConnectionAssumption
    DEF DbTypeOK, OperationState, Stage, Outcome, Generation, None
<1>1. CASE Begin
  BY <1>1 DEF Begin
<1>2. ASSUME NEW g \in Generation, NEW c \in Connection, Acquire(g, c)
      PROVE  DbTypeOK'
  <2> DEFINE new == [op[g] EXCEPT !.stage = "acquired", !.conn = c]
  <2>1. op[g] \in OperationState /\ "acquired" \in Stage
    OBVIOUS
  <2>2. new \in OperationState
    BY <2>1, OperationFields
  <2>3. op' = [op EXCEPT ![g] = new]
    BY <1>2 DEF Acquire
  <2>4. op' \in [Generation -> OperationState]
    BY <2>2, <2>3, OperationUpdate
  <2>5. QED
    BY <1>2, <2>4 DEF Acquire, ConnectionState
<1>3. ASSUME NEW g \in Generation, Activate(g)
      PROVE  DbTypeOK'
  <2> DEFINE new == [op[g] EXCEPT !.stage = "active", !.token = op[g].conn]
  <2>1. op[g] \in OperationState /\ "active" \in Stage
    OBVIOUS
  <2>2. new \in OperationState
    BY <2>1, OperationFields
  <2>3. op' = [op EXCEPT ![g] = new]
    BY <1>3 DEF Activate
  <2>4. op' \in [Generation -> OperationState]
    BY <2>2, <2>3, OperationUpdate
  <2>5. QED
    BY <1>3, <2>4 DEF Activate
<1>4. ASSUME NEW g \in Generation, RefuseActivation(g)
      PROVE  DbTypeOK'
  <2>1. connection' \in [Connection -> ConnectionState]
    BY <1>4 DEF RefuseActivation, ConnectionState
  <2>2. QED
    BY <1>4, <2>1, RetiredType DEF RefuseActivation
<1>5. ASSUME NEW g \in Generation, FailAcquire(g)
      PROVE  DbTypeOK'
  BY <1>5, RetiredType DEF FailAcquire
<1>6. ASSUME NEW g \in Generation, SendStatement(g)
      PROVE  DbTypeOK'
  BY <1>6 DEF SendStatement, ServerState
<1>7. ASSUME NEW g \in Generation, SendCommit(g)
      PROVE  DbTypeOK'
  BY <1>7 DEF SendCommit, ServerState
<1>8. ASSUME NEW g \in Generation, NEW outcome \in Outcome, Finish(g, outcome)
      PROVE  DbTypeOK'
  BY <1>8, DropClientType DEF Finish
<1>9. ASSUME NEW g \in Generation, DropWaiting(g)
      PROVE  DbTypeOK'
  BY <1>9, RetiredType DEF DropWaiting
<1>10. ASSUME NEW g \in Generation, DropActive(g)
      PROVE  DbTypeOK'
  BY <1>10, DropClientType DEF DropActive
<1>11. CASE MarkCanceled
  <2>1. registered \in Generation
    BY <1>11 DEF MarkCanceled, Cancelable
  <2> DEFINE new == [op[registered] EXCEPT !.canceled = TRUE]
  <2>2. op[registered] \in OperationState /\ "active" \in Stage
    BY <2>1
  <2>3. new \in OperationState
    BY <2>2, OperationFields
  <2>4. op' = [op EXCEPT ![registered] = new]
    BY <1>11 DEF MarkCanceled
  <2>5. op' \in [Generation -> OperationState]
    BY <2>1, <2>3, <2>4, OperationUpdate
  <2>6. cancelCall' \in CancelCall
    BY <1>11, <2>1 DEF MarkCanceled, NoCall, CancelCall
  <2>7. QED
    BY <1>11, <2>5, <2>6 DEF MarkCanceled
<1>12. CASE WriteCancel
  BY <1>12 DEF WriteCancel, CancelCall
<1>13. CASE EndCancel
  BY <1>13 DEF EndCancel, CancelCall, NoCall
<1>14. CASE ServerStep
  BY <1>14 DEF ServerStep, StartStatement, EndStatement, Rollback, EndCommit, ServerState
<1>15. ASSUME NEW g \in Generation, CancelArrives(g)
      PROVE  DbTypeOK'
  BY <1>15 DEF CancelArrives, Interruptible, Backend, ServerState
<1>16. ASSUME NEW c \in Connection, LoseConnection(c)
      PROVE  DbTypeOK'
  BY <1>16 DEF LoseConnection, ConnectionState
<1>17. CASE UNCHANGED dbVars
  BY <1>17 DEF dbVars
<1>18. QED
  BY <1>1, <1>2, <1>3, <1>4, <1>5, <1>6, <1>7, <1>8, <1>9, <1>10, <1>11, <1>12, <1>13, <1>14, <1>15, <1>16, <1>17 DEF DbNext, Progress, Return, Drop, Environment

\* The parts of DbInv beside the type invariant.
DbStructure == Aging /\ Registry /\ Lending /\ Tokens /\ Canceling /\ OutcomeIsTrue

LEMMA DbStructureStep == DbInv /\ [DbNext]_dbVars => DbStructure'
<1> SUFFICES ASSUME DbInv, [DbNext]_dbVars
             PROVE  DbStructure'
  OBVIOUS
<1> DbTypeOK'
  BY DbTypeStep DEF DbInv
<1> USE MaxGenerationAssumption, NoConnectionAssumption
    DEF DbInv, DbStructure, DbTypeOK, OperationState, Outcome, Generation, None, Over,
        Aging, Registry, NewestIsCancelable, Lending, Borrowing, Tokens, Canceling,
        CancelMeetsNoLaterOperation, CancelOutstanding, OutcomeIsTrue
<1>1. CASE Begin
  BY <1>1 DEF Begin
<1>2. ASSUME NEW g \in Generation, NEW c \in Connection, Acquire(g, c)
      PROVE  DbStructure'
  BY <1>2 DEF Acquire
<1>3. ASSUME NEW g \in Generation, Activate(g)
      PROVE  DbStructure'
  BY <1>3 DEF Activate
<1>4. ASSUME NEW g \in Generation, RefuseActivation(g)
      PROVE  DbStructure'
  BY <1>4 DEF RefuseActivation, Retired, RegistryAfterRetire
<1>5. ASSUME NEW g \in Generation, FailAcquire(g)
      PROVE  DbStructure'
  BY <1>5 DEF FailAcquire, Retired, RegistryAfterRetire
<1>6. ASSUME NEW g \in Generation, SendStatement(g)
      PROVE  DbStructure'
  BY <1>6 DEF SendStatement
<1>7. ASSUME NEW g \in Generation, SendCommit(g)
      PROVE  DbStructure'
  BY <1>7 DEF SendCommit
<1>8. ASSUME NEW g \in Generation, NEW outcome \in Outcome, Finish(g, outcome)
      PROVE  DbStructure'
  BY <1>8 DEF Finish, DropClient, Retired, RegistryAfterRetire, ClientAfterDrop
<1>9. ASSUME NEW g \in Generation, DropWaiting(g)
      PROVE  DbStructure'
  BY <1>9 DEF DropWaiting, Retired, RegistryAfterRetire
<1>10. ASSUME NEW g \in Generation, DropActive(g)
      PROVE  DbStructure'
  BY <1>10 DEF DropActive, DropClient, Retired, RegistryAfterRetire, ClientAfterDrop
<1>11. CASE MarkCanceled
  <2>1. CASE CancelPending
    BY <1>11, <2>1 DEF MarkCanceled, Cancelable, CancelPending, NoCall
  <2>2. CASE ~CancelPending
    <3>1. op[registered].stage = "active" /\ op[registered].token \in Connection
      BY <1>11, <2>2 DEF MarkCanceled, Cancelable, CancelPending, Stage
    <3>2. Aging' /\ Registry' /\ Lending' /\ Tokens' /\ OutcomeIsTrue'
      BY <1>11, <2>2 DEF MarkCanceled, Cancelable
    <3>3. Canceling'
      BY <1>11, <2>2, <3>1 DEF MarkCanceled, Cancelable
    <3>4. QED
      BY <3>2, <3>3
  <2>3. QED
    BY <2>1, <2>2
<1>12. CASE WriteCancel
  BY <1>12 DEF WriteCancel
<1>13. CASE EndCancel
  BY <1>13 DEF EndCancel, NoCall
<1>14. CASE ServerStep
  <2>1. PICK g \in Generation : StartStatement(g) \/ EndStatement(g) \/ Rollback(g) \/ EndCommit(g)
    BY <1>14 DEF ServerStep
  <2>2. /\ server[g] \in {"sent", "running", "executed", "committing"}
        /\ \E s \in ServerState \ {"none"} : server' = [server EXCEPT ![g] = s]
    BY <2>1 DEF StartStatement, EndStatement, Rollback, EndCommit, ServerState
  <2>3. UNCHANGED <<generations, registered, op, connection, cancelCall, inFlight>>
    BY <1>14 DEF ServerStep
  <2>4. Aging' /\ Registry' /\ Lending' /\ Tokens' /\ Canceling'
    BY <2>2, <2>3
  <2>5. OutcomeIsTrue'
    BY <2>2, <2>3
  <2>6. QED
    BY <2>4, <2>5
<1>15. ASSUME NEW g \in Generation, CancelArrives(g)
      PROVE  DbStructure'
  BY <1>15 DEF CancelArrives, Interruptible, Backend
<1>16. ASSUME NEW c \in Connection, LoseConnection(c)
      PROVE  DbStructure'
  BY <1>16 DEF LoseConnection
<1>17. CASE UNCHANGED dbVars
  BY <1>17 DEF dbVars
<1> HIDE DEF DbInv, DbStructure, DbTypeOK, Aging, Registry, Lending, Tokens, Canceling,
            CancelMeetsNoLaterOperation, OutcomeIsTrue
<1>18. QED
  BY <1>1, <1>2, <1>3, <1>4, <1>5, <1>6, <1>7, <1>8, <1>9, <1>10, <1>11, <1>12, <1>13, <1>14, <1>15, <1>16, <1>17 DEF DbNext, Progress, Return, Drop, Environment

THEOREM DbInvariance == DbSpec => []DbInv
<1>1. DbInv /\ [DbNext]_dbVars => DbInv'
  BY DbTypeStep, DbStructureStep DEF DbInv, DbStructure
<1>2. QED
  BY DbInitInv, <1>1, PTL DEF DbSpec

\* Every state of every behaviour is well-typed.
THEOREM DbTypeCorrect == DbSpec => []DbTypeOK
  BY DbInvariance, PTL DEF DbInv

\* A cancel request never meets an operation that began after its own.
THEOREM NoLateCancel == DbSpec => []CancelMeetsNoLaterOperation
<1>1. DbInv => CancelMeetsNoLaterOperation
  BY DEF DbInv, Canceling
<1>2. QED
  BY <1>1, DbInvariance, PTL

\* No connection in the pool can still be reached by a cancel request.
THEOREM PoolStaysClean == DbSpec => []PoolIsClean
<1>1. DbInv => PoolIsClean
  BY DEF DbInv, Canceling, PoolIsClean, Lending, Borrowing, Tokens
<1>2. QED
  BY <1>1, DbInvariance, PTL

\* The newest open operation is always the one that cancel_current would mark.
THEOREM NewestStaysCancelable == DbSpec => []NewestIsCancelable
<1>1. DbInv => NewestIsCancelable
  BY DEF DbInv, Registry
<1>2. QED
  BY <1>1, DbInvariance, PTL

\* What with_client returned stays true of the database.
THEOREM OutcomeStaysTrue == DbSpec => []OutcomeIsTrue
<1>1. DbInv => OutcomeIsTrue
  BY DEF DbInv
<1>2. QED
  BY <1>1, DbInvariance, PTL

\* A cancellation that comes while an operation waits for a client stops it.
THEOREM CanceledWaitStops == DbSpec => CanceledWaitNeverRuns
<1> DEFINE Step == \A g \in Generation :
                      op[g].canceled /\ op[g].token = NoConnection =>
                          op'[g].token = NoConnection /\ server'[g] = "none"
<1>1. DbInv /\ DbInv' /\ [DbNext]_dbVars => [Step]_dbVars
  <2> SUFFICES ASSUME DbInv, DbInv', DbNext, NEW g \in Generation,
                      op[g].canceled, op[g].token = NoConnection
               PROVE  op'[g].token = NoConnection /\ server'[g] = "none"
    OBVIOUS
  <2>1. op'[g].token = NoConnection
    <3> USE DEF DbInv, DbTypeOK, OperationState, Generation
    <3>1. CASE UNCHANGED op
      BY <3>1
    <3>2. CASE Begin
      BY <3>2 DEF Begin
    <3>3. ASSUME NEW h \in Generation, NEW c \in Connection, Acquire(h, c)
          PROVE  op'[g].token = NoConnection
      BY <3>3 DEF Acquire
    <3>4. ASSUME NEW h \in Generation, Activate(h)
          PROVE  op'[g].token = NoConnection
      BY <3>4 DEF Activate
    <3>5. ASSUME NEW h \in Generation, NEW outcome, Retired(h, outcome)
          PROVE  op'[g].token = NoConnection
      BY <3>5 DEF Retired
    <3>6. CASE MarkCanceled
      BY <3>6 DEF MarkCanceled
    <3>7. QED
      BY <3>1, <3>2, <3>3, <3>4, <3>5, <3>6
      DEF DbNext, Progress, SendStatement, SendCommit, Return, FailAcquire,
          RefuseActivation, Finish, Drop, DropWaiting, DropActive, DropClient,
          WriteCancel, EndCancel, Environment, ServerStep, CancelArrives, LoseConnection
  <2>2. server'[g] = "none"
    BY <2>1 DEF DbInv, Tokens
  <2>3. QED
    BY <2>1, <2>2
<1>2. QED
  BY <1>1, DbInvariance, PTL DEF DbSpec, CanceledWaitNeverRuns

\* Nobody is forgotten by the pool: a connection that is out has a borrower.
HasBorrower(c) == \E g \in Generation : Borrowing(g) /\ op[g].conn = c
Lent == \A c \in Connection : connection[c] \in {"held", "broken"} => HasBorrower(c)

\* Whoever stops borrowing gives the connection back or throws it away; the
\* connections of the others stay where they are.
LEMMA ReturnKeepsLent ==
  ASSUME DbInv, Lent, NEW g \in Generation, Borrowing(g), NEW outcome \in Outcome,
         Retired(g, outcome), NEW place \in {"idle", "discarded"},
         connection' = [connection EXCEPT ![op[g].conn] = place]
  PROVE  Lent'
<1> SUFFICES ASSUME NEW c \in Connection, connection'[c] \in {"held", "broken"}
             PROVE  HasBorrower(c)'
  BY DEF Lent
<1>1. c # op[g].conn /\ connection[c] \in {"held", "broken"}
  BY DEF DbInv, DbTypeOK, Lending
<1>2. PICK h \in Generation : Borrowing(h) /\ op[h].conn = c
  BY <1>1 DEF Lent, HasBorrower
<1>3. op'[h] = op[h]
  BY <1>1, <1>2 DEF Retired, DbInv, DbTypeOK
<1>4. QED
  BY <1>2, <1>3 DEF HasBorrower, Borrowing

\* A step that leaves borrowers their connections, and lends none.
LEMMA StayingKeepsLent ==
  ASSUME DbInv, Lent,
         \A c \in Connection : connection'[c] \in {"held", "broken"} =>
             connection[c] \in {"held", "broken"},
         \A g \in Generation : Borrowing(g) => Borrowing(g)' /\ op'[g].conn = op[g].conn
  PROVE  Lent'
<1> SUFFICES ASSUME NEW c \in Connection, connection'[c] \in {"held", "broken"}
             PROVE  HasBorrower(c)'
  BY DEF Lent
<1>1. PICK h \in Generation : Borrowing(h) /\ op[h].conn = c
  BY DEF Lent, HasBorrower
<1>2. QED
  BY <1>1 DEF HasBorrower

LEMMA LentStep == DbInv /\ Lent /\ [DbNext]_dbVars => Lent'
<1> SUFFICES ASSUME DbInv, Lent, [DbNext]_dbVars
             PROVE  Lent'
  OBVIOUS
<1> USE DEF DbTypeOK, OperationState
<1>1. CASE Begin
  <2>1. generations + 1 \in Generation /\ op[generations + 1].stage = "unborn"
    BY <1>1, MaxGenerationAssumption DEF Begin, DbInv, Aging, Generation
  <2>2. QED
    BY <1>1, <2>1, StayingKeepsLent DEF Begin, DbInv, Borrowing
<1>2. ASSUME NEW g \in Generation, NEW c \in Connection, Acquire(g, c)
      PROVE  Lent'
  <2> SUFFICES ASSUME NEW d \in Connection, connection'[d] \in {"held", "broken"}
               PROVE  HasBorrower(d)'
    BY DEF Lent
  <2>1. Borrowing(g)' /\ op'[g].conn = c
    BY <1>2 DEF Acquire, DbInv, Borrowing
  <2>2. CASE d = c
    BY <2>1, <2>2 DEF HasBorrower
  <2>3. CASE d # c
    <3>1. PICK h \in Generation : Borrowing(h) /\ op[h].conn = d
      BY <1>2, <2>3 DEF Acquire, DbInv, Lent, HasBorrower
    <3>2. op'[h] = op[h]
      BY <1>2, <3>1 DEF Acquire, DbInv, Borrowing
    <3>3. QED
      BY <3>1, <3>2 DEF HasBorrower, Borrowing
  <2>4. QED
    BY <2>2, <2>3
<1>3. ASSUME NEW g \in Generation, Activate(g)
      PROVE  Lent'
  BY <1>3, StayingKeepsLent DEF Activate, DbInv, Borrowing
<1>4. ASSUME NEW g \in Generation, RefuseActivation(g)
      PROVE  Lent'
  <2>1. Borrowing(g) /\ Retired(g, "canceled") /\ "canceled" \in Outcome
    BY <1>4 DEF RefuseActivation, Borrowing, Outcome
  <2>2. \E place \in {"idle", "discarded"} : connection' = [connection EXCEPT ![op[g].conn] = place]
    BY <1>4 DEF RefuseActivation
  <2>3. QED
    BY <2>1, <2>2, ReturnKeepsLent
<1>5. ASSUME NEW g \in Generation, NEW outcome \in Outcome, Retired(g, outcome),
             op[g].stage = "acquiring", UNCHANGED connection
      PROVE  Lent'
  BY <1>5, StayingKeepsLent DEF Retired, DbInv, Borrowing
<1>6. ASSUME NEW g \in Generation, NEW outcome \in Outcome, DropClient(g, outcome),
             op[g].stage = "active"
      PROVE  Lent'
  <2>1. Borrowing(g) /\ Retired(g, outcome)
    BY <1>6 DEF DropClient, Borrowing
  <2>2. \E place \in {"idle", "discarded"} : connection' = [connection EXCEPT ![op[g].conn] = place]
    BY <1>6 DEF DropClient, ClientAfterDrop
  <2>3. QED
    BY <2>1, <2>2, ReturnKeepsLent
<1>7. CASE MarkCanceled
  BY <1>7, StayingKeepsLent DEF MarkCanceled, DbInv, Borrowing
<1>8. CASE UNCHANGED <<op, connection>>
  BY <1>8, StayingKeepsLent DEF Borrowing
<1>9. ASSUME NEW c \in Connection, LoseConnection(c)
      PROVE  Lent'
  BY <1>9, StayingKeepsLent DEF LoseConnection, DbInv, Borrowing
<1>10. "failed" \in Outcome /\ "dropped" \in Outcome
  BY DEF Outcome
<1>11. QED
  BY <1>1, <1>2, <1>3, <1>4, <1>5, <1>6, <1>7, <1>8, <1>9, <1>10
  DEF DbNext, Progress, SendStatement, SendCommit, Return, FailAcquire, Finish, Drop,
      DropWaiting, DropActive, WriteCancel, EndCancel, Environment, ServerStep,
      CancelArrives, dbVars

\* Who borrows a connection: the one operation that has it, or nobody.
LEMMA BorrowersCounted ==
  ASSUME DbInv, Lent, NEW c \in Connection
  PROVE  Cardinality(Borrowers(c)) = (IF connection[c] \in {"held", "broken"} THEN 1 ELSE 0)
<1>1. CASE connection[c] \in {"held", "broken"}
  <2>1. PICK g \in Generation : Borrowing(g) /\ op[g].conn = c
    BY <1>1 DEF Lent, HasBorrower
  <2>2. Borrowers(c) = {g}
    BY <2>1 DEF Borrowers, Borrowing, DbInv, Lending
  <2>3. QED
    BY <1>1, <2>2, FS_Singleton
<1>2. CASE connection[c] \notin {"held", "broken"}
  <2>1. Borrowers(c) = {}
    BY <1>2 DEF Borrowers, Borrowing, DbInv, Lending
  <2>2. QED
    BY <1>2, <2>1, FS_EmptySet
<1>3. QED
  BY <1>1, <1>2

\* A connection that is out of the pool has exactly one borrower, and one in
\* the pool or gone has none: whatever is canceled, dropped or lost, the pool
\* loses no slot and lends none twice.
THEOREM LendingStaysExclusive == DbSpec => []LendingIsExclusive
<1>1. DbInit => Lent
  BY DEF DbInit, Lent
<1>2. DbInv /\ Lent => LendingIsExclusive
  BY BorrowersCounted DEF LendingIsExclusive
<1>3. QED
  BY <1>1, <1>2, LentStep, DbInvariance, PTL DEF DbSpec
=============================================================================
