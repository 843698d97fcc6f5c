---------------------------- MODULE Cancellation ----------------------------
(***************************************************************************)
(* One database operation of poqi and its cancellation: crates/db.         *)
(*                                                                         *)
(* Database::with_client opens a GENERATION in the CancellationRegistry,   *)
(* waits for a pooled connection, activates the generation with that       *)
(* connection's cancel token and runs one transaction on it.               *)
(* cancel_current marks the registered generation and then, with no lock   *)
(* held, writes a cancel request to the server over a second connection.   *)
(* The request names a backend, not a statement, and it may arrive at any  *)
(* later time: what keeps it from killing somebody else's statement is     *)
(* that a marked client is thrown away instead of going back to the pool.  *)
(*                                                                         *)
(* The server and the pool (tokio-postgres, deadpool, PostgreSQL) are      *)
(* external and modelled from how crates/db and crates/engine use them.    *)
(***************************************************************************)
EXTENDS Naturals, FiniteSets

CONSTANTS
    MaxGeneration,  \* bound on the operations of one behaviour
    Connection,     \* the physical connections that may ever be opened
    NoConnection,
    PoolSize        \* Pool::builder().max_size

ASSUME MaxGenerationAssumption == MaxGeneration \in Nat \ {0}
ASSUME NoConnectionAssumption == NoConnection \notin Connection
ASSUME PoolSizeAssumption == PoolSize \in Nat \ {0}

Generation == 1 .. MaxGeneration
None == 0

VARIABLES
    generations,  \* next_generation - 1: how many operations have begun
    registered,   \* CancellationRegistry.active
    op,           \* per generation: its OperationState and with_client's progress
    connection,   \* per connection: where it is
    server,       \* per generation: its transaction, as the server sees it
    cancelCall,   \* the suspended cancel_current future, if any
    inFlight      \* generations whose cancel request travels to the server

dbVars == <<generations, registered, op, connection, server, cancelCall, inFlight>>

-----------------------------------------------------------------------------
Outcome == {"ok", "failed", "canceled", "lost", "dropped"}
Stage == {"unborn", "acquiring", "acquired", "active"} \union Outcome
ServerState == {"none", "sent", "running", "executed", "committing",
                "committed", "aborted", "canceled"}
ConnectionState == {"unopened", "idle", "held", "broken", "discarded"}
OperationState == [stage : Stage, canceled : BOOLEAN, retired : BOOLEAN,
                   conn : Connection \union {NoConnection},
                   token : Connection \union {NoConnection}]
CancelCall == [target : Generation \union {None}, written : BOOLEAN]

NewOperation == [stage |-> "unborn", canceled |-> FALSE, retired |-> FALSE,
                 conn |-> NoConnection, token |-> NoConnection]
NoCall == [target |-> None, written |-> FALSE]

DbTypeOK ==
    /\ generations \in 0 .. MaxGeneration
    /\ registered \in Generation \union {None}
    /\ op \in [Generation -> OperationState]
    /\ connection \in [Connection -> ConnectionState]
    /\ server \in [Generation -> ServerState]
    /\ cancelCall \in CancelCall
    /\ inFlight \subseteq Generation

DbInit ==
    /\ generations = 0
    /\ registered = None
    /\ op = [g \in Generation |-> NewOperation]
    /\ connection = [c \in Connection |-> "unopened"]
    /\ server = [g \in Generation |-> "none"]
    /\ cancelCall = NoCall
    /\ inFlight = {}

-----------------------------------------------------------------------------
(* with_client, step by step.                                              *)

\* CancellationRegistry::begin: the newest operation takes the one slot.
Begin ==
    /\ generations < MaxGeneration
    /\ generations' = generations + 1
    /\ registered' = generations + 1
    /\ op' = [op EXCEPT ![generations + 1].stage = "acquiring"]
    /\ UNCHANGED <<connection, server, cancelCall, inFlight>>

Opened == {c \in Connection : connection[c] \in {"idle", "held", "broken"}}

\* pool.get().await hands out an idle client, or opens a connection when the
\* pool is below its size. A generation waits here for as long as it takes.
Acquire(g, c) ==
    /\ op[g].stage = "acquiring"
    /\ \/ connection[c] = "idle"
       \/ connection[c] = "unopened" /\ Cardinality(Opened) < PoolSize
    /\ connection' = [connection EXCEPT ![c] = "held"]
    /\ op' = [op EXCEPT ![g].stage = "acquired", ![g].conn = c]
    /\ UNCHANGED <<generations, registered, server, cancelCall, inFlight>>

\* Mutant: retire forgets to compare the generation with the registered one.
RegistryAlwaysCleared(g) == None

\* CancellationRegistry::retire, reached by dropping the guard: in one critical
\* section the generation is retired and, when it is the registered one, the
\* slot is emptied.
RegistryAfterRetire(g) == IF registered = g THEN None ELSE registered
Retired(g, outcome) ==
    /\ registered' = RegistryAfterRetire(g)
    /\ op' = [op EXCEPT ![g].stage = outcome, ![g].retired = TRUE]

\* Mutant: activate does not look at the mark.
ActivateAnyway(g) ==
    /\ op[g].stage = "acquired"
    /\ op' = [op EXCEPT ![g].stage = "active", ![g].token = op[g].conn]
    /\ UNCHANGED <<generations, registered, connection, server, cancelCall, inFlight>>

\* CancellationGuard::activate stores the token, unless a cancellation came
\* while the operation was waiting: then the generation is retired first and
\* the untouched client goes back to the pool.
Activate(g) ==
    /\ op[g].stage = "acquired"
    /\ ~op[g].canceled
    /\ op' = [op EXCEPT ![g].stage = "active", ![g].token = op[g].conn]
    /\ UNCHANGED <<generations, registered, connection, server, cancelCall, inFlight>>

\* Mutant: the client of a refused activation is forgotten.
RefuseAndForget(g) ==
    /\ op[g].stage = "acquired"
    /\ op[g].canceled
    /\ Retired(g, "canceled")
    /\ UNCHANGED <<generations, connection, server, cancelCall, inFlight>>

RefuseActivation(g) ==
    /\ op[g].stage = "acquired"
    /\ op[g].canceled
    /\ Retired(g, "canceled")
    /\ connection' = [connection EXCEPT ![op[g].conn] = IF @ = "broken" THEN "discarded" ELSE "idle"]
    /\ UNCHANGED <<generations, server, cancelCall, inFlight>>

\* pool.get() fails: DatabaseError::Acquire, the guard is dropped.
FailAcquire(g) ==
    /\ op[g].stage = "acquiring"
    /\ Retired(g, "failed")
    /\ UNCHANGED <<generations, connection, server, cancelCall, inFlight>>

\* The closure of run_transaction (or a single prepared statement): BEGIN ..
\* statement, and once its rows are in, COMMIT.
SendStatement(g) ==
    /\ op[g].stage = "active"
    /\ connection[op[g].conn] = "held"
    /\ server[g] = "none"
    /\ server' = [server EXCEPT ![g] = "sent"]
    /\ UNCHANGED <<generations, registered, op, connection, cancelCall, inFlight>>

SendCommit(g) ==
    /\ op[g].stage = "active"
    /\ connection[op[g].conn] = "held"
    /\ server[g] = "executed"
    /\ server' = [server EXCEPT ![g] = "committing"]
    /\ UNCHANGED <<generations, registered, op, connection, cancelCall, inFlight>>

\* Mutant: a marked client goes back to the pool.
ClientReused(g) == IF connection[op[g].conn] = "broken" THEN "discarded" ELSE "idle"

\* PooledClient::drop retires the generation, and a client that a cancellation
\* marked is taken out of the pool. (Fast recycling drops a broken one.)
ClientAfterDrop(g) ==
    IF op[g].canceled \/ connection[op[g].conn] = "broken" THEN "discarded" ELSE "idle"
DropClient(g, outcome) ==
    /\ Retired(g, outcome)
    /\ connection' = [connection EXCEPT ![op[g].conn] = ClientAfterDrop(g)]

\* Mutant: the result is returned as soon as the statement has run.
FinishEarly(g, outcome) ==
    /\ op[g].stage = "active"
    /\ \/ outcome = "ok" /\ server[g] \in {"executed", "committed"}
       \/ outcome = "failed" /\ server[g] = "aborted"
       \/ outcome = "canceled" /\ server[g] = "canceled"
       \/ outcome = "lost" /\ connection[op[g].conn] = "broken"
    /\ DropClient(g, outcome)
    /\ UNCHANGED <<generations, server, cancelCall, inFlight>>

\* with_client returns. SQLSTATE 57014 reads as canceled, a closed connection
\* as ConnectionLost; nothing is ever sent a second time.
Finish(g, outcome) ==
    /\ op[g].stage = "active"
    /\ \/ outcome = "ok" /\ server[g] = "committed"
       \/ outcome = "failed" /\ server[g] = "aborted"
       \/ outcome = "canceled" /\ server[g] = "canceled"
       \/ outcome = "lost" /\ connection[op[g].conn] = "broken"
    /\ DropClient(g, outcome)
    /\ UNCHANGED <<generations, server, cancelCall, inFlight>>

\* The future is dropped at an await: while waiting for a client or inside the
\* transaction. Dropping the transaction queues a ROLLBACK behind whatever the
\* connection is doing.
DropWaiting(g) ==
    /\ op[g].stage = "acquiring"
    /\ Retired(g, "dropped")
    /\ UNCHANGED <<generations, connection, server, cancelCall, inFlight>>

DropActive(g) ==
    /\ op[g].stage = "active"
    /\ DropClient(g, "dropped")
    /\ UNCHANGED <<generations, server, cancelCall, inFlight>>

Drop(g) == DropWaiting(g) \/ DropActive(g)

Return(g, outcome) ==
    \/ outcome = "failed" /\ FailAcquire(g)
    \/ outcome = "canceled" /\ RefuseActivation(g)
    \/ Finish(g, outcome)

Progress(g) ==
    \/ \E c \in Connection : Acquire(g, c)
    \/ Activate(g)
    \/ SendStatement(g)
    \/ SendCommit(g)

-----------------------------------------------------------------------------
(* cancel_current.                                                         *)

\* Under the registry's read lock the registered generation is marked. Without
\* a token there is nothing to send: the mark stops the activation.
Cancelable == registered # None /\ ~op[registered].retired
CancelPending == registered # None /\ op[registered].token = NoConnection

\* Mutant: the request is sent, but the client is not marked.
CancelUnmarked ==
    /\ cancelCall = NoCall
    /\ Cancelable
    /\ cancelCall' = IF CancelPending THEN NoCall
                     ELSE [target |-> registered, written |-> FALSE]
    /\ UNCHANGED <<generations, registered, op, connection, server, inFlight>>

MarkCanceled ==
    /\ cancelCall = NoCall
    /\ Cancelable
    /\ op' = [op EXCEPT ![registered].canceled = TRUE]
    /\ cancelCall' = IF CancelPending THEN NoCall
                     ELSE [target |-> registered, written |-> FALSE]
    /\ UNCHANGED <<generations, registered, connection, server, inFlight>>

\* The cancel request leaves; the future may be suspended before and after.
WriteCancel ==
    /\ cancelCall.target # None
    /\ ~cancelCall.written
    /\ cancelCall' = [cancelCall EXCEPT !.written = TRUE]
    /\ inFlight' = inFlight \union {cancelCall.target}
    /\ UNCHANGED <<generations, registered, op, connection, server>>

\* The future resolves with Ok(true), fails, or is dropped by its caller.
EndCancel ==
    /\ cancelCall.target # None
    /\ cancelCall' = NoCall
    /\ UNCHANGED <<generations, registered, op, connection, server, inFlight>>

-----------------------------------------------------------------------------
(* The server (external). A backend works through its connection in order. *)

Backend(c) == {g \in Generation : op[g].conn = c}
Busy(c) == \E g \in Backend(c) : server[g] \in {"running", "executed", "committing"}

StartStatement(g) ==
    /\ server[g] = "sent"
    /\ ~Busy(op[g].conn)
    /\ server' = [server EXCEPT ![g] = "running"]

\* A statement yields its rows, fails, or is stopped by the statement timeout
\* or an administrator: SQLSTATE 57014 without any cancel request of poqi.
EndStatement(g) ==
    /\ server[g] = "running"
    /\ \E s \in {"executed", "aborted", "canceled"} :
          server' = [server EXCEPT ![g] = s]

\* The ROLLBACK of an abandoned transaction, or the end of its session.
Rollback(g) ==
    /\ \/ server[g] = "executed" /\ op[g].stage \in Outcome
       \/ server[g] \in {"sent", "running", "executed"} /\ connection[op[g].conn] = "broken"
    /\ server' = [server EXCEPT ![g] = "aborted"]

EndCommit(g) ==
    /\ server[g] = "committing"
    /\ \E s \in {"committed", "aborted"} : server' = [server EXCEPT ![g] = s]

ServerStep ==
    /\ \E g \in Generation :
          StartStatement(g) \/ EndStatement(g) \/ Rollback(g) \/ EndCommit(g)
    /\ UNCHANGED <<generations, registered, op, connection, cancelCall, inFlight>>

\* A cancel request interrupts whatever its backend runs when it arrives; a
\* commit may already be past the point where it can be interrupted.
Interruptible(c) == {h \in Backend(c) : server[h] \in {"running", "committing"}}
CancelArrives(g) ==
    /\ g \in inFlight
    /\ inFlight' = inFlight \ {g}
    /\ \/ UNCHANGED server
       \/ \E h \in Interruptible(op[g].token) : server' = [server EXCEPT ![h] = "canceled"]
    /\ UNCHANGED <<generations, registered, op, connection, cancelCall>>

\* The connection under a client dies.
LoseConnection(c) ==
    /\ connection[c] \in {"idle", "held"}
    /\ connection' = [connection EXCEPT ![c] = IF @ = "held" THEN "broken" ELSE "discarded"]
    /\ UNCHANGED <<generations, registered, op, server, cancelCall, inFlight>>

Environment ==
    \/ ServerStep
    \/ \E g \in Generation : CancelArrives(g)
    \/ \E c \in Connection : LoseConnection(c)

-----------------------------------------------------------------------------
(* The crate on its own: any number of operations at once, canceled and    *)
(* dropped at any time. EngineWorker restricts both.                       *)

DbNext ==
    \/ Begin
    \/ \E g \in Generation :
          \/ Progress(g)
          \/ \E outcome \in Outcome : Return(g, outcome)
          \/ Drop(g)
    \/ MarkCanceled
    \/ WriteCancel
    \/ EndCancel
    \/ Environment

DbSpec == DbInit /\ [][DbNext]_dbVars

-----------------------------------------------------------------------------
(* Properties.                                                             *)

Over(g) == op[g].stage \in Outcome

\* A cancel request of this generation can still reach its backend.
CancelOutstanding(g) == g \in inFlight \/ cancelCall.target = g

\* No cancel request can ever meet an operation that began after the one it
\* was written for: their backends differ for as long as it can arrive
\* (cancellation.rs, cancel_current; client.rs, PooledClient::drop).
CancelMeetsNoLaterOperation ==
    \A g, h \in Generation :
        CancelOutstanding(g) /\ h > g => op[h].conn # op[g].token

\* A connection that a cancel request can still reach is not in the pool
\* (client.rs, PooledClient::drop).
PoolIsClean ==
    \A g \in Generation : CancelOutstanding(g) => connection[op[g].token] # "idle"

\* The newest operation can be canceled from its begin to the moment its client
\* is dropped: there is no window in which cancel_current finds nothing to
\* cancel while a statement runs (cancellation.rs, begin, activate, retire).
NewestIsCancelable ==
    \A g \in Generation :
        g = generations /\ ~Over(g) => registered = g /\ ~op[g].retired

\* An operation canceled while it waits for a client is never activated later
\* and never sends a statement (cancellation.rs, activate; database.rs,
\* with_client).
CanceledWaitNeverRuns ==
    [][\A g \in Generation :
          op[g].canceled /\ op[g].token = NoConnection =>
              op'[g].token = NoConnection /\ server'[g] = "none"]_dbVars

\* with_client tells the truth: ok means committed, a failure or a cancellation
\* means nothing was and nothing will be committed (database.rs, with_client;
\* transactions.rs, run_transaction).
OutcomeIsTrue ==
    \A g \in Generation :
        /\ op[g].stage = "ok" => server[g] = "committed"
        /\ op[g].stage \in {"failed", "canceled"} =>
              server[g] \in {"none", "aborted", "canceled"}

\* A connection is lent to one operation at a time, and a lent connection has a
\* borrower that will give it back: the pool loses no slot (client.rs).
Borrowers(c) == {g \in Generation : op[g].conn = c /\ op[g].stage \in {"acquired", "active"}}
LendingIsExclusive ==
    \A c \in Connection :
        Cardinality(Borrowers(c)) = (IF connection[c] \in {"held", "broken"} THEN 1 ELSE 0)
=============================================================================
