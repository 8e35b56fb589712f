---------------------------- MODULE AsyncDatabase ----------------------------
(***************************************************************************)
(* shared/Database: the asynchronous connection of one Database, its       *)
(* SqlDelayThread and its result queue.                                    *)
(*                                                                         *)
(* The world thread and the map workers stage statements in a transaction  *)
(* of their own or hand them to the delay thread; some operations they     *)
(* execute themselves, on the same connection and ahead of the queue.      *)
(* Queries are answered by callbacks on the world thread.  A statement may *)
(* fail, and a COMMIT may fail whether or not it took effect.              *)
(***************************************************************************)
EXTENDS Naturals, Sequences, FiniteSets, SequencesExt

CONSTANTS Thread,  \* threads that use the database
          World,   \* the world thread, which also starts and stops it
          Delayer, \* the SqlDelayThread, whichever thread runs its code
          NoOp,    \* no operation at hand
          NoTrans, \* m_pTrans == NULL
          Free,    \* the mutex of the connection is not held
          MaxStmt, \* bound: statements and queries of each thread
          MaxQueue \* bound: operations that wait for the delay thread

ASSUME ThreadAssumption ==
  World \in Thread /\ Delayer \notin Thread /\ Free \notin Thread \union {Delayer}

ASSUME BoundAssumption == MaxStmt \in [Thread -> Nat] /\ MaxQueue \in Nat \ {0}

VARIABLES
  async,     \* m_bAllowAsyncTransactions
  issued,    \* how many statements each thread has issued
  trans,     \* m_TransStorage: the statements each thread has staged
  queue,     \* SqlDelayThread::m_sqlQueue
  running,   \* SqlDelayThread::m_running
  pc,        \* where the delay thread is
  hand,      \* the operation each actor executes, or waits to execute
  lock,      \* holder of the async connection's m_mutex
  done,      \* statements an actor has executed of the operation at hand
  open,      \* the connection has a transaction open
  work,      \* what that transaction has done so far
  committed, \* statements that have taken effect, in order
  results    \* m_pResultQueue

callers == <<async, issued, trans>>

conn == <<hand, lock, done, open, work>>

vars == <<callers, queue, running, pc, conn, committed, results>>

Actor == Thread \union {Delayer}

Stmt == UNION {[by : {t}, no : 1 .. MaxStmt[t]] : t \in Thread}

\* SqlOperation: SqlPlainRequest, SqlTransaction, SqlQuery and SqlQueryHolderEx.
Operation ==
  [kind : {"plain", "transaction", "query"}, stmts : Seq(Stmt), behind : SUBSET Stmt]

ASSUME NoOpAssumption == NoOp \notin Operation

Init ==
  /\ async = FALSE
  /\ issued = [t \in Thread |-> 0]
  /\ trans = [t \in Thread |-> NoTrans]
  /\ queue = <<>>
  /\ running = TRUE
  /\ pc = "check"
  /\ hand = [a \in Actor |-> NoOp]
  /\ lock = Free
  /\ done = [a \in Actor |-> 0]
  /\ open = FALSE
  /\ work = <<>>
  /\ committed = <<>>
  /\ results = <<>>

\* Until asynchronous transactions are allowed the server is starting on the
\* world thread alone; once the delay thread is stopped nobody calls any more.
MayCall(t) == running /\ hand[t] = NoOp /\ (async \/ t = World)

\* The statement t issues next.
NextStmt(t) == [by |-> t, no |-> issued[t] + 1]

Issue(t) ==
  /\ MayCall(t)
  /\ issued[t] < MaxStmt[t]
  /\ issued' = [issued EXCEPT ![t] = @ + 1]

\* Statements handed over that the delay thread has not settled; a query keeps
\* those it was queued behind.
Line == (IF hand[Delayer] = NoOp THEN <<>> ELSE <<hand[Delayer]>>) \o queue

Waiting == UNION {ToSet(op.stmts) : op \in {o \in ToSet(Line) : o.kind # "query"}}

Op(kind, stmts, behind) == [kind |-> kind, stmts |-> stmts, behind |-> behind]

-----------------------------------------------------------------------------
\* Faulty variants of the definitions that follow, each a bug this code could
\* have; no run of this specification takes them.

\* Every statement takes the lock for itself.
LockPerStatement(a) == lock' = Free

\* A failed statement ends the operation without a ROLLBACK.
NoRollback(a) == UNCHANGED <<open, work, committed>>

\* The destructor does not process what was queued after the last pass.
NoFlush == pc' = "halted"

\* A slow queue is served from both ends.
TakesLast == queue' = Front(queue) /\ hand' = [hand EXCEPT ![Delayer] = Last(queue)]

\* A query is answered from a connection of its own, without waiting its turn.
AnswersAtOnce(q) ==
  /\ results' = Append(results, [query |-> q, seen |-> Len(committed)])
  /\ UNCHANGED queue

\* The delay thread stops at an operation that has failed.
StopsAtFailure(a) == IF a = Delayer THEN pc' = "exited" ELSE UNCHANGED pc

-----------------------------------------------------------------------------
\* ThreadLocalStore::get: the calling thread's own helper.
Slot(t) == t

\* Database::Execute adds to the transaction of its thread if there is one.
Stages(t) == trans[Slot(t)] # NoTrans

ResetStaged(s) == trans' = [trans EXCEPT ![s] = NoTrans]

Delay(op) ==
  /\ Len(queue) < MaxQueue
  /\ queue' = Append(queue, op)
  /\ UNCHANGED hand

\* The thread executes the operation itself, on the async connection.
DoItself(t, op) ==
  /\ hand' = [hand EXCEPT ![t] = op]
  /\ UNCHANGED queue

\* While the server starts, what would be delayed is executed at once.
Send(t, op) == IF async THEN Delay(op) ELSE DoItself(t, op)

BeginTransaction(t) ==
  /\ MayCall(t)
  /\ trans[Slot(t)] = NoTrans
  /\ trans' = [trans EXCEPT ![Slot(t)] = <<>>]
  /\ UNCHANGED <<async, issued, queue, running, pc, conn, committed, results>>

Execute(t) ==
  /\ Issue(t)
  /\ \/ /\ Stages(t)
        /\ trans' = [trans EXCEPT ![Slot(t)] = Append(@, NextStmt(t))]
        /\ UNCHANGED <<queue, hand>>
     \/ /\ ~Stages(t)
        /\ Send(t, Op("plain", <<NextStmt(t)>>, {}))
        /\ UNCHANGED trans
  /\ UNCHANGED <<async, running, pc, lock, done, open, work, committed, results>>

\* DirectExecute, whether or not the thread has a transaction.
DirectExecute(t) ==
  /\ Issue(t)
  /\ DoItself(t, Op("plain", <<NextStmt(t)>>, {}))
  /\ UNCHANGED <<async, trans, running, pc, lock, done, open, work, committed, results>>

\* CommitTransaction and CommitTransactionDirect detach the transaction first.
Commit(t) ==
  /\ MayCall(t)
  /\ trans[Slot(t)] # NoTrans
  /\ ResetStaged(Slot(t))
  /\ LET op == Op("transaction", trans[Slot(t)], {})
     IN Send(t, op) \/ DoItself(t, op)
  /\ UNCHANGED <<async, issued, running, pc, lock, done, open, work, committed, results>>

RollbackTransaction(t) ==
  /\ MayCall(t)
  /\ trans[Slot(t)] # NoTrans
  /\ ResetStaged(Slot(t))
  /\ UNCHANGED <<async, issued, queue, running, pc, conn, committed, results>>

\* AsyncQuery and DelayQueryHolder queue the query in every mode.
QueueQuery(q) == queue' = Append(queue, q) /\ UNCHANGED results

AsyncQuery(t) ==
  /\ Issue(t)
  /\ Len(queue) < MaxQueue
  /\ QueueQuery(Op("query", <<NextStmt(t)>>, Waiting))
  /\ UNCHANGED <<async, trans, running, pc, conn, committed>>

\* Master::Run, when the world is loaded.
AllowAsyncTransactions ==
  /\ MayCall(World)
  /\ ~async
  /\ trans[World] = NoTrans
  /\ async' = TRUE
  /\ UNCHANGED <<issued, trans, queue, running, pc, conn, committed, results>>

\* SqlResultQueue::Update, one callback.
TakeResult == results' = Tail(results)

ProcessResult ==
  /\ MayCall(World)
  /\ async
  /\ results # <<>>
  /\ TakeResult
  /\ UNCHANGED <<callers, queue, running, pc, conn, committed>>

-----------------------------------------------------------------------------
\* One operation on the async connection.

\* SqlConnection::Lock in SqlOperation::Execute and DirectExecute.
Acquire(a) ==
  /\ hand[a] # NoOp
  /\ lock = Free
  /\ lock' = a
  /\ UNCHANGED <<callers, queue, running, pc, hand, done, open, work, committed, results>>

\* The lock is held until the operation is over.
StillLocked(a) == UNCHANGED lock

AfterFailure(a) == UNCHANGED pc

Over(a) ==
  /\ hand' = [hand EXCEPT ![a] = NoOp]
  /\ done' = [done EXCEPT ![a] = 0]
  /\ lock' = Free

Step(a) ==
  /\ done' = [done EXCEPT ![a] = @ + 1]
  /\ StillLocked(a)
  /\ UNCHANGED hand

\* The server drops what an open transaction has done.
RollbackWork(a) ==
  /\ open' = FALSE
  /\ work' = <<>>
  /\ UNCHANGED committed

\* A statement outside a transaction takes effect by itself.
Takes(s) ==
  \/ open /\ work' = Append(work, s) /\ UNCHANGED committed
  \/ ~open /\ committed' = Append(committed, s) /\ UNCHANGED work

\* SqlPlainRequest and DirectExecute.
Plain(a) ==
  /\ hand[a].kind = "plain"
  /\ Over(a)
  /\ \/ Takes(hand[a].stmts[1]) /\ UNCHANGED pc
     \/ UNCHANGED <<work, committed>> /\ AfterFailure(a)
  /\ UNCHANGED open

EmptyTransaction(a) ==
  /\ hand[a].kind = "transaction"
  /\ hand[a].stmts = <<>>
  /\ Over(a)
  /\ UNCHANGED <<pc, open, work, committed>>

\* START TRANSACTION commits what is open.
Begin(a) ==
  /\ hand[a].kind = "transaction"
  /\ hand[a].stmts # <<>>
  /\ done[a] = 0
  /\ \/ /\ Step(a)
        /\ open' = TRUE
        /\ work' = <<>>
        /\ committed' = committed \o work
        /\ UNCHANGED pc
     \/ Over(a) /\ AfterFailure(a) /\ UNCHANGED <<open, work, committed>>

Statement(a) ==
  /\ hand[a].kind = "transaction"
  /\ done[a] \in 1 .. Len(hand[a].stmts)
  /\ \/ Step(a) /\ Takes(hand[a].stmts[done[a]]) /\ UNCHANGED <<pc, open>>
     \/ Over(a) /\ RollbackWork(a) /\ AfterFailure(a)

\* A COMMIT that fails may have taken effect; it is not rolled back.
CommitWork(a) ==
  /\ hand[a].kind = "transaction"
  /\ done[a] > Len(hand[a].stmts)
  /\ hand[a].stmts # <<>>
  /\ Over(a)
  /\ open' = FALSE
  /\ work' = <<>>
  /\ \/ committed' = committed \o work /\ UNCHANGED pc
     \/ committed' \in {committed, committed \o work} /\ AfterFailure(a)

\* SqlQuery and SqlQueryHolderEx: the callback goes to the world thread.
Answer(a) ==
  /\ hand[a].kind = "query"
  /\ Over(a)
  /\ results' = Append(results, [query |-> hand[a], seen |-> Len(committed)])
  /\ UNCHANGED <<pc, open, work, committed>>

\* Any step of the operation at hand, by the holder of the lock.
Perform(a) ==
  /\ lock = a
  /\ \/ /\ \/ Plain(a) \/ EmptyTransaction(a) \/ Begin(a) \/ Statement(a) \/ CommitWork(a)
        /\ UNCHANGED results
     \/ Answer(a)
  /\ UNCHANGED <<callers, queue, running>>

-----------------------------------------------------------------------------
\* SqlDelayThread::run, after its sleep.
Loop ==
  /\ pc = "check"
  /\ pc' = IF running THEN "drain" ELSE "exited"
  /\ UNCHANGED <<callers, queue, running, conn, committed, results>>

\* m_sqlQueue.next.
TakesFirst == queue' = Tail(queue) /\ hand' = [hand EXCEPT ![Delayer] = Head(queue)]

NextRequest ==
  /\ pc \in {"drain", "flush"}
  /\ hand[Delayer] = NoOp
  /\ queue # <<>>
  /\ TakesFirst
  /\ UNCHANGED <<callers, running, pc, lock, done, open, work, committed, results>>

EndOfRequests ==
  /\ pc \in {"drain", "flush"}
  /\ hand[Delayer] = NoOp
  /\ queue = <<>>
  /\ pc' = IF pc = "drain" THEN "check" ELSE "halted"
  /\ UNCHANGED <<callers, queue, running, conn, committed, results>>

\* HaltDelayThread: the other threads have been joined, the world thread has
\* nothing staged.
Stop ==
  /\ running
  /\ async
  /\ \A t \in Thread : hand[t] = NoOp /\ trans[t] = NoTrans
  /\ running' = FALSE
  /\ UNCHANGED <<callers, queue, pc, conn, committed, results>>

\* The thread has been waited for; its body's destructor empties the queue.
DestroyBody == pc' = "flush"

Destroy ==
  /\ pc = "exited"
  /\ DestroyBody
  /\ UNCHANGED <<callers, queue, running, conn, committed, results>>

-----------------------------------------------------------------------------
CallOf(t) ==
  \/ BeginTransaction(t)
  \/ Execute(t)
  \/ DirectExecute(t)
  \/ Commit(t)
  \/ RollbackTransaction(t)
  \/ AsyncQuery(t)

DelayThread == Loop \/ NextRequest \/ EndOfRequests \/ Destroy

Next ==
  \/ \E t \in Thread : CallOf(t)
  \/ AllowAsyncTransactions
  \/ ProcessResult
  \/ \E a \in Actor : Acquire(a) \/ Perform(a)
  \/ DelayThread
  \/ Stop

\* The database answers and the delay thread is scheduled, the lock is not kept
\* from the delay thread or the world thread for ever, and the world thread
\* handles results every tick, whatever it calls in between.
Fairness ==
  /\ WF_vars(DelayThread)
  /\ SF_vars(Acquire(Delayer)) /\ SF_vars(Acquire(World))
  /\ WF_vars(\E a \in Actor : Perform(a))
  /\ SF_vars(ProcessResult)

Spec == Init /\ [][Next]_vars /\ Fairness

-----------------------------------------------------------------------------
Store == INSTANCE AsyncStore WITH fifo <- Line, direct <- [t \in Thread |-> hand[t]]

\* Whatever threads, failures and the order of locking do, operations take
\* effect whole or not at all, the queued ones in the order they were queued.
ImplementsStore == Store!Spec

\* The open transaction of the connection holds statements of the operation
\* that holds the lock and of no other, so a rollback never takes another's
\* statement with it (test: "narrowing connection serialization to individual
\* statements").
WorkIsOwners ==
  /\ open => lock # Free /\ hand[lock].kind = "transaction"
  /\ work # <<>> => open /\ IsPrefix(work, hand[lock].stmts)

\* The answer to a query holds everything that was handed over before it and
\* took effect: a login reads what the logout before it has saved.
QueriesSeeWrites ==
  \A r \in ToSet(results) :
    \A s \in r.query.behind :
      s \in ToSet(committed) => s \in ToSet(SubSeq(committed, 1, r.seen))

\* "Wait for flush to DB": when HaltDelayThread is over nothing is left behind.
NothingLeftBehind == pc = "halted" => Line = <<>> /\ lock = Free /\ ~open

\* Every operation handed over is settled.
HandedOver(s) == \E op \in ToSet(Line) : s \in ToSet(op.stmts)

EverythingSettles == \A s \in Stmt : HandedOver(s) ~> ~HandedOver(s)
==============================================================================
