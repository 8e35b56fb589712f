------------------------- MODULE AsyncDatabaseProofs -------------------------
(***************************************************************************)
(* The asynchronous connection for any number of threads and statements.   *)
(*                                                                         *)
(* Whoever holds the lock has an operation at hand; what the connection's  *)
(* open transaction has done is the part of that operation's statements    *)
(* that its holder has executed; and without an open transaction nobody is *)
(* in the middle of an operation.  With these every step of the connection *)
(* either leaves the store alone or settles one operation as a whole.      *)
(*                                                                         *)
(* What a query sees rests on a second invariant: a statement is held by   *)
(* the thread that issued it until it is handed over, once, and what a     *)
(* query was queued behind stands before it in the line and nowhere once   *)
(* the query is answered, so it can no longer take effect afterwards.      *)
(***************************************************************************)
EXTENDS AsyncDatabase, SequenceTheorems, TLAPS

\* A plain request is one statement.
SoundOp == {op \in Operation : op.kind = "plain" => Len(op.stmts) = 1}

Types ==
  /\ issued \in [Thread -> Nat]
  /\ trans \in [Thread -> Seq(Stmt) \union {NoTrans}]
  /\ queue \in Seq(SoundOp)
  /\ hand \in [Actor -> SoundOp \union {NoOp}]
  /\ lock \in Actor \union {Free}
  /\ done \in [Actor -> Nat]
  /\ open \in BOOLEAN
  /\ work \in Seq(Stmt)
  /\ committed \in Seq(Stmt)

\* Queries are left to the delay thread.
QueriesQueued == \A t \in Thread : hand[t] # NoOp => hand[t].kind # "query"

\* The holder of the lock has an operation at hand, and nobody else has begun one.
HolderAtWork ==
  /\ lock # Free => hand[lock] # NoOp
  /\ \A a \in Actor : a # lock => done[a] = 0

\* The open transaction is what the holder has executed of its operation.
WorkIsDone ==
  IF open
  THEN /\ lock # Free
       /\ hand[lock].kind = "transaction" /\ hand[lock].stmts # <<>>
       /\ done[lock] >= 1
       /\ Len(work) = done[lock] - 1
       /\ Len(work) <= Len(hand[lock].stmts)
       /\ \A i \in 1 .. Len(work) : work[i] = hand[lock].stmts[i]
  ELSE /\ work = <<>>
       /\ \A a \in Actor : done[a] = 0

\* Nobody calls once the delay thread has been told to stop, and its last pass
\* is over when the queue is empty.
StopsInOrder ==
  /\ ~running => \A t \in Thread : hand[t] = NoOp
  /\ pc \in {"exited", "flush", "halted"} => ~running
  /\ pc = "halted" => hand[Delayer] = NoOp /\ queue = <<>>

IInv == Types /\ QueriesQueued /\ HolderAtWork /\ WorkIsDone /\ StopsInOrder

-----------------------------------------------------------------------------
(* Sequences                                                                 *)

LEMMA AppendAfter ==
  ASSUME NEW S, NEW p \in Seq(S), NEW q \in Seq(S), NEW e \in S
  PROVE  p \o Append(q, e) = Append(p \o q, e)
OBVIOUS

LEMMA FrontAppend ==
  ASSUME NEW S, NEW l \in Seq(S), NEW e \in S
  PROVE  Append(l, e) # <<>> /\ Front(Append(l, e)) = l
<1>1. /\ Append(l, e) \in Seq(S) /\ Len(Append(l, e)) = Len(l) + 1
      /\ \A i \in 1 .. Len(l) : Append(l, e)[i] = l[i]
  BY AppendProperties
<1>2. Len(l) \in Nat
  BY LenProperties
<1>3. QED
  BY <1>1, <1>2 DEF Front

LEMMA TakeFirst ==
  ASSUME NEW S, NEW q \in Seq(S), q # <<>>
  PROVE  q = <<Head(q)>> \o Tail(q) /\ <<>> \o q = q /\ Head(q) \in S /\ Tail(q) \in Seq(S)
OBVIOUS

LEMMA DropFirst ==
  ASSUME NEW S, NEW q \in Seq(S), NEW h \in S
  PROVE  Tail(<<h>> \o q) = q /\ Head(<<h>> \o q) = h /\ <<h>> \o q # <<>> /\ <<>> \o q = q
OBVIOUS

LEMMA OneStatement ==
  ASSUME NEW S, NEW c \in Seq(S), NEW s \in Seq(S), Len(s) = 1
  PROVE  Append(c, s[1]) = c \o s
<1>1. s[1] \in S /\ s = <<s[1]>>
  OBVIOUS
<1>2. Append(c, s[1]) = c \o <<s[1]>>
  BY <1>1, AppendIsConcat
<1>3. QED
  BY <1>1, <1>2

LEMMA PrefixByElements ==
  ASSUME NEW S, NEW w \in Seq(S), NEW s \in Seq(S),
         Len(w) <= Len(s), \A i \in 1 .. Len(w) : w[i] = s[i]
  PROVE  IsPrefix(w, s)
BY DEF IsPrefix

-----------------------------------------------------------------------------
LEMMA ActorFacts == Thread \subseteq Actor /\ Delayer \in Actor /\ Free \notin Actor
BY ThreadAssumption DEF Actor

LEMMA OpFacts ==
  ASSUME NEW op \in SoundOp
  PROVE  op # NoOp /\ op.stmts \in Seq(Stmt) /\ op.kind \in {"plain", "transaction", "query"}
BY NoOpAssumption DEF SoundOp, Operation

LEMMA InvInit == Init => IInv
<1> SUFFICES ASSUME Init PROVE IInv
  OBVIOUS
<1>1. <<>> \in Seq(Stmt) /\ <<>> \in Seq(SoundOp)
  BY EmptySeq
<1>2. Types
  BY <1>1 DEF Init, Types
<1>3. QueriesQueued /\ HolderAtWork /\ WorkIsDone /\ StopsInOrder
  BY ActorFacts DEF Init, QueriesQueued, HolderAtWork, WorkIsDone, StopsInOrder
<1>4. QED
  BY <1>2, <1>3 DEF IInv

-----------------------------------------------------------------------------
(* What callers do                                                           *)

\* t hands op over, or executes it itself.
HandsOver(t, op) ==
  \/ queue' = Append(queue, op) /\ UNCHANGED hand
  \/ op.kind # "query" /\ hand' = [hand EXCEPT ![t] = op] /\ UNCHANGED queue

\* A call leaves the connection alone.
Calls(t) ==
  /\ running /\ hand[t] = NoOp
  /\ UNCHANGED <<running, pc, lock, done, open, work, committed, results>>
  /\ issued' \in [Thread -> Nat]
  /\ trans' \in [Thread -> Seq(Stmt) \union {NoTrans}]

LEMMA StmtFacts ==
  ASSUME Types, NEW t \in Thread, issued[t] < MaxStmt[t]
  PROVE  NextStmt(t) \in Stmt /\ [issued EXCEPT ![t] = @ + 1] \in [Thread -> Nat]
<1>1. issued[t] \in Nat /\ issued[t] + 1 \in 1 .. MaxStmt[t]
  BY BoundAssumption DEF Types
<1>2. NextStmt(t) \in [by : {t}, no : 1 .. MaxStmt[t]]
  BY <1>1 DEF NextStmt
<1>3. QED
  BY <1>1, <1>2 DEF Stmt, Types

LEMMA CallsAre ==
  ASSUME IInv, NEW t \in Thread, CallOf(t)
  PROVE  /\ Calls(t)
         /\ UNCHANGED <<queue, hand>> \/ \E op \in SoundOp : HandsOver(t, op)
<1> USE DEF MayCall, Slot, Stages, ResetStaged, conn, callers
<1>0. /\ trans \in [Thread -> Seq(Stmt) \union {NoTrans}] /\ issued \in [Thread -> Nat]
      /\ Types
  BY DEF IInv, Types
<1>1. CASE BeginTransaction(t)
  <2>1. <<>> \in Seq(Stmt)
    BY EmptySeq
  <2>2. QED
    BY <1>0, <1>1, <2>1 DEF BeginTransaction, Calls
<1>2. CASE Execute(t)
  <2>1. /\ MayCall(t) /\ issued[t] < MaxStmt[t] /\ issued' = [issued EXCEPT ![t] = @ + 1]
        /\ UNCHANGED <<async, running, pc, lock, done, open, work, committed, results>>
    BY <1>2 DEF Execute, Issue
  <2>2. NextStmt(t) \in Stmt /\ issued' \in [Thread -> Nat]
    BY <1>0, <2>1, StmtFacts
  <2>3. CASE trans[t] # NoTrans /\ trans' = [trans EXCEPT ![t] = Append(@, NextStmt(t))] /\ UNCHANGED <<queue, hand>>
    <3>1. Append(trans[t], NextStmt(t)) \in Seq(Stmt)
      BY <1>0, <2>2, <2>3, AppendProperties
    <3>2. QED
      BY <1>0, <2>1, <2>2, <2>3, <3>1 DEF Calls
  <2>4. CASE Send(t, Op("plain", <<NextStmt(t)>>, {})) /\ UNCHANGED trans
    <3>1. Op("plain", <<NextStmt(t)>>, {}) \in SoundOp
      BY <2>2 DEF Op, SoundOp, Operation
    <3>2. HandsOver(t, Op("plain", <<NextStmt(t)>>, {}))
      BY <2>4 DEF Send, Delay, DoItself, HandsOver, Op
    <3>3. QED
      BY <1>0, <2>1, <2>2, <2>4, <3>1, <3>2 DEF Calls
  <2>5. QED
    BY <1>2, <2>3, <2>4 DEF Execute
<1>3. CASE DirectExecute(t)
  <2>1. /\ MayCall(t) /\ issued[t] < MaxStmt[t] /\ issued' = [issued EXCEPT ![t] = @ + 1]
        /\ UNCHANGED <<trans, running, pc, lock, done, open, work, committed, results>>
    BY <1>3 DEF DirectExecute, Issue
  <2>2. NextStmt(t) \in Stmt /\ issued' \in [Thread -> Nat]
    BY <1>0, <2>1, StmtFacts
  <2>3. Op("plain", <<NextStmt(t)>>, {}) \in SoundOp
    BY <2>2 DEF Op, SoundOp, Operation
  <2>4. HandsOver(t, Op("plain", <<NextStmt(t)>>, {}))
    BY <1>3 DEF DirectExecute, DoItself, HandsOver, Op
  <2>5. QED
    BY <1>0, <2>1, <2>2, <2>3, <2>4 DEF Calls
<1>4. CASE Commit(t)
  <2>1. /\ MayCall(t) /\ trans[t] # NoTrans /\ trans' = [trans EXCEPT ![t] = NoTrans]
        /\ UNCHANGED <<issued, running, pc, lock, done, open, work, committed, results>>
    BY <1>4 DEF Commit
  <2>2. Op("transaction", trans[t], {}) \in SoundOp
    BY <1>0, <2>1 DEF Op, SoundOp, Operation
  <2>3. HandsOver(t, Op("transaction", trans[t], {}))
    BY <1>4 DEF Commit, Send, Delay, DoItself, HandsOver, Op
  <2>4. QED
    BY <1>0, <2>1, <2>2, <2>3 DEF Calls
<1>5. CASE RollbackTransaction(t)
  BY <1>0, <1>5 DEF RollbackTransaction, Calls
<1>6. CASE AsyncQuery(t)
  <2>1. /\ MayCall(t) /\ issued[t] < MaxStmt[t] /\ issued' = [issued EXCEPT ![t] = @ + 1]
        /\ queue' = Append(queue, Op("query", <<NextStmt(t)>>, Waiting))
        /\ UNCHANGED <<trans, running, pc, hand, lock, done, open, work, committed, results>>
    BY <1>6 DEF AsyncQuery, Issue, QueueQuery
  <2>2. NextStmt(t) \in Stmt /\ issued' \in [Thread -> Nat]
    BY <1>0, <2>1, StmtFacts
  <2>3. Waiting \subseteq Stmt
    <3>1. \A op \in ToSet(Line) : op \in SoundOp
      <4>1. ToSet(queue) \subseteq SoundOp
        BY <1>0 DEF Types, ToSet
      <4>2. hand[Delayer] # NoOp => hand[Delayer] \in SoundOp
        BY <1>0, ActorFacts DEF Types
      <4>3. Line \in Seq(SoundOp)
        BY <1>0, <4>2 DEF Line, Types
      <4>4. QED
        BY <4>3 DEF ToSet
    <3>2. \A op \in SoundOp : ToSet(op.stmts) \subseteq Stmt
      BY OpFacts DEF ToSet
    <3>3. QED
      BY <3>1, <3>2 DEF Waiting
  <2>4. Op("query", <<NextStmt(t)>>, Waiting) \in SoundOp
    BY <2>2, <2>3 DEF Op, SoundOp, Operation
  <2>5. HandsOver(t, Op("query", <<NextStmt(t)>>, Waiting))
    BY <2>1 DEF HandsOver
  <2>6. QED
    BY <1>0, <2>1, <2>2, <2>4, <2>5 DEF Calls
<1>7. QED
  BY <1>1, <1>2, <1>3, <1>4, <1>5, <1>6 DEF CallOf

LEMMA CallKeeps ==
  ASSUME IInv, NEW t \in Thread, CallOf(t)
  PROVE  IInv'
<1>0. /\ Types /\ QueriesQueued /\ HolderAtWork /\ WorkIsDone /\ StopsInOrder
      /\ t \in Actor /\ Delayer # t
  BY ActorFacts, ThreadAssumption DEF IInv
<1>1. Calls(t)
  BY CallsAre
<1>2. UNCHANGED <<running, pc, lock, done, open, work, committed>> /\ running /\ hand[t] = NoOp
  BY <1>1 DEF Calls
<1>3. CASE UNCHANGED <<queue, hand>>
  <2>1. Types'
    BY <1>0, <1>1, <1>2, <1>3 DEF Types, Calls
  <2>2. QueriesQueued' /\ HolderAtWork' /\ WorkIsDone' /\ StopsInOrder'
    BY <1>0, <1>2, <1>3 DEF QueriesQueued, HolderAtWork, WorkIsDone, StopsInOrder
  <2>3. QED
    BY <2>1, <2>2 DEF IInv
<1>4. ASSUME NEW op \in SoundOp, HandsOver(t, op) PROVE IInv'
  <2>1. queue' \in Seq(SoundOp) /\ hand' \in [Actor -> SoundOp \union {NoOp}]
    <3>1. queue \in Seq(SoundOp) /\ hand \in [Actor -> SoundOp \union {NoOp}]
      BY <1>0 DEF Types
    <3>2. CASE queue' = Append(queue, op) /\ UNCHANGED hand
      BY <3>1, <3>2, AppendProperties
    <3>3. CASE hand' = [hand EXCEPT ![t] = op] /\ UNCHANGED queue
      BY <3>1, <3>3
    <3>4. QED
      BY <1>4, <3>2, <3>3 DEF HandsOver
  <2>2. \A a \in Actor : hand'[a] = hand[a] \/ (a = t /\ hand'[a] = op /\ op.kind # "query")
    BY <1>0, <1>4 DEF HandsOver, Types
  <2>3. Types'
    BY <1>0, <1>1, <1>2, <2>1 DEF Types, Calls
  <2>4. lock # Free => hand'[lock] = hand[lock] /\ lock \in Actor
    BY <1>0, <1>2, <2>2 DEF HolderAtWork, Types
  <2>5. QueriesQueued'
    BY <1>0, <2>2, ActorFacts DEF QueriesQueued
  <2>6. HolderAtWork'
    BY <1>0, <1>2, <2>4 DEF HolderAtWork
  <2>7. WorkIsDone'
    <3>1. CASE open
      <4>1. lock # Free /\ hand'[lock'] = hand[lock]
        BY <1>0, <1>2, <2>4, <3>1 DEF WorkIsDone
      <4>2. QED
        BY <1>0, <1>2, <3>1, <4>1 DEF WorkIsDone
    <3>2. CASE ~open
      BY <1>0, <1>2, <3>2 DEF WorkIsDone
    <3>3. QED
      BY <3>1, <3>2
  <2>8. StopsInOrder'
    BY <1>0, <1>2 DEF StopsInOrder
  <2>9. QED
    BY <2>3, <2>5, <2>6, <2>7, <2>8 DEF IInv
<1>5. QED
  BY <1>3, <1>4, CallsAre

-----------------------------------------------------------------------------
(* What the connection does                                                  *)

LEMMA AcquireKeeps ==
  ASSUME IInv, NEW a \in Actor, Acquire(a)
  PROVE  IInv'
<1>0. Types /\ QueriesQueued /\ HolderAtWork /\ WorkIsDone /\ StopsInOrder /\ a # Free
  BY ActorFacts DEF IInv
<1>1. /\ hand[a] # NoOp /\ lock = Free /\ lock' = a
      /\ UNCHANGED <<issued, trans, queue, running, pc, hand, done, open, work, committed>>
  BY DEF Acquire, callers
<1>2. ~open
  BY <1>0, <1>1 DEF WorkIsDone
<1>3. Types' /\ QueriesQueued' /\ StopsInOrder'
  BY <1>0, <1>1 DEF Types, QueriesQueued, StopsInOrder
<1>4. HolderAtWork' /\ WorkIsDone'
  BY <1>0, <1>1, <1>2 DEF HolderAtWork, WorkIsDone
<1>5. QED
  BY <1>3, <1>4 DEF IInv

\* The end of an operation: nothing is left open.
LEMMA OverKeeps ==
  ASSUME IInv, NEW a \in Actor, lock = a, Over(a), ~open', work' = <<>>,
         committed' \in Seq(Stmt), UNCHANGED <<callers, queue, running, pc>>
  PROVE  IInv'
<1>0. Types /\ QueriesQueued /\ HolderAtWork /\ WorkIsDone /\ StopsInOrder
  BY DEF IInv
<1>1. /\ hand' = [hand EXCEPT ![a] = NoOp] /\ done' = [done EXCEPT ![a] = 0] /\ lock' = Free
      /\ UNCHANGED <<issued, trans>>
  BY DEF Over, callers
<1>2. \A b \in Actor : done'[b] = 0 /\ (hand'[b] = hand[b] \/ hand'[b] = NoOp)
  BY <1>0, <1>1 DEF HolderAtWork, Types
<1>3. hand' \in [Actor -> SoundOp \union {NoOp}] /\ done' \in [Actor -> Nat] /\ work' \in Seq(Stmt)
  BY <1>0, <1>1, EmptySeq DEF Types
<1>4. Types' /\ QueriesQueued' /\ StopsInOrder'
  <2>1. open' = FALSE
    BY <1>0 DEF WorkIsDone
  <2>2. QED
    BY <1>0, <1>1, <1>2, <1>3, <2>1, ActorFacts DEF Types, QueriesQueued, StopsInOrder
<1>5. HolderAtWork' /\ WorkIsDone'
  BY <1>1, <1>2 DEF HolderAtWork, WorkIsDone
<1>6. QED
  BY <1>4, <1>5 DEF IInv

\* What an operation in hand is when its holder performs it.
LEMMA HolderFacts ==
  ASSUME IInv, NEW a \in Actor, lock = a
  PROVE  /\ hand[a] \in SoundOp /\ hand[a] # NoOp /\ a # Free
         /\ hand[a].stmts \in Seq(Stmt) /\ Len(hand[a].stmts) \in Nat
         /\ done[a] \in Nat /\ Len(work) \in Nat
         /\ open => /\ hand[a].kind = "transaction" /\ hand[a].stmts # <<>> /\ done[a] = Len(work) + 1
                    /\ Len(work) <= Len(hand[a].stmts)
                    /\ \A i \in 1 .. Len(work) : work[i] = hand[a].stmts[i]
         /\ ~open => work = <<>> /\ done[a] = 0
<1>0. Types /\ HolderAtWork /\ WorkIsDone /\ a # Free
  BY ActorFacts DEF IInv
<1>1. hand[a] \in SoundOp /\ hand[a] # NoOp
  BY <1>0 DEF Types, HolderAtWork
<1>2. hand[a].stmts \in Seq(Stmt) /\ Len(hand[a].stmts) \in Nat /\ Len(work) \in Nat /\ done[a] \in Nat
  BY <1>0, <1>1, OpFacts, LenProperties DEF Types
<1>3. CASE open
  BY <1>0, <1>1, <1>2, <1>3 DEF WorkIsDone
<1>4. CASE ~open
  BY <1>0, <1>1, <1>2, <1>4 DEF WorkIsDone
<1>5. QED
  BY <1>3, <1>4

\* Each step of the operation at hand either goes on with the transaction, of
\* which nothing has taken effect, or ends the operation as a whole.
GoesOn(a) ==
  /\ UNCHANGED <<committed, results, hand, lock, pc>>
  /\ open' = TRUE
  /\ hand[a].kind = "transaction" /\ hand[a].stmts # <<>>
  /\ done' = [done EXCEPT ![a] = @ + 1]
  /\ \/ done[a] = 0 /\ work' = <<>>
     \/ /\ open /\ done[a] <= Len(hand[a].stmts)
        /\ work' = Append(work, hand[a].stmts[done[a]])

Ends(a) ==
  /\ Over(a)
  /\ open' = FALSE /\ work' = <<>>
  /\ UNCHANGED pc
  /\ \/ /\ hand[a].kind # "query"
        /\ committed' \in {committed, committed \o hand[a].stmts}
        /\ UNCHANGED results
     \/ /\ hand[a].kind = "query"
        /\ results' = Append(results, [query |-> hand[a], seen |-> Len(committed)])
        /\ UNCHANGED committed

LEMMA PerformIs ==
  ASSUME IInv, NEW a \in Actor, Perform(a)
  PROVE  GoesOn(a) \/ Ends(a)
<1>0. /\ lock = a /\ UNCHANGED <<callers, queue, running>>
      /\ committed \in Seq(Stmt) /\ open \in BOOLEAN
  BY DEF Perform, IInv, Types
<1>2. /\ hand[a] \in SoundOp /\ hand[a].stmts \in Seq(Stmt)
      /\ Len(hand[a].stmts) \in Nat /\ done[a] \in Nat /\ Len(work) \in Nat
      /\ open => /\ hand[a].kind = "transaction" /\ hand[a].stmts # <<>> /\ done[a] = Len(work) + 1
                 /\ Len(work) <= Len(hand[a].stmts)
                 /\ \A i \in 1 .. Len(work) : work[i] = hand[a].stmts[i]
      /\ ~open => work = <<>> /\ done[a] = 0
  BY <1>0, HolderFacts
<1>3. CASE Plain(a) /\ UNCHANGED results
  <2>1. ~open /\ work = <<>> /\ hand[a].kind = "plain" /\ Len(hand[a].stmts) = 1
    BY <1>2, <1>3 DEF Plain, SoundOp
  <2>2. Append(committed, hand[a].stmts[1]) = committed \o hand[a].stmts
    BY <1>0, <1>2, <2>1, OneStatement
  <2>3. committed' \in {committed, committed \o hand[a].stmts} /\ work' = work /\ UNCHANGED <<pc, open>>
    BY <1>3, <2>1, <2>2 DEF Plain, Takes, AfterFailure
  <2>4. QED
    BY <1>0, <1>3, <2>1, <2>3 DEF Plain, Ends
<1>4. CASE EmptyTransaction(a) /\ UNCHANGED results
  <2>1. ~open /\ work = <<>>
    BY <1>2, <1>4, EmptySeq DEF EmptyTransaction
  <2>2. QED
    BY <1>0, <1>4, <2>1 DEF EmptyTransaction, Ends
<1>5. CASE Begin(a) /\ UNCHANGED results
  <2>1. ~open /\ work = <<>> /\ hand[a].kind = "transaction"
    BY <1>2, <1>5 DEF Begin
  <2>2. committed \o work = committed
    BY <1>0, <2>1, ConcatEmptySeq
  <2>3. CASE Step(a) /\ open' = TRUE /\ work' = <<>> /\ committed' = committed \o work /\ UNCHANGED pc
    BY <1>5, <2>1, <2>2, <2>3 DEF Begin, Step, StillLocked, GoesOn
  <2>4. CASE Over(a) /\ AfterFailure(a) /\ UNCHANGED <<open, work, committed>>
    BY <1>0, <1>5, <2>1, <2>4 DEF AfterFailure, Ends
  <2>5. QED
    BY <1>5, <2>3, <2>4 DEF Begin
<1>6. CASE Statement(a) /\ UNCHANGED results
  <2>1. /\ open /\ done[a] <= Len(hand[a].stmts)
        /\ hand[a].kind = "transaction" /\ hand[a].stmts # <<>>
    BY <1>2, <1>6 DEF Statement
  <2>2. CASE Step(a) /\ Takes(hand[a].stmts[done[a]]) /\ UNCHANGED <<pc, open>>
    BY <1>0, <1>6, <2>1, <2>2 DEF Step, StillLocked, Takes, GoesOn
  <2>3. CASE Over(a) /\ RollbackWork(a) /\ AfterFailure(a)
    BY <1>6, <2>1, <2>3 DEF RollbackWork, AfterFailure, Ends
  <2>4. QED
    BY <1>6, <2>2, <2>3 DEF Statement
<1>7. CASE CommitWork(a) /\ UNCHANGED results
  <2>1. open /\ Len(work) = Len(hand[a].stmts) /\ hand[a].kind = "transaction"
    BY <1>2, <1>7 DEF CommitWork
  <2>2. work = hand[a].stmts
    <3>1. work \in Seq(Stmt)
      BY DEF IInv, Types
    <3>2. QED
      BY <1>2, <2>1, <3>1, SeqEqual
  <2>3. QED
    BY <1>7, <2>1, <2>2 DEF CommitWork, AfterFailure, Ends
<1>8. CASE Answer(a)
  <2>1. ~open /\ work = <<>>
    BY <1>2, <1>8 DEF Answer
  <2>2. QED
    BY <1>0, <1>8, <2>1 DEF Answer, Ends
<1>9. QED
  BY <1>3, <1>4, <1>5, <1>6, <1>7, <1>8 DEF Perform

LEMMA GoesOnKeeps ==
  ASSUME IInv, NEW a \in Actor, lock = a, GoesOn(a), UNCHANGED <<callers, queue, running>>
  PROVE  IInv'
<1>0. Types /\ QueriesQueued /\ HolderAtWork /\ WorkIsDone /\ StopsInOrder /\ a # Free
  BY ActorFacts DEF IInv
<1>1. /\ UNCHANGED <<issued, trans, hand, lock, pc, committed, queue, running>> /\ open' = TRUE
      /\ hand[a].kind = "transaction" /\ hand[a].stmts # <<>> /\ done' = [done EXCEPT ![a] = @ + 1]
  BY DEF GoesOn, callers
<1>2. /\ hand[a].stmts \in Seq(Stmt) /\ Len(hand[a].stmts) \in Nat /\ done[a] \in Nat /\ Len(work) \in Nat
      /\ open => /\ done[a] = Len(work) + 1 /\ Len(work) <= Len(hand[a].stmts)
                 /\ \A i \in 1 .. Len(work) : work[i] = hand[a].stmts[i]
  BY HolderFacts
<1>3. done' \in [Actor -> Nat] /\ done'[a] = done[a] + 1 /\ \A b \in Actor : b # a => done'[b] = done[b]
  BY <1>0, <1>1, <1>2 DEF Types
<1>4. /\ work' \in Seq(Stmt) /\ Len(work') = done[a] /\ Len(work') <= Len(hand[a].stmts)
      /\ \A i \in 1 .. Len(work') : work'[i] = hand[a].stmts[i]
  <2>1. CASE done[a] = 0 /\ work' = <<>>
    BY <1>2, <2>1, EmptySeq
  <2>2. CASE open /\ done[a] <= Len(hand[a].stmts) /\ work' = Append(work, hand[a].stmts[done[a]])
    <3>1. work \in Seq(Stmt) /\ hand[a].stmts[done[a]] \in Stmt
      BY <1>0, <1>2, <2>2, ElementOfSeq DEF Types
    <3>2. /\ work' \in Seq(Stmt) /\ Len(work') = Len(work) + 1
          /\ \A i \in 1 .. Len(work) : work'[i] = work[i]
          /\ work'[Len(work) + 1] = hand[a].stmts[done[a]]
      BY <2>2, <3>1, AppendProperties
    <3>3. QED
      BY <1>2, <2>2, <3>2
  <2>3. QED
    BY <2>1, <2>2 DEF GoesOn
<1>5. Types' /\ QueriesQueued' /\ StopsInOrder'
  BY <1>0, <1>1, <1>3, <1>4 DEF Types, QueriesQueued, StopsInOrder
<1>6. HolderAtWork'
  BY <1>0, <1>1, <1>3 DEF HolderAtWork
<1>7. WorkIsDone'
  <2>1. lock' = a /\ hand'[a] = hand[a]
    BY <1>1
  <2>2. done'[a] >= 1 /\ Len(work') = done'[a] - 1
    BY <1>2, <1>3, <1>4
  <2>3. QED
    BY <1>0, <1>1, <1>4, <2>1, <2>2 DEF WorkIsDone
<1>8. QED
  BY <1>5, <1>6, <1>7 DEF IInv

LEMMA PerformKeeps ==
  ASSUME IInv, NEW a \in Actor, Perform(a)
  PROVE  IInv'
<1>1. lock = a /\ UNCHANGED <<callers, queue, running>>
  BY DEF Perform
<1>2. CASE GoesOn(a)
  BY <1>1, <1>2, GoesOnKeeps
<1>3. CASE Ends(a)
  <2>1. committed \in Seq(Stmt) /\ hand[a].stmts \in Seq(Stmt)
    BY <1>1, HolderFacts DEF IInv, Types
  <2>2. committed' \in Seq(Stmt)
    BY <1>3, <2>1, ConcatProperties DEF Ends
  <2>3. QED
    BY <1>1, <1>3, <2>2, OverKeeps DEF Ends
<1>4. QED
  BY <1>2, <1>3, PerformIs

-----------------------------------------------------------------------------
(* What the delay thread does                                                *)

LEMMA DelayKeeps ==
  ASSUME IInv, DelayThread
  PROVE  IInv'
<1>0. /\ Types /\ QueriesQueued /\ HolderAtWork /\ WorkIsDone /\ StopsInOrder
      /\ Delayer \in Actor /\ Delayer \notin Thread
  BY ActorFacts, ThreadAssumption DEF IInv
<1>1. UNCHANGED <<issued, trans, running, lock, done, open, work, committed>>
  BY DEF DelayThread, Loop, NextRequest, EndOfRequests, Destroy, callers, conn
<1>2. CASE Loop \/ EndOfRequests \/ Destroy
  <2>1. UNCHANGED <<queue, hand>>
    BY <1>2 DEF Loop, EndOfRequests, Destroy, conn
  <2>2. Types' /\ QueriesQueued' /\ HolderAtWork'
    BY <1>0, <1>1, <2>1 DEF Types, QueriesQueued, HolderAtWork
  <2>3. WorkIsDone'
    BY <1>0, <1>1, <2>1 DEF WorkIsDone
  <2>4. StopsInOrder'
    BY <1>0, <1>1, <1>2, <2>1 DEF StopsInOrder, Loop, EndOfRequests, Destroy, DestroyBody
  <2>5. QED
    BY <2>2, <2>3, <2>4 DEF IInv
<1>3. CASE NextRequest
  <2>1. /\ pc \in {"drain", "flush"} /\ UNCHANGED pc /\ hand[Delayer] = NoOp /\ queue # <<>>
        /\ queue' = Tail(queue) /\ hand' = [hand EXCEPT ![Delayer] = Head(queue)]
    BY <1>3 DEF NextRequest, TakesFirst
  <2>2. Head(queue) \in SoundOp /\ Tail(queue) \in Seq(SoundOp)
    BY <1>0, <2>1, TakeFirst DEF Types
  <2>3. \A a \in Actor : a # Delayer => hand'[a] = hand[a]
    BY <1>0, <2>1 DEF Types
  <2>4. hand' \in [Actor -> SoundOp \union {NoOp}]
    BY <1>0, <2>1, <2>2 DEF Types
  <2>5. lock # Free => lock \in Actor /\ lock # Delayer /\ hand'[lock] = hand[lock]
    BY <1>0, <2>1, <2>3 DEF HolderAtWork, Types
  <2>6. Types'
    BY <1>0, <1>1, <2>1, <2>2, <2>4 DEF Types
  <2>7. QueriesQueued' /\ HolderAtWork'
    BY <1>0, <1>1, <2>3, <2>5, ActorFacts DEF QueriesQueued, HolderAtWork
  <2>8. WorkIsDone'
    <3>1. CASE open
      <4>1. lock # Free /\ hand'[lock'] = hand[lock]
        BY <1>0, <1>1, <2>5, <3>1 DEF WorkIsDone
      <4>2. QED
        BY <1>0, <1>1, <3>1, <4>1 DEF WorkIsDone
    <3>2. CASE ~open
      BY <1>0, <1>1, <3>2 DEF WorkIsDone
    <3>3. QED
      BY <3>1, <3>2
  <2>9. StopsInOrder'
    BY <1>0, <1>1, <2>1, <2>3, ActorFacts DEF StopsInOrder
  <2>10. QED
    BY <2>6, <2>7, <2>8, <2>9 DEF IInv
<1>4. QED
  BY <1>2, <1>3 DEF DelayThread

\* Steps that touch neither an operation nor the connection.
LEMMA RestKeeps ==
  ASSUME IInv, AllowAsyncTransactions \/ ProcessResult \/ Stop \/ UNCHANGED vars
  PROVE  IInv'
<1>0. /\ Types /\ QueriesQueued /\ HolderAtWork /\ WorkIsDone /\ StopsInOrder
  BY DEF IInv
<1>1. /\ UNCHANGED <<issued, trans, queue, hand, pc, lock, done, open, work, committed>>
      /\ running' = running \/ (running' = FALSE /\ \A t \in Thread : hand[t] = NoOp)
  BY DEF AllowAsyncTransactions, ProcessResult, Stop, vars, callers, conn
<1>2. Types' /\ QueriesQueued' /\ HolderAtWork'
  BY <1>0, <1>1 DEF Types, QueriesQueued, HolderAtWork
<1>3. WorkIsDone' /\ StopsInOrder'
  BY <1>0, <1>1 DEF WorkIsDone, StopsInOrder
<1>4. QED
  BY <1>2, <1>3 DEF IInv

LEMMA InvNext == IInv /\ [Next]_vars => IInv'
BY CallKeeps, AcquireKeeps, PerformKeeps, DelayKeeps, RestKeeps DEF Next

LEMMA InvAlways == Init /\ [][Next]_vars => []IInv
BY InvInit, InvNext, PTL

-----------------------------------------------------------------------------
(* The store                                                                 *)

Stored == <<Line, [t \in Thread |-> hand[t]], committed, results>>

LEMMA StoreInit == Init => Store!Init
BY ActorFacts DEF Init, Store!Init, Line

LEMMA CallIsStoreStep ==
  ASSUME IInv, NEW t \in Thread, CallOf(t)
  PROVE  [Store!Next]_Stored
<1>0. /\ Types /\ t \in Actor /\ Delayer \in Actor /\ t # Delayer
  BY ActorFacts, ThreadAssumption DEF IInv
<1>1. Calls(t)
  BY CallsAre
<1>2. UNCHANGED <<committed, results>> /\ hand[t] = NoOp
  BY <1>1 DEF Calls
<1>3. CASE UNCHANGED <<queue, hand>>
  BY <1>2, <1>3 DEF Stored, Line
<1>4. ASSUME NEW op \in SoundOp, HandsOver(t, op) PROVE Store!Next
  <2>1. CASE queue' = Append(queue, op) /\ UNCHANGED hand
    <3>1. queue \in Seq(SoundOp) /\ (hand[Delayer] = NoOp \/ hand[Delayer] \in SoundOp)
      BY <1>0 DEF Types
    <3>2. PICK p \in Seq(SoundOp) : p = IF hand[Delayer] = NoOp THEN <<>> ELSE <<hand[Delayer]>>
      <4>1. <<>> \in Seq(SoundOp) /\ (hand[Delayer] \in SoundOp => <<hand[Delayer]>> \in Seq(SoundOp))
        BY EmptySeq
      <4>2. QED
        BY <3>1, <4>1
    <3>3. Line = p \o queue /\ Line' = p \o Append(queue, op)
      BY <2>1, <3>2 DEF Line
    <3>4. Line \in Seq(SoundOp) /\ Line' = Append(Line, op)
      BY <3>1, <3>2, <3>3, AppendAfter, ConcatProperties
    <3>5. Line' # <<>> /\ Front(Line') = Line
      BY <3>4, FrontAppend
    <3>6. Store!HandOver
      BY <1>2, <2>1, <3>5 DEF Store!HandOver, Front, Store!Front
    <3>7. QED
      BY <3>6 DEF Store!Next
  <2>2. CASE hand' = [hand EXCEPT ![t] = op] /\ UNCHANGED queue
    <3>1. hand'[Delayer] = hand[Delayer] /\ \A u \in Thread : u # t => hand'[u] = hand[u]
      BY <1>0, <2>2 DEF Types
    <3>2. Line' = Line
      BY <2>2, <3>1 DEF Line
    <3>3. Store!Call(t)
      BY <1>2, <3>1, <3>2 DEF Store!Call
    <3>4. QED
      BY <3>3 DEF Store!Next
  <2>3. QED
    BY <1>4, <2>1, <2>2 DEF HandsOver
<1>5. QED
  BY <1>3, <1>4, CallsAre

LEMMA PerformIsStoreStep ==
  ASSUME IInv, NEW a \in Actor, Perform(a)
  PROVE  [Store!Next]_Stored
<1>0. /\ Types /\ lock = a /\ UNCHANGED queue
      /\ Delayer \notin Thread /\ Delayer \in Actor
  BY ActorFacts, ThreadAssumption DEF IInv, Perform
<1>1. hand[a] \in SoundOp /\ hand[a] # NoOp
  BY <1>0, HolderFacts
<1>2. CASE GoesOn(a)
  BY <1>0, <1>2 DEF GoesOn, Stored, Line
<1>3. CASE Ends(a)
  <2>1. hand' = [hand EXCEPT ![a] = NoOp] /\ hand \in [Actor -> SoundOp \union {NoOp}]
    BY <1>0, <1>3 DEF Ends, Over, Types
  <2>2. CASE a \in Thread
    <3>1. hand[a].kind # "query"
      BY <1>1, <2>2 DEF IInv, QueriesQueued
    <3>2. hand'[Delayer] = hand[Delayer] /\ Line' = Line
      BY <1>0, <2>1, <2>2 DEF Line
    <3>3. [t \in Thread |-> hand'[t]] = [[t \in Thread |-> hand[t]] EXCEPT ![a] = NoOp]
      BY <2>1, <2>2, ActorFacts
    <3>4. committed' \in {committed, committed \o hand[a].stmts} /\ UNCHANGED results
      BY <1>3, <3>1 DEF Ends
    <3>5. Store!Return(a)
      BY <1>1, <2>2, <3>2, <3>3, <3>4 DEF Store!Return, Store!Effect
    <3>6. QED
      BY <2>2, <3>5 DEF Store!Next
  <2>3. CASE a = Delayer
    <3>1. [t \in Thread |-> hand'[t]] = [t \in Thread |-> hand[t]] /\ hand'[Delayer] = NoOp
      BY <1>0, <2>1, <2>3, ActorFacts
    <3>2. Line = <<hand[a]>> \o queue /\ Line' = <<>> \o queue
      BY <1>0, <1>1, <2>3, <3>1 DEF Line
    <3>3. Line # <<>> /\ Line' = Tail(Line) /\ Head(Line) = hand[a]
      BY <1>0, <1>1, <3>2, DropFirst DEF Types
    <3>4. Store!Settle
      BY <1>3, <3>1, <3>3 DEF Ends, Store!Settle, Store!Effect
    <3>5. QED
      BY <3>4 DEF Store!Next
  <2>4. QED
    BY <2>2, <2>3 DEF Actor
<1>4. QED
  BY <1>2, <1>3, PerformIs

\* Every other step leaves the line, the callers, the store and the answers alone,
\* but for an answer that is delivered.
LEMMA OtherIsStoreStep ==
  ASSUME IInv, \/ AllowAsyncTransactions \/ ProcessResult \/ Stop \/ UNCHANGED vars
               \/ DelayThread \/ \E a \in Actor : Acquire(a)
  PROVE  [Store!Next]_Stored
<1>0. Types /\ Delayer \in Actor /\ Delayer \notin Thread /\ Thread \subseteq Actor
  BY ActorFacts, ThreadAssumption DEF IInv
<1>1. CASE ProcessResult
  <2>1. UNCHANGED <<queue, hand, committed>> /\ results # <<>> /\ results' = Tail(results)
    BY <1>1 DEF ProcessResult, TakeResult, conn
  <2>2. Store!Deliver
    BY <2>1 DEF Store!Deliver, Line
  <2>3. QED
    BY <2>2 DEF Store!Next
<1>2. CASE NextRequest
  <2>1. /\ hand[Delayer] = NoOp /\ queue # <<>> /\ queue' = Tail(queue)
        /\ hand' = [hand EXCEPT ![Delayer] = Head(queue)] /\ UNCHANGED <<committed, results>>
    BY <1>2 DEF NextRequest, TakesFirst
  <2>2. Head(queue) \in SoundOp /\ queue = <<Head(queue)>> \o Tail(queue) /\ <<>> \o queue = queue
    BY <1>0, <2>1, TakeFirst DEF Types
  <2>3. hand'[Delayer] = Head(queue) /\ Head(queue) # NoOp
    BY <1>0, <2>1, <2>2, OpFacts DEF Types
  <2>4. Line' = Line
    BY <2>1, <2>2, <2>3 DEF Line
  <2>5. [t \in Thread |-> hand'[t]] = [t \in Thread |-> hand[t]]
    BY <1>0, <2>1 DEF Types
  <2>6. QED
    BY <2>1, <2>4, <2>5 DEF Stored
<1>3. CASE \/ AllowAsyncTransactions \/ Stop \/ UNCHANGED vars \/ Loop \/ EndOfRequests \/ Destroy
           \/ \E a \in Actor : Acquire(a)
  <2>1. UNCHANGED <<queue, hand, committed, results>>
    BY <1>3 DEF AllowAsyncTransactions, Stop, Loop, EndOfRequests, Destroy, Acquire, vars, conn
  <2>2. QED
    BY <2>1 DEF Stored, Line
<1>4. QED
  BY <1>1, <1>2, <1>3 DEF DelayThread

LEMMA StoreNext == IInv /\ [Next]_vars => [Store!Next]_(Store!vars)
<1>1. IInv /\ [Next]_vars => [Store!Next]_Stored
  BY CallIsStoreStep, PerformIsStoreStep, OtherIsStoreStep DEF Next
<1>2. QED
  BY <1>1 DEF Stored, Store!vars

-----------------------------------------------------------------------------
\* SqlConnection::Lock around a whole operation: the open transaction of the connection
\* holds a part of the statements of the operation that holds the lock, and no other's.
THEOREM WorkIsOwnersHolds == Spec => []WorkIsOwners
<1>1. IInv => WorkIsOwners
  <2> SUFFICES ASSUME IInv PROVE WorkIsOwners
    OBVIOUS
  <2>1. Types /\ WorkIsDone
    BY DEF IInv
  <2>2. open => lock # Free /\ hand[lock].kind = "transaction"
    BY <2>1 DEF WorkIsDone
  <2>3. work # <<>> => open
    BY <2>1 DEF WorkIsDone
  <2>4. ASSUME open PROVE IsPrefix(work, hand[lock].stmts)
    <3>1. lock \in Actor
      BY <2>1, <2>2, <2>4 DEF Types
    <3>2. hand[lock].stmts \in Seq(Stmt) /\ work \in Seq(Stmt)
      BY <2>1, <3>1, HolderFacts DEF Types
    <3>3. Len(work) <= Len(hand[lock].stmts) /\ \A i \in 1 .. Len(work) : work[i] = hand[lock].stmts[i]
      BY <2>1, <2>4 DEF WorkIsDone
    <3>4. QED
      BY <3>2, <3>3, PrefixByElements
  <2>5. QED
    BY <2>2, <2>3, <2>4 DEF WorkIsOwners
<1>2. QED
  BY InvAlways, <1>1, PTL DEF Spec

\* HaltDelayThread and the flush of ~SqlDelayThread: when they are over no operation is
\* left in the queue or half done on the connection.
THEOREM NothingLeftBehindHolds == Spec => []NothingLeftBehind
<1>1. IInv => NothingLeftBehind
  <2> SUFFICES ASSUME IInv, pc = "halted" PROVE Line = <<>> /\ lock = Free /\ ~open
    BY DEF NothingLeftBehind
  <2>1. /\ hand[Delayer] = NoOp /\ queue = <<>> /\ \A t \in Thread : hand[t] = NoOp
    BY DEF IInv, StopsInOrder
  <2>2. lock = Free
    BY <2>1 DEF IInv, HolderAtWork, Types, Actor
  <2>3. ~open
    BY <2>2 DEF IInv, WorkIsDone
  <2>4. Line = <<>>
    BY <2>1 DEF Line
  <2>5. QED
    BY <2>2, <2>3, <2>4
<1>2. QED
  BY InvAlways, <1>1, PTL DEF Spec

\* Database, SqlDelayThread and the async connection implement the store: operations take
\* effect whole or not at all, one at a time, and the queued ones in the order they came.
THEOREM DatabaseImplementsStore == Spec => ImplementsStore
BY InvAlways, StoreInit, StoreNext, PTL DEF Spec, ImplementsStore, Store!Spec

-----------------------------------------------------------------------------
(* What a query sees                                                         *)

\* The statements a thread has staged or executes itself.
Staged(t) == IF trans[t] = NoTrans THEN {} ELSE ToSet(trans[t])
Held(t) == Staged(t) \union (IF hand[t] = NoOp THEN {} ELSE ToSet(hand[t].stmts))

\* A statement that has been issued and that no thread holds any more.
Old(s) == s.no <= issued[s.by] /\ \A t \in Thread : s \notin Held(t)

\* A statement is held by the thread that issued it, staged or at hand; the line
\* and the queries answered mention only old ones.
HeldByIssuer ==
  \A t \in Thread :
    /\ \A s \in Held(t) : s.by = t /\ s.no <= issued[t]
    /\ trans[t] # NoTrans /\ hand[t] # NoOp => Staged(t) \intersect ToSet(hand[t].stmts) = {}

LineIsOld ==
  \A i \in DOMAIN Line : \A s \in ToSet(Line[i].stmts) \union Line[i].behind : Old(s)

\* What a query was queued behind is neither later in the line nor, once it is
\* answered, in the line at all.
BehindIsAhead ==
  \A i, j \in DOMAIN Line : i < j => \A s \in Line[i].behind : s \notin ToSet(Line[j].stmts)

AnsweredIsSettled ==
  \A k \in DOMAIN results : \A s \in results[k].query.behind :
    /\ Old(s)
    /\ \A j \in DOMAIN Line : s \notin ToSet(Line[j].stmts)

\* QueriesSeeWrites, by positions.
Covers(c, n, s) == \A i \in 1 .. Len(c) : c[i] = s => \E j \in 1 .. n : c[j] = s

AnswerSeesIt ==
  \A k \in DOMAIN results :
    /\ results[k].seen <= Len(committed)
    /\ \A s \in results[k].query.behind : Covers(committed, results[k].seen, s)

SeenInv ==
  /\ results \in Seq([query : SoundOp, seen : Nat])
  /\ HeldByIssuer
  /\ LineIsOld
  /\ BehindIsAhead
  /\ AnsweredIsSettled
  /\ AnswerSeesIt

LEMMA LineType ==
  ASSUME Types
  PROVE  Line \in Seq(SoundOp) /\ Len(Line) \in Nat /\ DOMAIN Line = 1 .. Len(Line)
<1>1. queue \in Seq(SoundOp) /\ (hand[Delayer] = NoOp \/ hand[Delayer] \in SoundOp)
  BY ActorFacts DEF Types
<1>2. Line \in Seq(SoundOp)
  <2>1. CASE hand[Delayer] = NoOp
    BY <1>1, <2>1, EmptySeq, ConcatProperties DEF Line
  <2>2. CASE hand[Delayer] # NoOp
    <3>1. <<hand[Delayer]>> \in Seq(SoundOp)
      BY <1>1, <2>2
    <3>2. QED
      BY <1>1, <2>2, <3>1, ConcatProperties DEF Line
  <2>3. QED
    BY <2>1, <2>2
<1>3. QED
  BY <1>2, LenProperties

LEMMA SeenInit == Init => SeenInv
<1> SUFFICES ASSUME Init PROVE SeenInv
  OBVIOUS
<1>1. Line = <<>> /\ results = <<>>
  BY ActorFacts DEF Init, Line
<1>2. DOMAIN Line = {} /\ DOMAIN results = {} /\ results \in Seq([query : SoundOp, seen : Nat])
  BY <1>1, EmptySeq
<1>3. \A t \in Thread : trans[t] = NoTrans /\ Held(t) = {}
  BY ActorFacts DEF Init, Held, Staged
<1>4. QED
  BY <1>2, <1>3 DEF SeenInv, HeldByIssuer, LineIsOld, BehindIsAhead, AnsweredIsSettled, AnswerSeesIt

\* t takes up a new statement, passes on what it holds, or drops it.
IsNew(s, t) == s.by = t /\ s.no = issued[t] + 1 /\ issued'[t] = issued[t] + 1

Moves(t) ==
  /\ UNCHANGED <<committed, results>>
  /\ issued' \in [Thread -> Nat] /\ \A u \in Thread : issued'[u] >= issued[u]
  /\ \A u \in Thread \ {t} : Held(u)' = Held(u) /\ trans'[u] = trans[u] /\ hand'[u] = hand[u]
  /\ \A s \in Held(t)' : s \in Held(t) \/ IsNew(s, t)
  /\ trans'[t] # NoTrans /\ hand'[t] # NoOp => Staged(t)' \intersect ToSet(hand'[t].stmts) = {}

\* What t hands over was its own or is new, and t holds it no more.
Gives(t, op) ==
  /\ \A s \in ToSet(op.stmts) : s \in Stmt /\ (s \in Held(t) \/ IsNew(s, t)) /\ s \notin Held(t)'
  /\ \A s \in op.behind : s \in Stmt /\ \E i \in DOMAIN Line : s \in ToSet(Line[i].stmts)

LEMMA OldStays ==
  ASSUME Types, HeldByIssuer, NEW t \in Thread, Moves(t), NEW s \in Stmt, Old(s)
  PROVE  Old(s)' /\ ~IsNew(s, t) /\ s \notin Held(t)
<1>1. s.by \in Thread /\ s.no \in Nat
  BY BoundAssumption DEF Stmt
<1>2. issued[s.by] \in Nat /\ issued[t] \in Nat
  BY <1>1 DEF Types
<1>3. ~IsNew(s, t)
  BY <1>1, <1>2 DEF Old, IsNew
<1>4. s.no <= issued'[s.by]
  BY <1>1, <1>2 DEF Moves, Old
<1>5. \A u \in Thread : s \notin Held(u)'
  BY <1>3 DEF Moves, Old
<1>6. QED
  BY <1>3, <1>4, <1>5 DEF Old

\* Handing over lengthens the line.
LEMMA LineAppends ==
  ASSUME Types, NEW op \in SoundOp, queue' = Append(queue, op), UNCHANGED hand
  PROVE  Line' = Append(Line, op)
<1>1. queue \in Seq(SoundOp) /\ (hand[Delayer] = NoOp \/ hand[Delayer] \in SoundOp)
  BY ActorFacts DEF Types
<1>2. PICK p \in Seq(SoundOp) : p = IF hand[Delayer] = NoOp THEN <<>> ELSE <<hand[Delayer]>>
  <2>1. <<>> \in Seq(SoundOp) /\ (hand[Delayer] \in SoundOp => <<hand[Delayer]>> \in Seq(SoundOp))
    BY EmptySeq
  <2>2. QED
    BY <1>1, <2>1
<1>3. Line = p \o queue /\ Line' = p \o Append(queue, op)
  BY <1>2 DEF Line
<1>4. QED
  BY <1>1, <1>2, <1>3, AppendAfter

LEMMA AnswerType ==
  ASSUME NEW rs \in Seq([query : SoundOp, seen : Nat]), NEW k \in DOMAIN rs
  PROVE  rs[k].query \in SoundOp /\ rs[k].seen \in Nat
<1>1. rs[k] \in [query : SoundOp, seen : Nat]
  BY ElementOfSeq, LenProperties
<1>2. QED
  BY <1>1

LEMMA StmtsOf ==
  ASSUME NEW op \in SoundOp
  PROVE  ToSet(op.stmts) \subseteq Stmt /\ op.behind \subseteq Stmt
BY DEF SoundOp, Operation, ToSet

\* A statement t gives up is old from then on.
LEMMA GivenIsOld ==
  ASSUME Types, HeldByIssuer, NEW t \in Thread, Moves(t), NEW s \in Stmt,
         s \in Held(t) \/ IsNew(s, t), s \notin Held(t)'
  PROVE  Old(s)'
<1>1. s.by = t /\ s.no <= issued'[t]
  <2>1. issued[t] \in Nat /\ issued'[t] \in Nat /\ issued'[t] >= issued[t] /\ s.no \in Nat
    BY BoundAssumption DEF Types, Moves, Stmt
  <2>2. QED
    BY <2>1 DEF HeldByIssuer, IsNew
<1>2. ASSUME NEW u \in Thread PROVE s \notin Held(u)'
  <2>1. CASE u = t
    BY <2>1
  <2>2. CASE u # t
    BY <1>1, <2>2 DEF HeldByIssuer, Moves
  <2>3. QED
    BY <2>1, <2>2
<1>3. QED
  BY <1>1, <1>2 DEF Old

LEMMA HeldMoves ==
  ASSUME Types, HeldByIssuer, NEW t \in Thread, Moves(t)
  PROVE  HeldByIssuer'
<1>1. ASSUME NEW u \in Thread, NEW s \in Held(u)' PROVE s.by = u /\ s.no <= issued'[u]
  <2>1. issued[u] \in Nat /\ issued'[u] \in Nat /\ issued'[u] >= issued[u]
    BY DEF Types, Moves
  <2>2. CASE s \in Held(u)
    <3>1. s.by = u /\ s.no <= issued[u]
      BY <2>2 DEF HeldByIssuer
    <3>2. s \in Stmt
      <4>1. trans[u] # NoTrans => ToSet(trans[u]) \subseteq Stmt
        BY DEF Types, ToSet
      <4>2. hand[u] # NoOp => ToSet(hand[u].stmts) \subseteq Stmt
        BY StmtsOf, ActorFacts DEF Types
      <4>3. QED
        BY <2>2, <4>1, <4>2 DEF Held, Staged
    <3>3. s.no \in Nat
      BY <3>2, BoundAssumption DEF Stmt
    <3>4. QED
      BY <2>1, <3>1, <3>3
  <2>3. CASE s \notin Held(u)
    <3>1. u = t /\ IsNew(s, t)
      BY <1>1, <2>3 DEF Moves
    <3>2. QED
      BY <2>1, <3>1 DEF IsNew
  <2>4. QED
    BY <2>2, <2>3
<1>2. ASSUME NEW u \in Thread, trans'[u] # NoTrans, hand'[u] # NoOp
      PROVE  Staged(u)' \intersect ToSet(hand'[u].stmts) = {}
  <2>1. CASE u = t
    BY <1>2, <2>1 DEF Moves
  <2>2. CASE u # t
    BY <1>2, <2>2 DEF Moves, HeldByIssuer, Staged
  <2>3. QED
    BY <2>1, <2>2
<1>3. QED
  BY <1>1, <1>2 DEF HeldByIssuer

\* A call that leaves the line as it is.
LEMMA QuietMove ==
  ASSUME Types, SeenInv, NEW t \in Thread, Moves(t), Line' = Line
  PROVE  SeenInv'
<1>1. HeldByIssuer'
  BY HeldMoves DEF SeenInv
<1>2. \A i \in DOMAIN Line : Line[i] \in SoundOp
  BY LineType
<1>3. \A k \in DOMAIN results : results[k].query \in SoundOp
  BY AnswerType DEF SeenInv
<1>4. LineIsOld'
  <2> SUFFICES ASSUME NEW i \in DOMAIN Line, NEW s \in ToSet(Line[i].stmts) \union Line[i].behind
               PROVE  Old(s)'
    BY DEF LineIsOld
  <2>1. Old(s) /\ s \in Stmt
    BY <1>2, StmtsOf DEF SeenInv, LineIsOld
  <2>2. QED
    BY <2>1, OldStays DEF SeenInv
<1>5. AnsweredIsSettled'
  <2>0. UNCHANGED results
    BY DEF Moves
  <2> SUFFICES ASSUME NEW k \in DOMAIN results, NEW s \in results[k].query.behind
               PROVE  Old(s)' /\ \A j \in DOMAIN Line : s \notin ToSet(Line[j].stmts)
    BY <2>0 DEF AnsweredIsSettled
  <2>1. Old(s) /\ \A j \in DOMAIN Line : s \notin ToSet(Line[j].stmts)
    BY DEF SeenInv, AnsweredIsSettled
  <2>2. s \in Stmt
    BY <1>3, StmtsOf
  <2>3. QED
    BY <2>1, <2>2, OldStays DEF SeenInv
<1>6. BehindIsAhead' /\ AnswerSeesIt' /\ results' \in Seq([query : SoundOp, seen : Nat])
  BY DEF SeenInv, BehindIsAhead, AnswerSeesIt, Moves
<1>7. QED
  BY <1>1, <1>4, <1>5, <1>6 DEF SeenInv

\* A call that hands an operation over.
LEMMA GivingMove ==
  ASSUME Types, SeenInv, NEW t \in Thread, Moves(t), NEW op \in SoundOp, Gives(t, op),
         Line' = Append(Line, op)
  PROVE  SeenInv'
<1>0. /\ HeldByIssuer /\ LineIsOld /\ BehindIsAhead /\ AnsweredIsSettled /\ AnswerSeesIt
      /\ results \in Seq([query : SoundOp, seen : Nat])
  BY DEF SeenInv
<1>1. HeldByIssuer'
  BY <1>0, HeldMoves
<1>2. /\ Len(Line) \in Nat /\ DOMAIN Line = 1 .. Len(Line)
      /\ \A i \in DOMAIN Line : Line[i] \in SoundOp
  BY LineType
<1>3. /\ DOMAIN Line' = 1 .. Len(Line) + 1
      /\ \A i \in 1 .. Len(Line) : Line'[i] = Line[i]
      /\ Line'[Len(Line) + 1] = op
  BY LineType, AppendProperties, LenProperties
<1>4. \A k \in DOMAIN results : results[k].query \in SoundOp
  BY <1>0, AnswerType
<1>5. \A s \in ToSet(op.stmts) : Old(s)'
  BY <1>0, GivenIsOld DEF Gives
<1>6. \A s \in Stmt : Old(s) => Old(s)' /\ s \notin ToSet(op.stmts)
  <2> SUFFICES ASSUME NEW s \in Stmt, Old(s) PROVE Old(s)' /\ s \notin ToSet(op.stmts)
    OBVIOUS
  <2>1. Old(s)' /\ ~IsNew(s, t) /\ s \notin Held(t)
    BY <1>0, OldStays
  <2>2. QED
    BY <2>1 DEF Gives
<1>7. \A s \in op.behind : Old(s)'
  BY <1>0, <1>6 DEF Gives, LineIsOld
<1>8. LineIsOld'
  <2> SUFFICES ASSUME NEW i \in DOMAIN Line', NEW s \in ToSet(Line'[i].stmts) \union Line'[i].behind
               PROVE  Old(s)'
    BY DEF LineIsOld
  <2>1. CASE i \in 1 .. Len(Line)
    <3>1. Old(s) /\ s \in Stmt
      BY <1>0, <1>2, <1>3, <2>1, StmtsOf DEF LineIsOld
    <3>2. QED
      BY <1>6, <3>1
  <2>2. CASE i = Len(Line) + 1
    BY <1>3, <1>5, <1>7, <2>2
  <2>3. QED
    BY <1>2, <1>3, <2>1, <2>2
<1>9. BehindIsAhead'
  <2> SUFFICES ASSUME NEW i \in DOMAIN Line', NEW j \in DOMAIN Line', i < j, NEW s \in Line'[i].behind
               PROVE  s \notin ToSet(Line'[j].stmts)
    BY DEF BehindIsAhead
  <2>1. i \in 1 .. Len(Line) /\ Line'[i] = Line[i]
    BY <1>2, <1>3
  <2>2. CASE j \in 1 .. Len(Line)
    BY <1>0, <1>2, <1>3, <2>1, <2>2 DEF BehindIsAhead
  <2>3. CASE j = Len(Line) + 1
    <3>1. Old(s) /\ s \in Stmt
      BY <1>0, <1>2, <2>1, StmtsOf DEF LineIsOld
    <3>2. QED
      BY <1>3, <1>6, <2>3, <3>1
  <2>4. QED
    BY <1>2, <1>3, <2>2, <2>3
<1>10. AnsweredIsSettled'
  <2>0. UNCHANGED results
    BY DEF Moves
  <2> SUFFICES ASSUME NEW k \in DOMAIN results, NEW s \in results[k].query.behind
               PROVE  Old(s)' /\ \A j \in DOMAIN Line' : s \notin ToSet(Line'[j].stmts)
    BY <2>0 DEF AnsweredIsSettled
  <2>1. Old(s) /\ s \in Stmt /\ \A j \in DOMAIN Line : s \notin ToSet(Line[j].stmts)
    BY <1>0, <1>4, StmtsOf DEF AnsweredIsSettled
  <2>2. Old(s)' /\ s \notin ToSet(op.stmts)
    BY <1>6, <2>1
  <2>3. QED
    BY <1>2, <1>3, <2>1, <2>2
<1>11. AnswerSeesIt' /\ results' \in Seq([query : SoundOp, seen : Nat])
  BY <1>0 DEF AnswerSeesIt, Moves
<1>12. QED
  BY <1>1, <1>8, <1>9, <1>10, <1>11 DEF SeenInv

\* An operation t hands over or executes itself.
LEMMA HandOverMoves ==
  ASSUME Types, HeldByIssuer, NEW t \in Thread, hand[t] = NoOp, NEW op \in SoundOp, HandsOver(t, op),
         UNCHANGED <<committed, results>>,
         issued' \in [Thread -> Nat], \A u \in Thread : issued'[u] >= issued[u],
         \A u \in Thread \ {t} : trans'[u] = trans[u],
         \A s \in Staged(t)' : s \in Staged(t),
         \A s \in ToSet(op.stmts) : (s \in Staged(t) \/ IsNew(s, t)) /\ s \notin Staged(t)',
         \A s \in op.behind : \E i \in DOMAIN Line : s \in ToSet(Line[i].stmts)
  PROVE  /\ Moves(t)
         /\ Line' = Line \/ (Gives(t, op) /\ Line' = Append(Line, op))
<1>0. t \in Actor /\ Delayer \in Actor /\ t # Delayer /\ Thread \subseteq Actor /\ op # NoOp
  BY ActorFacts, ThreadAssumption, OpFacts
<1>1. \A u \in Thread \ {t} : hand'[u] = hand[u]
  BY <1>0 DEF HandsOver, Types
<1>2. \A u \in Thread \ {t} : Held(u)' = Held(u)
  BY <1>1 DEF Held, Staged
<1>3. Held(t) = Staged(t)
  BY DEF Held
<1>4. CASE queue' = Append(queue, op) /\ UNCHANGED hand
  <2>1. Held(t)' = Staged(t)' /\ hand'[t] = NoOp
    BY <1>4 DEF Held
  <2>2. Moves(t)
    BY <1>1, <1>2, <1>3, <2>1 DEF Moves
  <2>3. Gives(t, op)
    BY <1>3, <2>1, StmtsOf DEF Gives
  <2>4. Line' = Append(Line, op)
    BY <1>4, LineAppends
  <2>5. QED
    BY <2>2, <2>3, <2>4
<1>5. CASE hand' = [hand EXCEPT ![t] = op] /\ UNCHANGED queue
  <2>1. hand'[t] = op /\ hand'[Delayer] = hand[Delayer]
    BY <1>0, <1>5 DEF Types
  <2>2. Held(t)' = Staged(t)' \union ToSet(op.stmts)
    BY <1>0, <2>1 DEF Held
  <2>3. Staged(t)' \intersect ToSet(hand'[t].stmts) = {}
    BY <2>1
  <2>4. Moves(t)
    BY <1>1, <1>2, <1>3, <2>2, <2>3 DEF Moves
  <2>5. Line' = Line
    BY <1>5, <2>1 DEF Line
  <2>6. QED
    BY <2>4, <2>5
<1>6. QED
  BY <1>4, <1>5 DEF HandsOver

\* A call that keeps its thread's statements to itself.
LEMMA KeepingMoves ==
  ASSUME Types, NEW t \in Thread, hand[t] = NoOp, UNCHANGED <<queue, hand, committed, results>>,
         issued' \in [Thread -> Nat], \A u \in Thread : issued'[u] >= issued[u],
         \A u \in Thread \ {t} : trans'[u] = trans[u],
         \A s \in Staged(t)' : s \in Staged(t) \/ IsNew(s, t)
  PROVE  Moves(t) /\ Line' = Line
<1>1. \A u \in Thread \ {t} : Held(u)' = Held(u)
  BY DEF Held, Staged
<1>2. Held(t) = Staged(t) /\ Held(t)' = Staged(t)' /\ hand'[t] = NoOp
  BY DEF Held
<1>3. QED
  BY <1>1, <1>2 DEF Moves, Line

LEMMA SetOfAppended ==
  ASSUME NEW S, NEW q \in Seq(S), NEW e \in S
  PROVE  ToSet(Append(q, e)) = ToSet(q) \union {e}
<1>1. /\ Append(q, e) \in Seq(S) /\ Len(Append(q, e)) = Len(q) + 1
      /\ \A i \in 1 .. Len(q) : Append(q, e)[i] = q[i]
      /\ Append(q, e)[Len(q) + 1] = e
  BY AppendProperties
<1>2. Len(q) \in Nat /\ DOMAIN q = 1 .. Len(q) /\ DOMAIN Append(q, e) = 1 .. Len(q) + 1
  BY <1>1, LenProperties
<1>3. QED
  BY <1>1, <1>2 DEF ToSet

\* What a call does to the statements of its thread.
LEMMA CallMoves ==
  ASSUME IInv, SeenInv, NEW t \in Thread, CallOf(t)
  PROVE  /\ Moves(t)
         /\ \/ Line' = Line
            \/ \E op \in SoundOp : Gives(t, op) /\ Line' = Append(Line, op)
<1>0. /\ Types /\ HeldByIssuer
      /\ trans \in [Thread -> Seq(Stmt) \union {NoTrans}] /\ issued \in [Thread -> Nat]
  BY DEF IInv, SeenInv, Types
<1>1. hand[t] = NoOp /\ UNCHANGED <<committed, results>>
  BY CallsAre DEF Calls
<1>2. \A s \in Staged(t) : s.by = t /\ s.no <= issued[t]
  BY <1>0 DEF HeldByIssuer, Held
<1>3. CASE BeginTransaction(t) \/ RollbackTransaction(t)
  <2>1. /\ UNCHANGED <<issued, queue, hand>>
        /\ trans' = [trans EXCEPT ![t] = <<>>] \/ trans' = [trans EXCEPT ![t] = NoTrans]
    BY <1>3 DEF BeginTransaction, RollbackTransaction, ResetStaged, Slot, conn
  <2>2. Staged(t)' = {} /\ \A u \in Thread \ {t} : trans'[u] = trans[u]
    BY <1>0, <2>1 DEF Staged, ToSet
  <2>3. \A u \in Thread : issued'[u] >= issued[u]
    BY <1>0, <2>1
  <2>4. QED
    BY <1>0, <1>1, <2>1, <2>2, <2>3, KeepingMoves
<1>4. CASE Commit(t)
  <2>1. /\ trans[t] # NoTrans /\ trans' = [trans EXCEPT ![t] = NoTrans] /\ UNCHANGED issued
        /\ Send(t, Op("transaction", trans[t], {})) \/ DoItself(t, Op("transaction", trans[t], {}))
    BY <1>4 DEF Commit, ResetStaged, Slot
  <2>2. PICK op \in SoundOp : op = Op("transaction", trans[t], {})
    BY <1>0, <2>1 DEF Op, SoundOp, Operation
  <2>3. HandsOver(t, op) /\ op.stmts = trans[t] /\ op.behind = {}
    BY <2>1, <2>2 DEF Send, Delay, DoItself, HandsOver, Op
  <2>4. /\ Staged(t)' = {} /\ Staged(t) = ToSet(op.stmts)
        /\ \A u \in Thread \ {t} : trans'[u] = trans[u]
    BY <1>0, <2>1, <2>3 DEF Staged
  <2>5. \A u \in Thread : issued'[u] >= issued[u]
    BY <1>0, <2>1
  <2>6. QED
    BY <1>0, <1>1, <2>1, <2>2, <2>3, <2>4, <2>5, HandOverMoves
<1>5. CASE Execute(t) \/ DirectExecute(t) \/ AsyncQuery(t)
  <2>1. issued[t] < MaxStmt[t] /\ issued' = [issued EXCEPT ![t] = @ + 1]
    BY <1>5 DEF Execute, DirectExecute, AsyncQuery, Issue
  <2>2. PICK n : n = NextStmt(t)
    OBVIOUS
  <2>3. n \in Stmt /\ issued' \in [Thread -> Nat]
    BY <1>0, <2>1, <2>2, StmtFacts
  <2>4. IsNew(n, t) /\ n \notin Staged(t) /\ \A u \in Thread : issued'[u] >= issued[u]
    BY <1>0, <1>2, <2>1, <2>2 DEF IsNew, NextStmt
  <2>5. CASE trans[t] # NoTrans /\ trans' = [trans EXCEPT ![t] = Append(@, n)] /\ UNCHANGED <<queue, hand>>
    <3>1. ToSet(Append(trans[t], n)) = ToSet(trans[t]) \union {n}
      BY <1>0, <2>3, <2>5, SetOfAppended
    <3>2. \A s \in Staged(t)' : s \in Staged(t) \/ IsNew(s, t)
      BY <1>0, <2>4, <2>5, <3>1 DEF Staged
    <3>3. \A u \in Thread \ {t} : trans'[u] = trans[u]
      BY <1>0, <2>5
    <3>4. QED
      BY <1>0, <1>1, <2>3, <2>4, <2>5, <3>2, <3>3, KeepingMoves
  <2>6. ASSUME NEW op \in SoundOp, HandsOver(t, op), op.stmts = <<n>>, UNCHANGED trans,
               \A s \in op.behind : \E i \in DOMAIN Line : s \in ToSet(Line[i].stmts)
        PROVE  Moves(t) /\ (Line' = Line \/ (Gives(t, op) /\ Line' = Append(Line, op)))
    <3>1. ToSet(op.stmts) = {n}
      <4>1. DOMAIN <<n>> = {1} /\ <<n>>[1] = n
        OBVIOUS
      <4>2. QED
        BY <2>6, <4>1 DEF ToSet
    <3>2. Staged(t)' = Staged(t)
      BY <2>6 DEF Staged
    <3>3. QED
      BY <1>0, <1>1, <2>3, <2>4, <2>6, <3>1, <3>2, HandOverMoves
  <2>7. CASE \/ Send(t, Op("plain", <<n>>, {})) /\ UNCHANGED trans
             \/ DoItself(t, Op("plain", <<n>>, {})) /\ UNCHANGED trans
    <3>1. PICK op \in SoundOp : op = Op("plain", <<n>>, {})
      <4>1. Op("plain", <<n>>, {}) \in SoundOp
        BY <2>3 DEF Op, SoundOp, Operation
      <4>2. QED
        BY <4>1
    <3>2. HandsOver(t, op) /\ op.stmts = <<n>> /\ op.behind = {}
      BY <2>7, <3>1 DEF Send, Delay, DoItself, HandsOver, Op
    <3>3. QED
      BY <2>6, <2>7, <3>2
  <2>8. CASE queue' = Append(queue, Op("query", <<n>>, Waiting)) /\ UNCHANGED <<hand, trans>>
    <3>1. ASSUME NEW s \in Waiting PROVE \E i \in DOMAIN Line : s \in ToSet(Line[i].stmts)
      <4>1. PICK o \in ToSet(Line) : s \in ToSet(o.stmts)
        BY DEF Waiting
      <4>2. PICK i \in DOMAIN Line : Line[i] = o
        BY DEF ToSet
      <4>3. QED
        BY <4>1, <4>2
    <3>2. \A i \in DOMAIN Line : ToSet(Line[i].stmts) \subseteq Stmt
      BY <1>0, LineType, StmtsOf
    <3>3. Waiting \subseteq Stmt
      BY <3>1, <3>2
    <3>4. PICK op \in SoundOp : op = Op("query", <<n>>, Waiting)
      <4>1. Op("query", <<n>>, Waiting) \in SoundOp
        BY <2>3, <3>3 DEF Op, SoundOp, Operation
      <4>2. QED
        BY <4>1
    <3>5. HandsOver(t, op) /\ op.stmts = <<n>> /\ op.behind = Waiting
      BY <2>8, <3>4 DEF HandsOver, Op
    <3>6. QED
      BY <2>6, <2>8, <3>1, <3>5
  <2>9. QED
    BY <1>5, <2>2, <2>5, <2>7, <2>8
       DEF Execute, DirectExecute, AsyncQuery, QueueQuery, Stages, Slot, conn
<1>6. QED
  BY <1>3, <1>4, <1>5 DEF CallOf

\* The end of an operation, as the statements see it: what takes effect was in the
\* hands of the thread that executed it, or at the head of the line.
LEMMA GrowthSees ==
  ASSUME NEW c \in Seq(Stmt), NEW q \in Seq(Stmt), NEW d, d \in {c, c \o q},
         NEW seen \in Nat, seen <= Len(c), NEW s, s \notin ToSet(q), Covers(c, seen, s)
  PROVE  Covers(d, seen, s)
<1>1. CASE d = c
  BY <1>1
<1>2. CASE d = c \o q
  <2>1. /\ Len(c) \in Nat /\ Len(q) \in Nat /\ Len(d) = Len(c) + Len(q)
        /\ \A i \in 1 .. Len(c) : d[i] = c[i]
        /\ \A i \in Len(c) + 1 .. Len(c) + Len(q) : d[i] = q[i - Len(c)]
    BY <1>2, ConcatProperties, LenProperties
  <2>2. \A j \in 1 .. Len(q) : q[j] # s
    BY LenProperties DEF ToSet
  <2>3. ASSUME NEW i \in 1 .. Len(d), d[i] = s PROVE \E j \in 1 .. seen : d[j] = s
    <3>1. i \in 1 .. Len(c)
      <4>1. SUFFICES ASSUME i \notin 1 .. Len(c) PROVE FALSE
        OBVIOUS
      <4>2. i \in Len(c) + 1 .. Len(c) + Len(q) /\ i - Len(c) \in 1 .. Len(q)
        BY <2>1, <4>1
      <4>3. QED
        BY <2>1, <2>2, <2>3, <4>2
    <3>2. c[i] = s
      BY <2>1, <2>3, <3>1
    <3>3. PICK j \in 1 .. seen : c[j] = s
      BY <3>1, <3>2 DEF Covers
    <3>4. j \in 1 .. Len(c)
      BY <2>1
    <3>5. QED
      BY <2>1, <3>3, <3>4
  <2>4. QED
    BY <2>3 DEF Covers
<1>3. QED
  BY <1>1, <1>2

\* The operation that ends had been in its thread's hands.
LEMMA ThreadEndsSeen ==
  ASSUME IInv, SeenInv, NEW a \in Thread, lock = a, Ends(a), UNCHANGED <<callers, queue>>
  PROVE  SeenInv'
<1>0. /\ Types /\ HeldByIssuer /\ LineIsOld /\ BehindIsAhead /\ AnsweredIsSettled /\ AnswerSeesIt
      /\ results \in Seq([query : SoundOp, seen : Nat]) /\ UNCHANGED <<issued, trans>>
      /\ a \in Actor /\ Delayer \in Actor /\ a # Delayer /\ Thread \subseteq Actor
  BY ActorFacts, ThreadAssumption DEF IInv, SeenInv, callers
<1>1. hand[a] \in SoundOp /\ hand[a] # NoOp /\ hand[a].stmts \in Seq(Stmt) /\ committed \in Seq(Stmt)
  BY <1>0, HolderFacts DEF Types
<1>2. hand[a].kind # "query"
  BY <1>1 DEF IInv, QueriesQueued
<1>3. /\ hand' = [hand EXCEPT ![a] = NoOp] /\ UNCHANGED results
      /\ committed' \in {committed, committed \o hand[a].stmts}
  BY <1>2 DEF Ends, Over
<1>4. hand'[a] = NoOp /\ \A u \in Actor \ {a} : hand'[u] = hand[u]
  BY <1>0, <1>3 DEF Types
<1>5. Line' = Line
  BY <1>0, <1>4 DEF Line
<1>6. \A u \in Thread : Staged(u)' = Staged(u) /\ Held(u)' \subseteq Held(u)
  BY <1>0, <1>4 DEF Held, Staged
<1>7. HeldByIssuer'
  <2>1. ASSUME NEW u \in Thread, NEW s \in Held(u)' PROVE s.by = u /\ s.no <= issued'[u]
    BY <1>0, <1>6, <2>1 DEF HeldByIssuer
  <2>2. ASSUME NEW u \in Thread, trans'[u] # NoTrans, hand'[u] # NoOp
        PROVE  Staged(u)' \intersect ToSet(hand'[u].stmts) = {}
    BY <1>0, <1>4, <1>6, <2>2 DEF HeldByIssuer
  <2>3. QED
    BY <2>1, <2>2 DEF HeldByIssuer
<1>8. \A s : Old(s) => Old(s)'
  BY <1>0, <1>6 DEF Old
<1>9. LineIsOld'
  <2> SUFFICES ASSUME NEW i \in DOMAIN Line, NEW s \in ToSet(Line[i].stmts) \union Line[i].behind
               PROVE  Old(s)'
    BY <1>5 DEF LineIsOld
  <2>1. QED
    BY <1>0, <1>8 DEF LineIsOld
<1>10. BehindIsAhead'
  BY <1>0, <1>5 DEF BehindIsAhead
<1>11. AnsweredIsSettled'
  <2> SUFFICES ASSUME NEW k \in DOMAIN results, NEW s \in results[k].query.behind
               PROVE  Old(s)' /\ \A j \in DOMAIN Line : s \notin ToSet(Line[j].stmts)
    BY <1>3, <1>5 DEF AnsweredIsSettled
  <2>1. QED
    BY <1>0, <1>8 DEF AnsweredIsSettled
<1>12. AnswerSeesIt'
  <2> SUFFICES ASSUME NEW k \in DOMAIN results
               PROVE  /\ results[k].seen <= Len(committed')
                      /\ \A s \in results[k].query.behind : Covers(committed', results[k].seen, s)
    BY <1>3 DEF AnswerSeesIt
  <2>1. results[k].seen \in Nat /\ results[k].seen <= Len(committed)
    BY <1>0, AnswerType DEF AnswerSeesIt
  <2>2. ASSUME NEW s \in results[k].query.behind PROVE s \notin ToSet(hand[a].stmts)
    <3>1. Old(s)
      BY <1>0 DEF AnsweredIsSettled
    <3>2. QED
      BY <1>1, <3>1 DEF Old, Held
  <2>3. \A s \in results[k].query.behind : Covers(committed, results[k].seen, s)
    BY <1>0 DEF AnswerSeesIt
  <2>4. results[k].seen <= Len(committed')
    <3>1. Len(committed) \in Nat /\ Len(hand[a].stmts) \in Nat
          /\ Len(committed \o hand[a].stmts) = Len(committed) + Len(hand[a].stmts)
      BY <1>1, ConcatProperties, LenProperties
    <3>2. QED
      BY <1>3, <2>1, <3>1
  <2>5. ASSUME NEW s \in results[k].query.behind
        PROVE  Covers(committed', results[k].seen, s)
    <3>1. s \notin ToSet(hand[a].stmts)
      BY <2>2
    <3>2. Covers(committed, results[k].seen, s)
      BY <2>3
    <3>3. QED
      BY <1>1, <1>3, <2>1, <3>1, <3>2, GrowthSees
  <2>6. QED
    BY <2>4, <2>5
<1>13. QED
  BY <1>0, <1>3, <1>7, <1>9, <1>10, <1>11, <1>12 DEF SeenInv

\* The head of the line has left it, and with it the only operation that could
\* still take effect among those a query answered was queued behind.
LEMMA DelayerEndsSeen ==
  ASSUME IInv, SeenInv, lock = Delayer, Ends(Delayer), UNCHANGED <<callers, queue>>
  PROVE  SeenInv'
<1> DEFINE op == hand[Delayer]
<1>0. /\ Types /\ HeldByIssuer /\ LineIsOld /\ BehindIsAhead /\ AnsweredIsSettled /\ AnswerSeesIt
      /\ results \in Seq([query : SoundOp, seen : Nat]) /\ UNCHANGED <<issued, trans, queue>>
      /\ Delayer \in Actor /\ Delayer \notin Thread /\ Thread \subseteq Actor
  BY ActorFacts, ThreadAssumption DEF IInv, SeenInv, callers
<1>1. op \in SoundOp /\ op # NoOp /\ op.stmts \in Seq(Stmt) /\ committed \in Seq(Stmt)
  BY <1>0, HolderFacts DEF Types
<1>2. hand' = [hand EXCEPT ![Delayer] = NoOp]
  BY DEF Ends, Over
<1>3. hand'[Delayer] = NoOp /\ \A u \in Actor \ {Delayer} : hand'[u] = hand[u]
  BY <1>0, <1>2 DEF Types
<1>4. /\ Len(Line) \in Nat /\ Len(Line) >= 1 /\ DOMAIN Line = 1 .. Len(Line)
      /\ Line[1] = op
      /\ DOMAIN Line' = 1 .. Len(Line) - 1
      /\ \A i \in DOMAIN Line' : Line'[i] = Line[i + 1] /\ i + 1 \in DOMAIN Line
  <2>1. queue \in Seq(SoundOp) /\ <<op>> \in Seq(SoundOp) /\ Len(queue) \in Nat
    BY <1>0, <1>1, LenProperties DEF Types
  <2>2. Line = <<op>> \o queue /\ Line' = <<>> \o queue
    BY <1>0, <1>1, <1>3 DEF Line
  <2>3. Line' = queue /\ DOMAIN queue = 1 .. Len(queue)
    BY <2>1, <2>2, LenProperties
  <2>4. Len(<<op>>) = 1 /\ <<op>>[1] = op
    OBVIOUS
  <2>5. /\ Len(Line) = 1 + Len(queue)
        /\ \A i \in 1 .. 1 : Line[i] = <<op>>[i]
        /\ \A i \in 2 .. 1 + Len(queue) : Line[i] = queue[i - 1]
    BY <2>1, <2>2, <2>4, ConcatProperties
  <2>6. DOMAIN Line = 1 .. Len(Line)
    BY <1>0, LineType
  <2>7. \A i \in 1 .. Len(queue) : i + 1 \in 2 .. 1 + Len(queue) /\ (i + 1) - 1 = i
    BY <2>1
  <2>8. QED
    BY <2>1, <2>3, <2>4, <2>5, <2>6, <2>7
<1> HIDE DEF op
<1>5. \A u \in Thread : Held(u)' = Held(u) /\ Staged(u)' = Staged(u)
  BY <1>0, <1>3 DEF Held, Staged
<1>6. HeldByIssuer'
  <2>1. \A u \in Thread : hand'[u] = hand[u] /\ trans'[u] = trans[u] /\ issued'[u] = issued[u]
    BY <1>0, <1>3
  <2>2. QED
    BY <1>0, <1>5, <2>1 DEF HeldByIssuer
<1>7. \A s : Old(s) => Old(s)'
  BY <1>0, <1>5 DEF Old
<1>8. LineIsOld'
  <2> SUFFICES ASSUME NEW i \in DOMAIN Line', NEW s \in ToSet(Line'[i].stmts) \union Line'[i].behind
               PROVE  Old(s)'
    BY DEF LineIsOld
  <2>1. Old(s)
    BY <1>0, <1>4 DEF LineIsOld
  <2>2. QED
    BY <1>7, <2>1
<1>9. BehindIsAhead'
  <2> SUFFICES ASSUME NEW i \in DOMAIN Line', NEW j \in DOMAIN Line', i < j, NEW s \in Line'[i].behind
               PROVE  s \notin ToSet(Line'[j].stmts)
    BY DEF BehindIsAhead
  <2>1. /\ Line'[i] = Line[i + 1] /\ Line'[j] = Line[j + 1]
        /\ i + 1 \in DOMAIN Line /\ j + 1 \in DOMAIN Line /\ i + 1 < j + 1
    BY <1>4
  <2>2. QED
    BY <1>0, <2>1 DEF BehindIsAhead
<1>10. CASE op.kind # "query"
  <2>1. UNCHANGED results /\ committed' \in {committed, committed \o op.stmts}
    BY <1>10 DEF Ends, op
  <2>2. \A k \in DOMAIN results : \A s \in results[k].query.behind : s \notin ToSet(op.stmts)
    BY <1>0, <1>4 DEF AnsweredIsSettled
  <2>3. AnsweredIsSettled'
    <3> SUFFICES ASSUME NEW k \in DOMAIN results, NEW s \in results[k].query.behind
                 PROVE  Old(s)' /\ \A j \in DOMAIN Line' : s \notin ToSet(Line'[j].stmts)
      BY <2>1 DEF AnsweredIsSettled
    <3>1. Old(s) /\ \A j \in DOMAIN Line : s \notin ToSet(Line[j].stmts)
      BY <1>0 DEF AnsweredIsSettled
    <3>2. QED
      BY <1>4, <1>7, <3>1
  <2>4. AnswerSeesIt'
    <3> SUFFICES ASSUME NEW k \in DOMAIN results
                 PROVE  /\ results[k].seen <= Len(committed')
                        /\ \A s \in results[k].query.behind : Covers(committed', results[k].seen, s)
      BY <2>1 DEF AnswerSeesIt
    <3>1. results[k].seen \in Nat /\ results[k].seen <= Len(committed)
      BY <1>0, AnswerType DEF AnswerSeesIt
    <3>2. results[k].seen <= Len(committed')
      <4>1. Len(committed) \in Nat /\ Len(op.stmts) \in Nat
            /\ Len(committed \o op.stmts) = Len(committed) + Len(op.stmts)
        BY <1>1, ConcatProperties, LenProperties
      <4>2. QED
        BY <2>1, <3>1, <4>1
    <3>3. ASSUME NEW s \in results[k].query.behind
          PROVE  Covers(committed', results[k].seen, s)
      <4>1. s \notin ToSet(op.stmts)
        BY <2>2
      <4>2. Covers(committed, results[k].seen, s)
        BY <1>0 DEF AnswerSeesIt
      <4>3. QED
        BY <1>1, <2>1, <3>1, <4>1, <4>2, GrowthSees
    <3>4. QED
      BY <3>2, <3>3
  <2>5. QED
    BY <1>0, <1>6, <1>8, <1>9, <2>1, <2>3, <2>4 DEF SeenInv
<1>11. CASE op.kind = "query"
  <2> DEFINE r == [query |-> op, seen |-> Len(committed)]
  <2>1. UNCHANGED committed /\ results' = Append(results, r)
    BY <1>11 DEF Ends, op
  <2>2. Len(committed) \in Nat /\ r \in [query : SoundOp, seen : Nat] /\ r.query = op /\ r.seen = Len(committed)
    BY <1>1, LenProperties
  <2> HIDE DEF r
  <2>3. Len(results) \in Nat /\ DOMAIN results = 1 .. Len(results)
    BY <1>0, LenProperties
  <2>4. /\ results' \in Seq([query : SoundOp, seen : Nat])
        /\ Len(results') = Len(results) + 1
        /\ \A k \in 1 .. Len(results) : results'[k] = results[k]
        /\ results'[Len(results) + 1] = r
    BY <1>0, <2>1, <2>2, AppendProperties
  <2>5. DOMAIN results' = 1 .. Len(results) + 1
    BY <2>4, LenProperties
  <2>6. AnsweredIsSettled'
    <3> SUFFICES ASSUME NEW k \in DOMAIN results', NEW s \in results'[k].query.behind
                 PROVE  Old(s)' /\ \A j \in DOMAIN Line' : s \notin ToSet(Line'[j].stmts)
      BY DEF AnsweredIsSettled
    <3>1. CASE k \in 1 .. Len(results)
      <4>1. Old(s) /\ \A j \in DOMAIN Line : s \notin ToSet(Line[j].stmts)
        BY <1>0, <2>3, <2>4, <3>1 DEF AnsweredIsSettled
      <4>2. QED
        BY <1>4, <1>7, <4>1
    <3>2. CASE k = Len(results) + 1
      <4>1. s \in Line[1].behind /\ 1 \in DOMAIN Line
        BY <1>4, <2>2, <2>4, <3>2
      <4>2. Old(s)'
        BY <1>0, <1>7, <4>1 DEF LineIsOld
      <4>3. ASSUME NEW j \in DOMAIN Line' PROVE s \notin ToSet(Line'[j].stmts)
        <5>1. Line'[j] = Line[j + 1] /\ j + 1 \in DOMAIN Line /\ 1 < j + 1
          BY <1>4
        <5>2. QED
          BY <1>0, <4>1, <5>1 DEF BehindIsAhead
      <4>4. QED
        BY <4>2, <4>3
    <3>3. QED
      BY <2>3, <2>5, <3>1, <3>2
  <2>7. AnswerSeesIt'
    <3> SUFFICES ASSUME NEW k \in DOMAIN results'
                 PROVE  /\ results'[k].seen <= Len(committed)
                        /\ \A s \in results'[k].query.behind : Covers(committed, results'[k].seen, s)
      BY <2>1 DEF AnswerSeesIt
    <3>1. CASE k \in 1 .. Len(results)
      BY <1>0, <2>3, <2>4, <3>1 DEF AnswerSeesIt
    <3>2. CASE k = Len(results) + 1
      BY <2>2, <2>4, <3>2 DEF Covers
    <3>3. QED
      BY <2>3, <2>5, <3>1, <3>2
  <2>8. QED
    BY <1>6, <1>8, <1>9, <2>4, <2>6, <2>7 DEF SeenInv
<1>12. QED
  BY <1>10, <1>11

\* Steps that issue, hand over and settle nothing.
LEMMA SameLineSeen ==
  ASSUME Types, SeenInv, Line' = Line,
         \A t \in Thread : hand'[t] = hand[t],
         UNCHANGED <<issued, trans, committed>>,
         UNCHANGED results \/ (results # <<>> /\ results' = Tail(results))
  PROVE  SeenInv'
<1>0. /\ HeldByIssuer /\ LineIsOld /\ BehindIsAhead /\ AnsweredIsSettled /\ AnswerSeesIt
      /\ results \in Seq([query : SoundOp, seen : Nat])
  BY DEF SeenInv
<1>1. \A t \in Thread : Held(t)' = Held(t) /\ Staged(t)' = Staged(t)
  BY DEF Held, Staged
<1>2. HeldByIssuer'
  BY <1>0, <1>1 DEF HeldByIssuer
<1>3. \A s : Old(s) => Old(s)'
  BY <1>1 DEF Old
<1>4. LineIsOld' /\ BehindIsAhead'
  BY <1>0, <1>3 DEF LineIsOld, BehindIsAhead
<1>5. /\ results' \in Seq([query : SoundOp, seen : Nat])
      /\ \A k \in DOMAIN results' : \E l \in DOMAIN results : results'[k] = results[l]
  <2>1. CASE UNCHANGED results
    BY <1>0, <2>1
  <2>2. CASE results # <<>> /\ results' = Tail(results)
    BY <1>0, <2>2, HeadTailProperties, LenProperties
  <2>3. QED
    BY <2>1, <2>2
<1>6. AnsweredIsSettled'
  <2> SUFFICES ASSUME NEW k \in DOMAIN results', NEW s \in results'[k].query.behind
               PROVE  Old(s)' /\ \A j \in DOMAIN Line : s \notin ToSet(Line[j].stmts)
    BY DEF AnsweredIsSettled
  <2>1. PICK l \in DOMAIN results : results'[k] = results[l]
    BY <1>5
  <2>2. QED
    BY <1>0, <1>3, <2>1 DEF AnsweredIsSettled
<1>7. AnswerSeesIt'
  <2> SUFFICES ASSUME NEW k \in DOMAIN results'
               PROVE  /\ results'[k].seen <= Len(committed)
                      /\ \A s \in results'[k].query.behind : Covers(committed, results'[k].seen, s)
    BY DEF AnswerSeesIt
  <2>1. PICK l \in DOMAIN results : results'[k] = results[l]
    BY <1>5
  <2>2. QED
    BY <1>0, <2>1 DEF AnswerSeesIt
<1>8. QED
  BY <1>2, <1>4, <1>5, <1>6, <1>7 DEF SeenInv

LEMMA SeenNext == IInv /\ SeenInv /\ [Next]_vars => SeenInv'
<1> SUFFICES ASSUME IInv, SeenInv, [Next]_vars PROVE SeenInv'
  OBVIOUS
<1>0. /\ Types /\ Delayer \in Actor /\ Delayer \notin Thread /\ Thread \subseteq Actor
  BY ActorFacts, ThreadAssumption DEF IInv
<1>1. ASSUME NEW t \in Thread, CallOf(t) PROVE SeenInv'
  BY <1>0, <1>1, CallMoves, QuietMove, GivingMove
<1>2. ASSUME NEW a \in Actor, Perform(a) PROVE SeenInv'
  <2>1. lock = a /\ UNCHANGED <<callers, queue>>
    BY <1>2 DEF Perform
  <2>2. CASE GoesOn(a)
    <3>1. UNCHANGED <<issued, trans, hand, queue, committed, results>> /\ Line' = Line
      BY <2>1, <2>2 DEF GoesOn, callers, Line
    <3>2. QED
      BY <1>0, <3>1, SameLineSeen
  <2>3. CASE Ends(a)
    BY <2>1, <2>3, ThreadEndsSeen, DelayerEndsSeen DEF Actor
  <2>4. QED
    BY <1>2, <2>2, <2>3, PerformIs
<1>3. CASE NextRequest
  <2>1. /\ hand[Delayer] = NoOp /\ queue # <<>> /\ queue' = Tail(queue)
        /\ hand' = [hand EXCEPT ![Delayer] = Head(queue)] /\ UNCHANGED <<issued, trans, committed, results>>
    BY <1>3 DEF NextRequest, TakesFirst, callers
  <2>2. Head(queue) \in SoundOp /\ queue = <<Head(queue)>> \o Tail(queue) /\ <<>> \o queue = queue
    BY <1>0, <2>1, TakeFirst DEF Types
  <2>3. hand'[Delayer] = Head(queue) /\ Head(queue) # NoOp
    BY <1>0, <2>1, <2>2, OpFacts DEF Types
  <2>4. Line' = Line /\ \A t \in Thread : hand'[t] = hand[t]
    BY <1>0, <2>1, <2>2, <2>3 DEF Line, Types
  <2>5. QED
    BY <1>0, <2>1, <2>4, SameLineSeen
<1>4. CASE ProcessResult
  <2>1. UNCHANGED <<issued, trans, queue, hand, committed>> /\ results # <<>> /\ results' = Tail(results)
    BY <1>4 DEF ProcessResult, TakeResult, conn, callers
  <2>2. Line' = Line /\ \A t \in Thread : hand'[t] = hand[t]
    BY <2>1 DEF Line
  <2>3. QED
    BY <1>0, <2>1, <2>2, SameLineSeen
<1>5. CASE \/ AllowAsyncTransactions \/ Stop \/ UNCHANGED vars \/ Loop \/ EndOfRequests \/ Destroy
           \/ \E a \in Actor : Acquire(a)
  <2>1. UNCHANGED <<issued, trans, queue, hand, committed, results>>
    BY <1>5 DEF AllowAsyncTransactions, Stop, Loop, EndOfRequests, Destroy, Acquire, vars, conn, callers
  <2>2. Line' = Line /\ \A t \in Thread : hand'[t] = hand[t]
    BY <2>1 DEF Line
  <2>3. QED
    BY <1>0, <2>1, <2>2, SameLineSeen
<1>6. QED
  BY <1>1, <1>2, <1>3, <1>4, <1>5 DEF Next, DelayThread

\* AsyncQuery and DelayQueryHolder share the queue with the statements: the answer to a
\* query has read everything handed over before it that ever takes effect.
THEOREM QueriesSeeWritesHolds == Spec => []QueriesSeeWrites
<1>1. IInv /\ SeenInv => QueriesSeeWrites
  <2> SUFFICES ASSUME IInv, SeenInv, NEW r \in ToSet(results), NEW s \in r.query.behind, s \in ToSet(committed)
               PROVE  s \in ToSet(SubSeq(committed, 1, r.seen))
    BY DEF QueriesSeeWrites
  <2>1. PICK k \in DOMAIN results : results[k] = r
    BY DEF ToSet
  <2>2. committed \in Seq(Stmt) /\ Len(committed) \in Nat /\ DOMAIN committed = 1 .. Len(committed)
    BY LenProperties DEF IInv, Types
  <2>3. PICK i \in 1 .. Len(committed) : committed[i] = s
    BY <2>2 DEF ToSet
  <2>4. PICK j \in 1 .. r.seen : committed[j] = s
    BY <2>1, <2>3 DEF SeenInv, AnswerSeesIt, Covers
  <2>5. r.seen \in Nat /\ r.seen <= Len(committed)
    BY <2>1, AnswerType DEF SeenInv, AnswerSeesIt
  <2>6. SubSeq(committed, 1, r.seen)[j] = committed[j] /\ j \in DOMAIN SubSeq(committed, 1, r.seen)
    BY <2>2, <2>4, <2>5, SubSeqProperties
  <2>7. QED
    BY <2>4, <2>6 DEF ToSet
<1>2. Init /\ [][Next]_vars => []SeenInv
  BY InvInit, SeenInit, InvNext, SeenNext, InvAlways, PTL
<1>3. QED
  BY InvAlways, <1>1, <1>2, PTL DEF Spec

=============================================================================
