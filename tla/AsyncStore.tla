------------------------------ MODULE AsyncStore ------------------------------
(***************************************************************************)
(* What shared/Database promises its callers: a first-in first-out line of *)
(* operations that take effect one at a time and whole, or not at all, and *)
(* of queries that read the store when their turn comes; and operations a  *)
(* thread executes itself, which take effect while it waits.               *)
(***************************************************************************)
EXTENDS Naturals, Sequences, SequencesExt

CONSTANTS Thread, \* threads that use the database
          NoOp    \* a thread that waits for nothing

VARIABLES
  fifo,      \* operations handed over and not settled
  direct,    \* the operation each thread waits for
  committed, \* statements that have taken effect, in order
  results    \* answers for the world thread

vars == <<fifo, direct, committed, results>>

Init ==
  /\ fifo = <<>>
  /\ direct = [t \in Thread |-> NoOp]
  /\ committed = <<>>
  /\ results = <<>>

\* An operation takes effect as a whole, or not at all.
Effect(op) == committed' \in {committed, committed \o op.stmts}

HandOver ==
  /\ fifo' # <<>>
  /\ Front(fifo') = fifo
  /\ UNCHANGED <<direct, committed, results>>

Settle ==
  /\ fifo # <<>>
  /\ fifo' = Tail(fifo)
  /\ \/ /\ Head(fifo).kind # "query"
        /\ Effect(Head(fifo))
        /\ UNCHANGED results
     \/ /\ Head(fifo).kind = "query"
        /\ results' = Append(results, [query |-> Head(fifo), seen |-> Len(committed)])
        /\ UNCHANGED committed
  /\ UNCHANGED direct

Call(t) ==
  /\ direct[t] = NoOp
  /\ direct' = [direct EXCEPT ![t] = direct'[t]]
  /\ UNCHANGED <<fifo, committed, results>>

Return(t) ==
  /\ direct[t] # NoOp
  /\ Effect(direct[t])
  /\ direct' = [direct EXCEPT ![t] = NoOp]
  /\ UNCHANGED <<fifo, results>>

Deliver ==
  /\ results # <<>>
  /\ results' = Tail(results)
  /\ UNCHANGED <<fifo, direct, committed>>

Next ==
  \/ HandOver
  \/ Settle
  \/ \E t \in Thread : Call(t) \/ Return(t)
  \/ Deliver

Spec == Init /\ [][Next]_vars
==============================================================================
