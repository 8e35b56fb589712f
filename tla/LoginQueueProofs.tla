--------------------------- MODULE LoginQueueProofs ---------------------------
(***************************************************************************)
(* The session table and the login queue for any number of accounts,       *)
(* sessions and limits, changes of the limit included.                     *)
(*                                                                         *)
(* That no pointer dangles is not inductive: a session is deleted on three *)
(* paths, and none may leave it in another container.  The strengthening   *)
(* says in which container every session object is.                        *)
(*                                                                         *)
(* The last three parts say where RemoveQueuedSession moves the sessions   *)
(* of the queue: that gives the positions the clients know, the order, and *)
(* by counting the sessions of the table what happens to the slots.        *)
(***************************************************************************)
EXTENDS LoginQueue, FiniteSetTheorems, SequenceTheorems, TLAPS

Elems(q) == {q[i] : i \in DOMAIN q}

Distinct(q) == \A i, j \in DOMAIN q : i # j => q[i] # q[j]

Types ==
  /\ sessions \in [Account -> Sess \union {NoSess}]
  /\ addQueue \in Seq(Sess)
  /\ queued \in Seq(Sess)
  /\ playerLimit \in Int
  /\ account \in [Sess -> Account \union {NoAccount}]
  /\ linked \in [Sess -> BOOLEAN]
  /\ inQueue \in [Sess -> BOOLEAN]
  /\ loading \in [Sess -> BOOLEAN]
  /\ told \in [Sess -> Nat \union {NotTold}]

\* A session of m_sessions is filed under its account.
Filed == \A a \in Account : sessions[a] # NoSess => account[sessions[a]] = a

\* m_sessionAddQueue holds live sessions, once each, not entered yet.
AddQueueApart ==
  /\ Distinct(addQueue)
  /\ \A s \in Elems(addQueue) : account[s] # NoAccount /\ ~Entered(s)

\* The login queue holds sessions of m_sessions, once each.
QueueEntered ==
  /\ Distinct(queued)
  /\ \A s \in Elems(queued) : Entered(s)

\* Only sessions of m_sessions are flagged as queued.
FlagEntered == \A s \in Sess : inQueue[s] => Entered(s)

IInv ==
  /\ Types
  /\ Filed
  /\ AddQueueApart
  /\ QueueEntered
  /\ FlagEntered
  /\ FlagMatchesQueue

-----------------------------------------------------------------------------
\* Facts about sequences

LEMMA ElemsAppend ==
  ASSUME NEW S, NEW q \in Seq(S), NEW e \in S
  PROVE  /\ Append(q, e) \in Seq(S)
         /\ Elems(Append(q, e)) = Elems(q) \union {e}
         /\ Distinct(q) /\ e \notin Elems(q) => Distinct(Append(q, e))
<1>1. /\ Append(q, e) \in Seq(S)
      /\ Len(Append(q, e)) = Len(q) + 1
      /\ \A i \in 1 .. Len(q) : Append(q, e)[i] = q[i]
      /\ Append(q, e)[Len(q) + 1] = e
  BY AppendProperties
<1>2. Len(q) \in Nat /\ DOMAIN q = 1 .. Len(q) /\ DOMAIN Append(q, e) = 1 .. Len(q) + 1
  BY <1>1, LenProperties
<1>3. Elems(Append(q, e)) = Elems(q) \union {e}
  BY <1>1, <1>2 DEF Elems
<1>4. ASSUME Distinct(q), e \notin Elems(q)
      PROVE  Distinct(Append(q, e))
  BY <1>1, <1>2, <1>4 DEF Distinct, Elems
<1>5. QED
  BY <1>1, <1>3, <1>4

LEMMA ElemsTail ==
  ASSUME NEW S, NEW q \in Seq(S), q # <<>>
  PROVE  /\ Tail(q) \in Seq(S)
         /\ Head(q) \in S /\ Head(q) \in Elems(q)
         /\ Elems(Tail(q)) \subseteq Elems(q)
         /\ Elems(q) \subseteq Elems(Tail(q)) \union {Head(q)}
         /\ Distinct(q) => Distinct(Tail(q)) /\ Head(q) \notin Elems(Tail(q))
<1>1. /\ Head(q) \in S
      /\ Tail(q) \in Seq(S)
      /\ Len(Tail(q)) = Len(q) - 1
      /\ \A i \in 1 .. Len(Tail(q)) : Tail(q)[i] = q[i + 1]
  BY HeadTailProperties
<1>2. Len(q) \in Nat /\ Len(q) # 0 /\ DOMAIN q = 1 .. Len(q) /\ DOMAIN Tail(q) = 1 .. Len(q) - 1
  BY <1>1, LenProperties, EmptySeq
<1>3. Head(q) = q[1]
  BY <1>2
<1>4. Elems(Tail(q)) \subseteq Elems(q)
  BY <1>1, <1>2 DEF Elems
<1>5. Elems(q) \subseteq Elems(Tail(q)) \union {Head(q)}
  <2> SUFFICES ASSUME NEW i \in 1 .. Len(q), i # 1 PROVE q[i] \in Elems(Tail(q))
    BY <1>2, <1>3 DEF Elems
  <2>1. i - 1 \in 1 .. Len(q) - 1 /\ Tail(q)[i - 1] = q[i]
    BY <1>1, <1>2
  <2>2. QED
    BY <2>1, <1>2 DEF Elems
<1>6. ASSUME Distinct(q)
      PROVE  Distinct(Tail(q)) /\ Head(q) \notin Elems(Tail(q))
  BY <1>1, <1>2, <1>3, <1>6 DEF Distinct, Elems
<1>7. QED
  BY <1>1, <1>2, <1>3, <1>4, <1>5, <1>6 DEF Elems

\* Taking the k-th element out of a sequence without duplicates.
LEMMA ElemsWithoutAt ==
  ASSUME NEW S, NEW q \in Seq(S), NEW k \in 1 .. Len(q), Distinct(q)
  PROVE  /\ WithoutAt(q, k) \in Seq(S)
         /\ Elems(WithoutAt(q, k)) = Elems(q) \ {q[k]}
         /\ Distinct(WithoutAt(q, k))
<1> DEFINE w == WithoutAt(q, k)
<1>1. Len(q) \in Nat /\ DOMAIN q = 1 .. Len(q) /\ \A i \in 1 .. Len(q) : q[i] \in S
  BY LenProperties
<1>2. /\ w \in [1 .. Len(q) - 1 -> S]
      /\ \A i \in 1 .. Len(q) - 1 : w[i] = IF i < k THEN q[i] ELSE q[i + 1]
  BY <1>1 DEF WithoutAt
<1>3. w \in Seq(S)
  BY <1>1, <1>2, SeqDef
<1>4. DOMAIN w = 1 .. Len(q) - 1
  BY <1>2
<1>5. Elems(w) \subseteq Elems(q) \ {q[k]}
  BY <1>1, <1>2, <1>4 DEF Elems, Distinct
<1>6. Elems(q) \ {q[k]} \subseteq Elems(w)
  <2> SUFFICES ASSUME NEW i \in 1 .. Len(q), i # k PROVE q[i] \in Elems(w)
    BY <1>1 DEF Elems
  <2>1. CASE i < k
    BY <2>1, <1>1, <1>2, <1>4 DEF Elems
  <2>2. CASE i > k
    <3>1. i - 1 \in 1 .. Len(q) - 1 /\ w[i - 1] = q[i]
      BY <2>2, <1>1, <1>2
    <3>2. QED
      BY <3>1, <1>4 DEF Elems
  <2>3. QED
    BY <2>1, <2>2, <1>1
<1>7. Distinct(w)
  BY <1>1, <1>2, <1>4, SMTT(30) DEF Distinct
<1>8. QED
  BY <1>3, <1>5, <1>6, <1>7

-----------------------------------------------------------------------------
\* What RemoveQueuedSession returns

\* r is a lawful outcome of removing the sessions of "gone" from the queue.
Clean(r, gone) ==
  /\ r.queue \in Seq(Sess)
  /\ r.flag \in [Sess -> BOOLEAN]
  /\ r.heard \in [Sess -> Nat \union {NotTold}]
  /\ Distinct(r.queue)
  /\ Elems(r.queue) \subseteq Elems(queued) \ gone
  /\ \A t \in Sess : r.flag[t] => inQueue[t] /\ t \notin gone
  /\ \A t \in Sess \ gone :
       (inQueue[t] <=> t \in Elems(queued)) => (r.flag[t] <=> t \in Elems(r.queue))

LEMMA PosFacts ==
  ASSUME Types, NEW s
  PROVE  /\ QueuePos(s) # 0 => QueuePos(s) \in 1 .. Len(queued) /\ queued[QueuePos(s)] = s
         /\ QueuePos(s) = 0 => s \notin Elems(queued)
<1>1. DOMAIN queued = 1 .. Len(queued) /\ Len(queued) \in Nat
  BY LenProperties DEF Types
<1>2. CASE \E i \in DOMAIN queued : queued[i] = s
  <2>1. QueuePos(s) \in DOMAIN queued /\ queued[QueuePos(s)] = s
    BY <1>2 DEF QueuePos
  <2>2. QED
    BY <1>1, <2>1
<1>3. CASE ~\E i \in DOMAIN queued : queued[i] = s
  BY <1>3 DEF QueuePos, Elems
<1>4. QED
  BY <1>2, <1>3

\* Whatever is told to a client is a position or "proceed".
LEMMA RetellType ==
  ASSUME NEW q \in Seq(Sess), NEW from \in Nat, NEW heard \in [Sess -> Nat \union {NotTold}]
  PROVE  Retell(q, from, heard) \in [Sess -> Nat \union {NotTold}]
<1>1. Len(q) \in Nat
  BY LenProperties
<1> SUFFICES ASSUME NEW s \in Sess,
                    \E i \in from .. Len(q) : q[i] = s
             PROVE  (CHOOSE i \in from .. Len(q) : q[i] = s) \in Nat
  BY DEF Retell
<1>2. (CHOOSE i \in from .. Len(q) : q[i] = s) \in from .. Len(q)
  OBVIOUS
<1>3. QED
  BY <1>1, <1>2

LEMMA NothingIsClean ==
  ASSUME Types, QueueEntered
  PROVE  Clean(NothingRemoved, {}) /\ NothingRemoved.found \in BOOLEAN
BY DEF Clean, NothingRemoved, Types, QueueEntered

\* The queue without s, before anybody is admitted.
LEMMA RestFacts ==
  ASSUME Types, QueueEntered, NEW s \in Sess, NEW rest,
         rest = IF QueuePos(s) # 0 THEN WithoutAt(queued, QueuePos(s)) ELSE queued
  PROVE  rest \in Seq(Sess) /\ Distinct(rest) /\ Elems(rest) = Elems(queued) \ {s}
<1>1. CASE QueuePos(s) # 0
  BY <1>1, PosFacts, ElemsWithoutAt DEF Types, QueueEntered
<1>2. CASE QueuePos(s) = 0
  BY <1>2, PosFacts DEF Types, QueueEntered
<1>3. QED
  BY <1>1, <1>2

\* RemoveQueuedSession leaves no trace of s and keeps flags and queue in step.
LEMMA RemovedIsClean ==
  ASSUME Types, QueueEntered, NEW s \in Sess
  PROVE  /\ Clean(Forget(RemoveQueuedSession(s), s), {s})
         /\ Forget(RemoveQueuedSession(s), s).found \in BOOLEAN
<1> DEFINE k     == QueuePos(s)
           found == k # 0
           rest  == IF found THEN WithoutAt(queued, k) ELSE queued
           admit == HasFreeSlot(Taken(found)) /\ rest # <<>>
           moved == IF admit THEN Tail(rest) ELSE rest
           ready == [t \in Sess |-> IF admit /\ t = Head(rest) THEN 0 ELSE told[t]]
           from  == FirstToTell(k, admit, rest)
           out   == Released(s, found, admit, rest)
           flag  == [t \in Sess |-> inQueue[t] /\ t \notin out]
           heard == Retell(moved, from, ready)
           r     == Forget(RemoveQueuedSession(s), s)
<1>1. rest \in Seq(Sess) /\ Distinct(rest) /\ Elems(rest) = Elems(queued) \ {s}
  BY RestFacts
<1>2. moved \in Seq(Sess) /\ Distinct(moved) /\ Elems(moved) \subseteq Elems(rest)
  BY <1>1, ElemsTail
<1>3. \A t \in Elems(rest) : t \in Elems(moved) <=> ~(admit /\ t = Head(rest))
  <2>1. CASE admit
    BY <1>1, <2>1, ElemsTail
  <2>2. CASE ~admit
    BY <2>2
  <2>3. QED
    BY <2>1, <2>2
<1>4. RemoveQueuedSession(s) = [found |-> found, queue |-> moved, flag |-> flag, heard |-> heard]
  BY DEF RemoveQueuedSession
<1>5. flag \in [Sess -> BOOLEAN]
  BY DEF Types
<1>6. heard \in [Sess -> Nat \union {NotTold}]
  <2>1. ready \in [Sess -> Nat \union {NotTold}]
    BY DEF Types
  <2>2. from \in Nat
    BY <1>1, PosFacts, LenProperties DEF FirstToTell, Types
  <2>3. QED
    BY <1>2, <2>1, <2>2, RetellType
<1>7. r = [found |-> found, queue |-> moved,
           flag |-> [flag EXCEPT ![s] = FALSE], heard |-> [heard EXCEPT ![s] = NotTold]]
  <2> HIDE DEF found, moved, flag, heard
  <2>1. QED
    BY <1>4 DEF Forget
<1>8. \A t \in Sess \ {s} : t \in out <=> admit /\ t = Head(rest)
  BY DEF Released
<1>9. \A t \in Sess : r.flag[t] <=> (t # s /\ inQueue[t] /\ t \notin out)
  <2>1. \A t \in Sess : flag[t] <=> inQueue[t] /\ t \notin out
    OBVIOUS
  <2> HIDE DEF r, flag, moved, heard, out
  <2>2. r.flag = [flag EXCEPT ![s] = FALSE]
    BY <1>7
  <2>3. QED
    BY <1>5, <2>1, <2>2
<1>10. \A t \in Sess \ {s} :
         (inQueue[t] <=> t \in Elems(queued)) => (r.flag[t] <=> t \in Elems(moved))
  <2> SUFFICES ASSUME NEW t \in Sess \ {s}, inQueue[t] <=> t \in Elems(queued)
               PROVE  r.flag[t] <=> t \in Elems(moved)
    OBVIOUS
  <2>1. CASE t \in Elems(rest)
    BY <2>1, <1>1, <1>3, <1>8, <1>9
  <2>2. CASE t \notin Elems(rest)
    BY <2>2, <1>1, <1>2, <1>9
  <2>3. QED
    BY <2>1, <2>2
<1>11. r.queue = moved /\ r.flag \in [Sess -> BOOLEAN] /\ r.heard \in [Sess -> Nat \union {NotTold}]
  <2> HIDE DEF r, flag, moved, heard
  <2>1. QED
    BY <1>5, <1>6, <1>7
<1>12. r.found \in BOOLEAN
  <2>1. found \in BOOLEAN
    OBVIOUS
  <2> HIDE DEF r, found, flag, moved, heard
  <2>2. QED
    BY <1>7, <2>1
<1>13. QED
  <2> HIDE DEF r, moved, rest
  <2>1. \A t \in Sess : r.flag[t] => inQueue[t] /\ t \notin {s}
    BY <1>9
  <2>2. Clean(r, {s})
    BY <1>1, <1>2, <1>10, <1>11, <2>1 DEF Clean
  <2>3. QED
    BY <1>12, <2>2 DEF r

-----------------------------------------------------------------------------
\* What the actions do to the containers, given IInv

\* The oldest session of m_sessionAddQueue is live and not entered; once it is
\* popped it is in no container that mattered before.
LEMMA HeadFacts ==
  ASSUME IInv, addQueue # <<>>
  PROVE  /\ Head(addQueue) \in Sess
         /\ account[Head(addQueue)] \in Account
         /\ ~Entered(Head(addQueue))
         /\ Tail(addQueue) \in Seq(Sess) /\ Distinct(Tail(addQueue))
         /\ Elems(Tail(addQueue)) \subseteq Elems(addQueue) \ {Head(addQueue)}
<1>1. /\ Head(addQueue) \in Sess /\ Head(addQueue) \in Elems(addQueue)
      /\ Tail(addQueue) \in Seq(Sess) /\ Distinct(Tail(addQueue))
      /\ Elems(Tail(addQueue)) \subseteq Elems(addQueue) \ {Head(addQueue)}
  BY ElemsTail DEF IInv, Types, AddQueueApart
<1>2. QED
  BY <1>1 DEF IInv, Types, AddQueueApart

LEMMA RefuseKeeps == IInv /\ RefuseNewcomer => IInv'
<1> SUFFICES ASSUME IInv, RefuseNewcomer PROVE IInv'
  OBVIOUS
<1> DEFINE s == Head(addQueue)
<1>1. addQueue # <<>> /\ addQueue' = Tail(addQueue) /\ Delete(s)
      /\ UNCHANGED <<sessions, queued, playerLimit, inQueue, told>>
  BY DEF RefuseNewcomer
<1>2. /\ s \in Sess /\ ~Entered(s)
      /\ addQueue' \in Seq(Sess) /\ Distinct(addQueue')
      /\ Elems(addQueue') \subseteq Elems(addQueue) \ {s}
  BY <1>1, HeadFacts
<1>3. /\ account' = [account EXCEPT ![s] = NoAccount]
      /\ linked' = [linked EXCEPT ![s] = FALSE]
      /\ loading' = [loading EXCEPT ![s] = FALSE]
  BY <1>1 DEF Delete
<1> HIDE DEF s
<1>4. Types'
  BY <1>1, <1>2, <1>3 DEF IInv, Types
<1>5. \A t : Entered(t)' <=> Entered(t)
  BY <1>1 DEF Entered
<1>6. Filed'
  BY <1>1, <1>2, <1>3 DEF IInv, Filed, Entered, Types
<1>7. AddQueueApart'
  <2> SUFFICES ASSUME NEW t \in Elems(addQueue') PROVE account'[t] # NoAccount /\ ~Entered(t)'
    BY <1>2 DEF AddQueueApart
  <2>1. t \in Elems(addQueue) /\ t # s
    BY <1>2
  <2>2. account[t] # NoAccount /\ ~Entered(t)
    BY <2>1 DEF IInv, AddQueueApart
  <2>3. account'[t] = account[t]
    BY <2>1, <1>3, <1>2 DEF IInv, Types
  <2>4. QED
    BY <2>2, <2>3, <1>5
<1>8. QueueEntered' /\ FlagEntered'
  BY <1>1, <1>5 DEF IInv, QueueEntered, FlagEntered
<1>9. FlagMatchesQueue'
  BY <1>1, <1>3, <1>5 DEF IInv, FlagMatchesQueue, Types, Queued
<1>10. QED
  BY <1>4, <1>6, <1>7, <1>8, <1>9 DEF IInv

\* A newcomer entered while the sessions of "gone", its account's, are deleted.
LEMMA EnterKeeps ==
  ASSUME IInv, addQueue # <<>>, addQueue' = Tail(addQueue), playerLimit' = playerLimit,
         NEW gone \in SUBSET Sess, NEW r, Clean(r, gone), Enter(Head(addQueue), r),
         gone = {sessions[account[Head(addQueue)]]} \ {NoSess},
         account' = [t \in Sess |-> IF t \in gone THEN NoAccount ELSE account[t]],
         linked' = [t \in Sess |-> linked[t] /\ t \notin gone],
         loading' \in [Sess -> BOOLEAN]
  PROVE  IInv'
<1>0. PICK s \in Sess, a \in Account : s = Head(addQueue) /\ a = account[s]
  BY HeadFacts
<1>1. /\ s \in Sess /\ a \in Account /\ ~Entered(s)
      /\ addQueue' \in Seq(Sess) /\ Distinct(addQueue')
      /\ Elems(addQueue') \subseteq Elems(addQueue) \ {s}
  BY <1>0, HeadFacts
<1>2. s \notin gone
  BY <1>0, <1>1 DEF Entered
<1>3. /\ sessions' = [sessions EXCEPT ![a] = s]
      /\ queued' \in Seq(Sess) /\ Distinct(queued')
      /\ Elems(queued') \subseteq (Elems(queued) \ gone) \union {s}
      /\ inQueue' \in [Sess -> BOOLEAN]
      /\ told' \in [Sess -> Nat \union {NotTold}]
      /\ \A t \in Sess : inQueue'[t] => t = s \/ (inQueue[t] /\ t \notin gone)
      /\ \A t \in Sess \ (gone \union {s}) :
           (inQueue[t] <=> t \in Elems(queued)) => (inQueue'[t] <=> t \in Elems(queued'))
      /\ inQueue'[s] <=> s \in Elems(queued')
  <2>1. PICK wait \in BOOLEAN :
          /\ sessions' = [sessions EXCEPT ![a] = s]
          /\ queued' = IF wait THEN Append(r.queue, s) ELSE r.queue
          /\ inQueue' = IF wait THEN [r.flag EXCEPT ![s] = TRUE] ELSE r.flag
          /\ told' = [r.heard EXCEPT ![s] = IF wait THEN Len(r.queue) + 1 ELSE 0]
    <3> DEFINE count == Cardinality(Present \union {a}) - (IF r.found THEN 0 ELSE 1)
               wait  == playerLimit > 0 /\ count >= playerLimit /\ a \notin Staff
    <3>1. wait \in BOOLEAN
      OBVIOUS
    <3>2. QED
      BY <1>0, <3>1 DEF Enter
  <2>2. /\ r.queue \in Seq(Sess) /\ r.flag \in [Sess -> BOOLEAN]
        /\ r.heard \in [Sess -> Nat \union {NotTold}]
        /\ Distinct(r.queue) /\ Elems(r.queue) \subseteq Elems(queued) \ gone
    BY DEF Clean
  <2>3. s \notin Elems(queued) /\ ~inQueue[s]
    BY <1>1 DEF IInv, QueueEntered, FlagEntered
  <2>4. s \notin Elems(r.queue) /\ ~r.flag[s]
    BY <1>1, <2>2, <2>3 DEF Clean
  <2>5. /\ queued' \in Seq(Sess) /\ Distinct(queued')
        /\ Elems(queued') = IF wait THEN Elems(r.queue) \union {s} ELSE Elems(r.queue)
    BY <1>1, <2>1, <2>2, <2>4, ElemsAppend
  <2>6. /\ inQueue' \in [Sess -> BOOLEAN]
        /\ \A t \in Sess : inQueue'[t] <=> (IF t = s THEN wait ELSE r.flag[t])
    BY <1>1, <2>1, <2>2, <2>4
  <2>7. told' \in [Sess -> Nat \union {NotTold}]
    <3>1. Len(r.queue) + 1 \in Nat
      BY <2>2, LenProperties
    <3>2. QED
      BY <2>1, <2>2, <3>1
  <2>8. \A t \in Sess : inQueue'[t] => t = s \/ (inQueue[t] /\ t \notin gone)
    BY <2>6 DEF Clean
  <2>9. \A t \in Sess \ (gone \union {s}) :
          (inQueue[t] <=> t \in Elems(queued)) => (inQueue'[t] <=> t \in Elems(queued'))
    BY <2>5, <2>6 DEF Clean
  <2>10. inQueue'[s] <=> s \in Elems(queued')
    BY <1>1, <2>4, <2>5, <2>6
  <2>11. Elems(queued') \subseteq (Elems(queued) \ gone) \union {s}
    BY <2>2, <2>5
  <2>12. QED
    BY <2>1, <2>5, <2>6, <2>7, <2>8, <2>9, <2>10, <2>11
<1>4. gone = {sessions[a]} \ {NoSess}
  BY <1>0
<1>5. a = account[s]
  BY <1>0
<1>6. Types'
  <2>1. sessions' \in [Account -> Sess \union {NoSess}]
    BY <1>1, <1>3 DEF IInv, Types
  <2>2. account' \in [Sess -> Account \union {NoAccount}] /\ linked' \in [Sess -> BOOLEAN]
    BY DEF IInv, Types
  <2>3. QED
    BY <1>1, <1>3, <2>1, <2>2 DEF IInv, Types
<1>7. \A t \in Sess : Entered(t)' <=> t = s \/ (Entered(t) /\ t \notin gone)
  <2> SUFFICES ASSUME NEW t \in Sess
               PROVE  Entered(t)' <=> t = s \/ (Entered(t) /\ t \notin gone)
    OBVIOUS
  <2>1. \A b \in Account : sessions'[b] = IF b = a THEN s ELSE sessions[b]
    BY <1>1, <1>3 DEF IInv, Types
  <2>2. CASE t = s
    BY <2>1, <2>2, <1>1 DEF Entered
  <2>3. CASE t # s /\ t \in gone
    <3>1. t = sessions[a] /\ t # NoSess
      BY <2>3, <1>4
    <3>2. \A b \in Account : sessions[b] = t => b = a
      BY <3>1, <1>1 DEF IInv, Filed
    <3>3. QED
      BY <2>1, <2>3, <3>2 DEF Entered
  <2>4. CASE t # s /\ t \notin gone
    <3>1. t # NoSess
      BY SessAssumption
    <3>2. sessions[a] # t
      BY <2>4, <1>4, <3>1
    <3>3. QED
      BY <2>1, <2>4, <3>2 DEF Entered
  <2>5. QED
    BY <2>2, <2>3, <2>4
<1>8. Filed'
  <2> SUFFICES ASSUME NEW b \in Account, sessions'[b] # NoSess
               PROVE  account'[sessions'[b]] = b
    BY DEF Filed
  <2>1. sessions'[b] = IF b = a THEN s ELSE sessions[b]
    BY <1>1, <1>3 DEF IInv, Types
  <2>2. CASE b = a
    BY <2>1, <2>2, <1>1, <1>2, <1>5
  <2>3. CASE b # a
    <3>1. sessions[b] \in Sess /\ account[sessions[b]] = b
      BY <2>1, <2>3 DEF IInv, Filed, Types
    <3>2. sessions[b] # sessions[a]
      BY <2>3, <3>1, <1>1, SessAssumption DEF IInv, Filed
    <3>3. sessions[b] \notin gone
      BY <3>2, <1>4
    <3>4. QED
      BY <2>1, <2>3, <3>1, <3>3
  <2>4. QED
    BY <2>2, <2>3
<1>9. AddQueueApart'
  <2> SUFFICES ASSUME NEW t \in Elems(addQueue') PROVE account'[t] # NoAccount /\ ~Entered(t)'
    BY <1>1 DEF AddQueueApart
  <2>1. t \in Elems(addQueue) /\ t # s
    BY <1>1
  <2>2. t \in Sess /\ account[t] # NoAccount /\ ~Entered(t)
    BY <2>1, LenProperties DEF IInv, AddQueueApart, Types, Elems
  <2>3. t \notin gone
    BY <2>2, <1>1, <1>4 DEF Entered
  <2>4. QED
    BY <2>1, <2>2, <2>3, <1>7
<1>10. QueueEntered'
  <2> SUFFICES ASSUME NEW t \in Elems(queued') PROVE Entered(t)'
    BY <1>3 DEF QueueEntered
  <2>1. CASE t = s
    BY <2>1, <1>1, <1>7
  <2>2. CASE t \in Elems(queued) \ gone
    BY <2>2, <1>7, LenProperties DEF IInv, QueueEntered, Types, Elems
  <2>3. QED
    BY <1>3, <2>1, <2>2
<1>11. FlagEntered'
  BY <1>3, <1>7 DEF IInv, FlagEntered
<1>12. FlagMatchesQueue'
  <2> SUFFICES ASSUME NEW t \in Sess, Entered(t)', linked'[t]
               PROVE  inQueue'[t] <=> t \in Elems(queued')
    BY DEF FlagMatchesQueue, Queued, Elems
  <2>1. CASE t = s
    BY <2>1, <1>3
  <2>2. CASE t # s
    <3>1. Entered(t) /\ t \notin gone /\ linked[t]
      BY <2>2, <1>7
    <3>2. inQueue[t] <=> t \in Elems(queued)
      BY <3>1 DEF IInv, FlagMatchesQueue, Queued, Elems
    <3>3. QED
      BY <2>2, <3>1, <3>2, <1>3
  <2>3. QED
    BY <2>1, <2>2
<1>13. QED
  BY <1>6, <1>8, <1>9, <1>10, <1>11, <1>12 DEF IInv

LEMMA ReplaceKeeps == IInv /\ ReplaceSession => IInv'
<1> SUFFICES ASSUME IInv, ReplaceSession PROVE IInv'
  OBVIOUS
<1> DEFINE s   == Head(addQueue)
           old == sessions[account[s]]
           r   == Forget(RemoveQueuedSession(old), old)
<1>1. /\ addQueue # <<>> /\ addQueue' = Tail(addQueue) /\ playerLimit' = playerLimit
      /\ old # NoSess /\ Enter(s, r) /\ Delete(old)
  BY DEF ReplaceSession
<1>2. s \in Sess /\ account[s] \in Account
  BY <1>1, HeadFacts
<1>3. old \in Sess
  BY <1>1, <1>2 DEF IInv, Types
<1>4. Clean(r, {old})
  BY <1>3, RemovedIsClean DEF IInv
<1>5. /\ account' = [t \in Sess |-> IF t \in {old} THEN NoAccount ELSE account[t]]
      /\ linked' = [t \in Sess |-> linked[t] /\ t \notin {old}]
      /\ loading' \in [Sess -> BOOLEAN]
  <2> HIDE DEF old
  <2>1. QED
    BY <1>1, <1>3 DEF Delete, IInv, Types
<1>6. {old} = {sessions[account[Head(addQueue)]]} \ {NoSess}
  BY <1>1
<1> HIDE DEF r
<1>7. QED
  BY <1>1, <1>3, <1>4, <1>5, <1>6, EnterKeeps

LEMMA EnterNewKeeps == IInv /\ EnterNewSession => IInv'
<1> SUFFICES ASSUME IInv, EnterNewSession PROVE IInv'
  OBVIOUS
<1>1. /\ addQueue # <<>> /\ addQueue' = Tail(addQueue)
      /\ sessions[account[Head(addQueue)]] = NoSess /\ Enter(Head(addQueue), NothingRemoved)
      /\ UNCHANGED <<playerLimit, account, linked, loading>>
  BY DEF EnterNewSession
<1>2. Clean(NothingRemoved, {})
  BY NothingIsClean DEF IInv
<1>3. /\ account' = [t \in Sess |-> IF t \in {} THEN NoAccount ELSE account[t]]
      /\ linked' = [t \in Sess |-> linked[t] /\ t \notin {}]
      /\ loading' \in [Sess -> BOOLEAN]
  BY <1>1 DEF IInv, Types
<1>4. {} = {sessions[account[Head(addQueue)]]} \ {NoSess}
  BY <1>1
<1>5. QED
  BY <1>1, <1>2, <1>3, <1>4, EnterKeeps

\* UpdateSessions removes a session whose link is down.
LEMMA RemoveDeadKeeps == ASSUME NEW a \in Account, IInv, RemoveDead(a) PROVE IInv'
<1>0. PICK s : s = sessions[a]
  OBVIOUS
<1> DEFINE r == Forget(RemoveQueuedSession(s), s)
<1>1. /\ s # NoSess /\ queued' = r.queue /\ inQueue' = r.flag /\ told' = r.heard
      /\ sessions' = [sessions EXCEPT ![a] = NoSess] /\ Delete(s)
      /\ UNCHANGED <<addQueue, playerLimit>>
  BY <1>0 DEF RemoveDead, Dead
<1>2. s \in Sess /\ Entered(s)
  BY <1>0, <1>1 DEF IInv, Types, Entered
<1>3. Clean(r, {s})
  BY <1>2, RemovedIsClean DEF IInv
<1> HIDE DEF r
<1>4. /\ account' = [account EXCEPT ![s] = NoAccount]
      /\ linked' = [linked EXCEPT ![s] = FALSE]
      /\ loading' = [loading EXCEPT ![s] = FALSE]
  BY <1>1 DEF Delete
<1>5. \A b \in Account : sessions'[b] = IF b = a THEN NoSess ELSE sessions[b]
  BY <1>1 DEF IInv, Types
<1>6. \A b \in Account : sessions[b] = s => b = a
  BY <1>0, <1>1 DEF IInv, Filed
<1>7. \A t \in Sess : Entered(t)' <=> (Entered(t) /\ t # s)
  BY <1>0, <1>5, <1>6, SessAssumption DEF Entered
<1>8. Types'
  <2>1. sessions' \in [Account -> Sess \union {NoSess}]
    BY <1>1 DEF IInv, Types
  <2>2. queued' \in Seq(Sess) /\ inQueue' \in [Sess -> BOOLEAN] /\ told' \in [Sess -> Nat \union {NotTold}]
    BY <1>1, <1>3 DEF Clean
  <2>3. QED
    BY <1>1, <1>4, <2>1, <2>2 DEF IInv, Types
<1>9. Filed'
  BY <1>4, <1>5, <1>0, <1>6 DEF IInv, Filed, Types
<1>10. AddQueueApart'
  <2> SUFFICES ASSUME NEW t \in Elems(addQueue') PROVE account'[t] # NoAccount /\ ~Entered(t)'
    BY <1>1 DEF IInv, AddQueueApart
  <2>1. t \in Sess /\ account[t] # NoAccount /\ ~Entered(t)
    BY <1>1, LenProperties DEF IInv, AddQueueApart, Types, Elems
  <2>2. QED
    BY <2>1, <1>2, <1>4, <1>7 DEF IInv, Types
<1>11. QueueEntered'
  <2> SUFFICES ASSUME NEW t \in Elems(queued') PROVE Entered(t)'
    BY <1>1, <1>3 DEF QueueEntered, Clean
  <2>1. t \in Elems(queued) /\ t # s
    BY <1>1, <1>3 DEF Clean
  <2>2. t \in Sess /\ Entered(t)
    BY <2>1, LenProperties DEF IInv, QueueEntered, Types, Elems
  <2>3. QED
    BY <2>1, <2>2, <1>7
<1>12. FlagEntered'
  BY <1>1, <1>3, <1>7 DEF IInv, FlagEntered, Clean
<1>13. FlagMatchesQueue'
  <2> SUFFICES ASSUME NEW t \in Sess, Entered(t)', linked'[t]
               PROVE  inQueue'[t] <=> t \in Elems(queued')
    BY DEF FlagMatchesQueue, Queued, Elems
  <2>1. Entered(t) /\ t # s /\ linked[t]
    BY <1>4, <1>7 DEF IInv, Types
  <2>2. inQueue[t] <=> t \in Elems(queued)
    BY <2>1 DEF IInv, FlagMatchesQueue, Queued, Elems
  <2>3. QED
    BY <2>1, <2>2, <1>1, <1>3 DEF Clean
<1>14. QED
  BY <1>8, <1>9, <1>10, <1>11, <1>12, <1>13 DEF IInv

\* World::AddSession publishes an object that was in no container.
LEMMA AddSessionKeeps == ASSUME NEW s \in Sess, NEW a \in Account, IInv, AddSession(s, a) PROVE IInv'
<1>1. /\ account[s] = NoAccount
      /\ account' = [account EXCEPT ![s] = a]
      /\ linked' = [linked EXCEPT ![s] = TRUE]
      /\ addQueue' = Append(addQueue, s)
      /\ UNCHANGED <<sessions, queued, playerLimit, inQueue, loading, told>>
  BY DEF AddSession
<1>2. a # NoAccount
  BY AccountAssumption
<1>3. ~Entered(s)
  BY <1>1, AccountAssumption, SessAssumption DEF IInv, Filed, Entered
<1>4. s \notin Elems(addQueue)
  BY <1>1 DEF IInv, AddQueueApart
<1>5. /\ addQueue' \in Seq(Sess) /\ Distinct(addQueue')
      /\ Elems(addQueue') = Elems(addQueue) \union {s}
  BY <1>1, <1>4, ElemsAppend DEF IInv, Types, AddQueueApart
<1>6. \A t : Entered(t)' <=> Entered(t)
  BY <1>1 DEF Entered
<1>7. Types'
  BY <1>1, <1>5 DEF IInv, Types
<1>8. Filed'
  BY <1>1, <1>3 DEF IInv, Filed, Entered, Types
<1>9. AddQueueApart'
  BY <1>1, <1>2, <1>3, <1>5, <1>6 DEF IInv, AddQueueApart, Types
<1>10. QueueEntered' /\ FlagEntered'
  BY <1>1, <1>6 DEF IInv, QueueEntered, FlagEntered
<1>11. FlagMatchesQueue'
  BY <1>1, <1>3, <1>6 DEF IInv, FlagMatchesQueue, Types, Queued
<1>12. QED
  BY <1>7, <1>8, <1>9, <1>10, <1>11 DEF IInv

\* Steps that move no session between the containers and open no link.
LEMMA QuietKeeps ==
  ASSUME IInv, UNCHANGED <<sessions, addQueue, queued, account, inQueue, told>>,
         playerLimit' \in Int, loading' \in [Sess -> BOOLEAN], linked' \in [Sess -> BOOLEAN],
         \A s \in Sess : linked'[s] => linked[s]
  PROVE  IInv'
<1>1. \A t : Entered(t)' <=> Entered(t)
  BY DEF Entered
<1>2. Types'
  BY DEF IInv, Types
<1>3. Filed' /\ AddQueueApart' /\ QueueEntered' /\ FlagEntered'
  BY <1>1 DEF IInv, Filed, AddQueueApart, QueueEntered, FlagEntered
<1>4. FlagMatchesQueue'
  BY <1>1 DEF IInv, FlagMatchesQueue, Queued
<1>5. QED
  BY <1>2, <1>3, <1>4 DEF IInv

LEMMA KickAllKeeps == IInv /\ KickAll => IInv'
<1> SUFFICES ASSUME IInv, KickAll PROVE IInv'
  OBVIOUS
<1>1. /\ queued' = <<>>
      /\ linked' = [s \in Sess |-> linked[s] /\ ~Entered(s)]
      /\ UNCHANGED <<sessions, addQueue, playerLimit, account, inQueue, loading, told>>
  BY DEF KickAll, Entered
<1>2. \A t : Entered(t)' <=> Entered(t)
  BY <1>1 DEF Entered
<1>3. queued' \in Seq(Sess) /\ Elems(queued') = {} /\ Distinct(queued')
  BY <1>1, EmptySeq DEF Elems, Distinct
<1>4. Types'
  BY <1>1, <1>3 DEF IInv, Types
<1>5. Filed' /\ AddQueueApart' /\ QueueEntered' /\ FlagEntered'
  BY <1>1, <1>2, <1>3 DEF IInv, Filed, AddQueueApart, QueueEntered, FlagEntered
<1>6. FlagMatchesQueue'
  BY <1>1, <1>2 DEF FlagMatchesQueue
<1>7. QED
  BY <1>4, <1>5, <1>6 DEF IInv

-----------------------------------------------------------------------------
LEMMA IInvInit == Init => IInv
<1> SUFFICES ASSUME Init PROVE IInv
  OBVIOUS
<1>1. \A s \in Sess : ~Entered(s)
  BY SessAssumption DEF Init, Entered
<1>2. addQueue \in Seq(Sess) /\ queued \in Seq(Sess)
  BY EmptySeq DEF Init
<1>3. Elems(addQueue) = {} /\ Elems(queued) = {} /\ Distinct(addQueue) /\ Distinct(queued)
  BY DEF Init, Elems, Distinct
<1>4. Types
  BY <1>2, LimitAssumption DEF Init, Types
<1>5. Filed /\ AddQueueApart /\ QueueEntered /\ FlagEntered /\ FlagMatchesQueue
  BY <1>1, <1>3 DEF Init, Filed, AddQueueApart, QueueEntered, FlagEntered, FlagMatchesQueue
<1>6. QED
  BY <1>4, <1>5 DEF IInv

LEMMA IInvNext == IInv /\ [Next]_vars => IInv'
<1> SUFFICES ASSUME IInv, [Next]_vars PROVE IInv'
  OBVIOUS
<1>1. CASE RefuseNewcomer
  BY <1>1, RefuseKeeps
<1>2. CASE ReplaceSession
  BY <1>2, ReplaceKeeps
<1>3. CASE EnterNewSession
  BY <1>3, EnterNewKeeps
<1>4. ASSUME NEW a \in Account, RemoveDead(a) PROVE IInv'
  BY <1>4, RemoveDeadKeeps
<1>5. ASSUME NEW s \in Sess, NEW a \in Account, AddSession(s, a) PROVE IInv'
  BY <1>5, AddSessionKeeps
<1>6. ASSUME NEW s \in Sess, CloseLink(s) PROVE IInv'
  <2>1. linked' \in [Sess -> BOOLEAN] /\ \A t \in Sess : linked'[t] => linked[t]
    BY <1>6 DEF CloseLink, IInv, Types
  <2>2. QED
    BY <1>6, <2>1, QuietKeeps DEF CloseLink, IInv, Types
<1>7. ASSUME NEW s \in Sess, BeginLoading(s) PROVE IInv'
  <2>1. loading' \in [Sess -> BOOLEAN]
    BY <1>7 DEF BeginLoading, IInv, Types
  <2>2. QED
    BY <1>7, <2>1, QuietKeeps DEF BeginLoading, IInv, Types
<1>8. ASSUME NEW s \in Sess, EndLoading(s) PROVE IInv'
  <2>1. loading' \in [Sess -> BOOLEAN] /\ linked' \in [Sess -> BOOLEAN]
    BY <1>8 DEF EndLoading, IInv, Types
  <2>2. \A t \in Sess : linked'[t] => linked[t]
    BY <1>8 DEF EndLoading, IInv, Types
  <2>3. QED
    BY <1>8, <2>1, <2>2, QuietKeeps DEF EndLoading, IInv, Types
<1>9. CASE KickAll
  BY <1>9, KickAllKeeps
<1>10. ASSUME NEW n \in NewLimit, SetPlayerLimit(n) PROVE IInv'
  <2>1. playerLimit' \in Int
    BY <1>10, LimitAssumption DEF SetPlayerLimit
  <2>2. QED
    BY <1>10, <2>1, QuietKeeps DEF SetPlayerLimit, IInv, Types
<1>11. CASE UNCHANGED vars
  BY <1>11, QuietKeeps DEF vars, IInv, Types
<1>12. QED
  BY <1>1, <1>2, <1>3, <1>4, <1>5, <1>6, <1>7, <1>8, <1>9, <1>10, <1>11 DEF Next, WorldThread

\* The inductive invariant holds in every reachable state, for any accounts,
\* sessions and limits.
THEOREM Invariance == Spec => []IInv
BY IInvInit, IInvNext, PTL DEF Spec

-----------------------------------------------------------------------------
\* The session table never shrinks below the queue, so the unsigned
\* subtraction in GetActiveSessionCount does not wrap.
LEMMA ActiveIsNat == IInv => ActiveSessions \in Nat
<1> SUFFICES ASSUME IInv PROVE ActiveSessions \in Nat
  OBVIOUS
<1>1. Len(queued) \in Nat /\ DOMAIN queued = 1 .. Len(queued) /\ \A i \in 1 .. Len(queued) : queued[i] \in Sess
  BY LenProperties DEF IInv, Types
<1>2. IsFiniteSet(Present) /\ Cardinality(Present) \in Nat
  BY AccountAssumption, FS_Subset, FS_CardinalityType DEF Present
<1>3. IsFiniteSet(1 .. Len(queued)) /\ Cardinality(1 .. Len(queued)) = Len(queued)
  BY <1>1, FS_Interval
<1>4. \A i \in 1 .. Len(queued) :
        account[queued[i]] \in Present /\ sessions[account[queued[i]]] = queued[i]
  <2> SUFFICES ASSUME NEW i \in 1 .. Len(queued)
               PROVE  account[queued[i]] \in Present /\ sessions[account[queued[i]]] = queued[i]
    OBVIOUS
  <2>1. PICK a \in Account : sessions[a] = queued[i]
    BY <1>1 DEF IInv, QueueEntered, Elems, Entered
  <2>2. queued[i] # NoSess
    BY <1>1, SessAssumption
  <2>3. account[queued[i]] = a
    BY <2>1, <2>2 DEF IInv, Filed
  <2>4. QED
    BY <2>1, <2>2, <2>3 DEF Present
<1>5. ~(Cardinality(Present) < Len(queued))
  <2> SUFFICES ASSUME Cardinality(Present) < Len(queued) PROVE FALSE
    OBVIOUS
  <2> DEFINE f == [i \in 1 .. Len(queued) |-> account[queued[i]]]
  <2>1. f \in [1 .. Len(queued) -> Present]
    BY <1>4
  <2>2. \E i, j \in 1 .. Len(queued) : i # j /\ f[i] = f[j]
    <3> HIDE DEF f
    <3>1. QED
      BY <1>2, <1>3, <2>1, FS_PigeonHole
  <2>3. PICK i, j \in 1 .. Len(queued) : i # j /\ account[queued[i]] = account[queued[j]]
    BY <2>2
  <2>4. queued[i] = queued[j]
    BY <1>4, <2>3
  <2>5. QED
    BY <1>1, <2>3, <2>4 DEF IInv, QueueEntered, Distinct
<1>6. QED
  BY <1>1, <1>2, <1>5 DEF ActiveSessions

\* Every reachable state is well typed; in particular the number of active
\* sessions, an unsigned difference in the code, never wraps.
THEOREM TypeCorrect == Spec => []TypeOK
<1>1. IInv => TypeOK
  BY ActiveIsNat DEF IInv, Types, TypeOK
<1>2. QED
  BY Invariance, <1>1, PTL

\* No pointer in m_sessions, m_sessionAddQueue or m_QueuedSessions dangles.
THEOREM NoDanglingSessionHolds == Spec => []NoDanglingSession
<1>1. IInv => NoDanglingSession
  BY DEF IInv, Filed, AddQueueApart, QueueEntered, NoDanglingSession, Present, Elems, Distinct
<1>2. QED
  BY Invariance, <1>1, PTL

\* m_inQueue agrees with the queue for every session whose client is there.
THEOREM FlagMatchesQueueHolds == Spec => []FlagMatchesQueue
<1>1. IInv => FlagMatchesQueue
  BY DEF IInv
<1>2. QED
  BY Invariance, <1>1, PTL
-----------------------------------------------------------------------------
(* Positions. A session that stays in the queue moves up by those that left  *)
(* before it, and is told so.                                                *)

\* The queue without s, and whether its first session is admitted then.
Rest(s) == IF QueuePos(s) # 0 THEN WithoutAt(queued, QueuePos(s)) ELSE queued
Admits(s) == HasFreeSlot(Taken(QueuePos(s) # 0)) /\ Rest(s) # <<>>

Removed(s) == Forget(RemoveQueuedSession(s), s)

\* Where RemoveQueuedSession(s) moves the session at i; to 0 if it is admitted.
Place(s, i) ==
  (IF QueuePos(s) # 0 /\ i > QueuePos(s) THEN i - 1 ELSE i) - (IF Admits(s) THEN 1 ELSE 0)

LEMMA RemovedAs ==
  ASSUME Types, NEW s \in Sess
  PROVE  /\ Removed(s).queue = IF Admits(s) THEN Tail(Rest(s)) ELSE Rest(s)
         /\ Removed(s).found = (QueuePos(s) # 0)
         /\ \A t \in Sess \ {s} :
              /\ Removed(s).flag[t] <=> inQueue[t] /\ ~(Admits(s) /\ t = Head(Rest(s)))
              /\ Removed(s).heard[t] =
                   Retell(Removed(s).queue, FirstToTell(QueuePos(s), Admits(s), Rest(s)),
                          [u \in Sess |-> IF Admits(s) /\ u = Head(Rest(s)) THEN 0 ELSE told[u]])[t]
<1> DEFINE found == QueuePos(s) # 0
           out   == Released(s, found, Admits(s), Rest(s))
           moved == IF Admits(s) THEN Tail(Rest(s)) ELSE Rest(s)
           flag  == [t \in Sess |-> inQueue[t] /\ t \notin out]
           ready == [u \in Sess |-> IF Admits(s) /\ u = Head(Rest(s)) THEN 0 ELSE told[u]]
           heard == Retell(moved, FirstToTell(QueuePos(s), Admits(s), Rest(s)), ready)
<1>1. RemoveQueuedSession(s) = [found |-> found, queue |-> moved, flag |-> flag, heard |-> heard]
  BY DEF RemoveQueuedSession, Rest, Admits
<1>2. \A t \in Sess \ {s} : t \in out <=> Admits(s) /\ t = Head(Rest(s))
  BY DEF Released
<1>3. \A t \in Sess : flag[t] = (inQueue[t] /\ t \notin out)
  OBVIOUS
<1>4. flag \in [Sess -> BOOLEAN] /\ DOMAIN heard = Sess
  BY DEF Retell
<1> HIDE DEF found, out, moved, flag, ready, heard
<1>5. Removed(s) = [found |-> found, queue |-> moved,
                    flag |-> [flag EXCEPT ![s] = FALSE], heard |-> [heard EXCEPT ![s] = NotTold]]
  BY <1>1 DEF Forget, Removed
<1>6. /\ Removed(s).queue = moved /\ Removed(s).found = found
      /\ \A t \in Sess \ {s} : Removed(s).flag[t] = flag[t] /\ Removed(s).heard[t] = heard[t]
  BY <1>4, <1>5
<1>7. \A t \in Sess \ {s} : Removed(s).flag[t] <=> inQueue[t] /\ ~(Admits(s) /\ t = Head(Rest(s)))
  BY <1>2, <1>3, <1>6
<1>8. Removed(s).queue = moved /\ heard = Retell(Removed(s).queue, FirstToTell(QueuePos(s), Admits(s), Rest(s)), ready)
  BY <1>6 DEF heard
<1> QED BY <1>6, <1>7, <1>8 DEF found, moved, ready

LEMMA PosIs ==
  ASSUME Types, QueueEntered, NEW i \in 1 .. Len(queued)
  PROVE  QueuePos(queued[i]) = i
<1>1. DOMAIN queued = 1 .. Len(queued) /\ Len(queued) \in Nat
  BY LenProperties DEF Types
<1>2. QueuePos(queued[i]) \in 1 .. Len(queued) /\ queued[QueuePos(queued[i])] = queued[i]
  BY <1>1, PosFacts DEF Elems
<1> QED BY <1>1, <1>2 DEF QueueEntered, Distinct

\* What RemoveQueuedSession does to the sessions of the queue.
LEMMA QueueMoves ==
  ASSUME Types, QueueEntered, NEW s \in Sess
  PROVE  LET q == Removed(s).queue IN
         /\ q \in Seq(Sess) /\ Distinct(q)
         /\ Len(q) = Len(queued) - (IF QueuePos(s) # 0 THEN 1 ELSE 0) - (IF Admits(s) THEN 1 ELSE 0)
         /\ \A i \in 1 .. Len(queued) : queued[i] # s =>
              /\ Place(s, i) \in 0 .. Len(q)
              /\ Place(s, i) > 0 => q[Place(s, i)] = queued[i]
              /\ Place(s, i) = 0 <=> Admits(s) /\ queued[i] = Head(Rest(s))
              /\ Place(s, i) = 0 => queued[i] \notin Elems(q)
         /\ Elems(q) \subseteq Elems(queued) \ {s}
<1> DEFINE k == QueuePos(s)
           q == Removed(s).queue
           n == Len(queued)
<1>1. n \in Nat /\ DOMAIN queued = 1 .. n /\ k \in 0 .. n /\ (k # 0 => queued[k] = s)
      /\ (k = 0 => s \notin Elems(queued))
  BY PosFacts, LenProperties DEF Types
<1>2. /\ Rest(s) \in Seq(Sess) /\ Distinct(Rest(s)) /\ Elems(Rest(s)) = Elems(queued) \ {s}
  BY RestFacts DEF Rest
<1>3. q = IF Admits(s) THEN Tail(Rest(s)) ELSE Rest(s)
  BY RemovedAs
<1>4. /\ Len(Rest(s)) = IF k # 0 THEN n - 1 ELSE n
      /\ \A i \in 1 .. Len(Rest(s)) : Rest(s)[i] = IF k # 0 /\ i >= k THEN queued[i + 1] ELSE queued[i]
  <2>1. CASE k = 0
    BY <1>1, <2>1 DEF Rest
  <2>2. CASE k # 0
    <3>1. Rest(s) = [i \in 1 .. n - 1 |-> IF i < k THEN queued[i] ELSE queued[i + 1]]
      BY <2>2 DEF Rest, WithoutAt
    <3>2. DOMAIN Rest(s) = 1 .. n - 1 /\ DOMAIN Rest(s) = 1 .. Len(Rest(s)) /\ Len(Rest(s)) \in Nat
      BY <1>2, <3>1, LenProperties
    <3>3. Len(Rest(s)) = n - 1
      <4> DEFINE m == Len(Rest(s))
      <4>1. m \in Nat /\ n - 1 \in Nat /\ \A i : i \in 1 .. m <=> i \in 1 .. n - 1
        BY <1>1, <2>2, <3>2
      <4> HIDE DEF m, n
      <4>2. ~(m < n - 1) /\ ~(m > n - 1)
        BY <4>1
      <4> QED BY <4>1, <4>2 DEF m
    <3>4. \A i \in 1 .. Len(Rest(s)) : Rest(s)[i] = IF i >= k THEN queued[i + 1] ELSE queued[i]
      BY <1>1, <2>2, <3>1, <3>3
    <3> QED BY <2>2, <3>3, <3>4
  <2> QED BY <2>1, <2>2
<1> DEFINE there(i) == IF k # 0 /\ i > k THEN i - 1 ELSE i
<1>5. ASSUME NEW i \in 1 .. n, queued[i] # s
      PROVE  there(i) \in 1 .. Len(Rest(s)) /\ Rest(s)[there(i)] = queued[i]
  <2>1. k # 0 => i # k
    BY <1>1, <1>5
  <2> HIDE DEF n, k
  <2>2. CASE k # 0 /\ i > k
    <3>1. i - 1 \in 1 .. Len(Rest(s)) /\ i - 1 >= k /\ (i - 1) + 1 = i
      BY <1>1, <1>4, <2>2
    <3> QED BY <1>4, <2>2, <3>1
  <2>3. CASE ~(k # 0 /\ i > k)
    <3>1. i \in 1 .. Len(Rest(s)) /\ ~(k # 0 /\ i >= k)
      BY <1>1, <1>4, <2>1, <2>3
    <3> QED BY <1>4, <2>3, <3>1
  <2> QED BY <2>2, <2>3
<1>6. \A i : Place(s, i) = there(i) - (IF Admits(s) THEN 1 ELSE 0)
  BY DEF Place
<1>7. CASE ~Admits(s)
  <2>1. q = Rest(s) /\ \A i \in 1 .. n : Place(s, i) = there(i)
    BY <1>1, <1>3, <1>7 DEF Place
  <2> HIDE DEF there, q, n, k
  <2>2. Len(q) = n - (IF k # 0 THEN 1 ELSE 0) - 0
    <3>1. n \in Nat /\ Len(q) = IF k # 0 THEN n - 1 ELSE n
      BY <1>1, <1>4, <2>1
    <3> QED BY <3>1
  <2>3. ASSUME NEW i \in 1 .. n, queued[i] # s
        PROVE  Place(s, i) \in 1 .. Len(q) /\ q[Place(s, i)] = queued[i]
    BY <1>5, <2>1, <2>3
  <2>4. \A i \in 1 .. n : queued[i] # s =>
          /\ Place(s, i) \in 0 .. Len(q) /\ Place(s, i) # 0
          /\ q[Place(s, i)] = queued[i]
    BY <2>3
  <2>5. q \in Seq(Sess) /\ Distinct(q) /\ Elems(q) \subseteq Elems(queued) \ {s}
    BY <1>2, <2>1
  <2> QED BY <1>7, <2>2, <2>4, <2>5 DEF q, n, k
<1>8. CASE Admits(s)
  <2>1. Rest(s) # <<>>
    BY <1>8 DEF Admits
  <2>2. /\ q = Tail(Rest(s)) /\ q \in Seq(Sess) /\ Len(q) = Len(Rest(s)) - 1
        /\ Head(Rest(s)) = Rest(s)[1]
        /\ \A i \in 1 .. Len(q) : q[i] = Rest(s)[i + 1]
        /\ Len(Rest(s)) \in Nat \ {0}
    BY <1>2, <1>3, <1>8, <2>1, HeadTailProperties, LenProperties, EmptySeq
  <2>3. /\ Distinct(q) /\ Elems(q) \subseteq Elems(Rest(s)) /\ Head(Rest(s)) \notin Elems(q)
    BY <1>2, <2>1, <2>2, ElemsTail
  <2>4. ASSUME NEW i \in 1 .. n, queued[i] # s
        PROVE  /\ Place(s, i) \in 0 .. Len(q)
               /\ Place(s, i) > 0 => q[Place(s, i)] = queued[i]
               /\ Place(s, i) = 0 <=> queued[i] = Head(Rest(s))
    <3>1. there(i) \in 1 .. Len(Rest(s)) /\ Rest(s)[there(i)] = queued[i]
      BY <1>5, <2>4
    <3>2. Place(s, i) = there(i) - 1
      BY <1>8 DEF Place
    <3> HIDE DEF there, q
    <3>3. Place(s, i) \in 0 .. Len(q) /\ (Place(s, i) > 0 => q[Place(s, i)] = queued[i])
      BY <2>2, <3>1, <3>2
    <3>4. DOMAIN Rest(s) = 1 .. Len(Rest(s))
      BY <1>2, LenProperties
    <3>5. queued[i] = Head(Rest(s)) => there(i) = 1
      BY <1>2, <2>2, <3>1, <3>4 DEF Distinct
    <3>6. there(i) = 1 => queued[i] = Head(Rest(s))
      BY <2>2, <3>1
    <3> QED BY <2>2, <3>1, <3>2, <3>3, <3>5, <3>6
  <2> HIDE DEF there, q, n, k
  <2>5. Len(q) = n - (IF k # 0 THEN 1 ELSE 0) - 1
    <3>1. n \in Nat /\ Len(Rest(s)) = IF k # 0 THEN n - 1 ELSE n
      BY <1>1, <1>4
    <3> QED BY <2>2, <3>1
  <2>6. \A i \in 1 .. n : queued[i] # s => (Place(s, i) = 0 => queued[i] \notin Elems(q))
    BY <2>3, <2>4
  <2>7. q \in Seq(Sess) /\ Distinct(q) /\ Elems(q) \subseteq Elems(queued) \ {s}
    BY <1>2, <2>2, <2>3
  <2> QED BY <1>8, <2>4, <2>5, <2>6, <2>7 DEF q, n, k
<1> QED BY <1>7, <1>8

\* Whoever knew its position knows the one it has moved to.
LEMMA RemovedTells ==
  ASSUME Types, QueueEntered, NEW s \in Sess, NEW t \in Sess \ {s}, told[t] = QueuePos(t)
  PROVE  LET q == Removed(s).queue IN
         \/ t \notin Elems(q) /\ Removed(s).heard[t] = 0
         \/ Removed(s).heard[t] \in 1 .. Len(q) /\ q[Removed(s).heard[t]] = t
<1> DEFINE q == Removed(s).queue
           k == QueuePos(s)
           from == FirstToTell(k, Admits(s), Rest(s))
           ready == [u \in Sess |-> IF Admits(s) /\ u = Head(Rest(s)) THEN 0 ELSE told[u]]
<1>1. /\ q \in Seq(Sess) /\ Distinct(q) /\ Elems(q) \subseteq Elems(queued) \ {s}
      /\ Len(q) = Len(queued) - (IF k # 0 THEN 1 ELSE 0) - (IF Admits(s) THEN 1 ELSE 0)
  BY QueueMoves
<1>2. /\ Len(q) \in Nat /\ DOMAIN q = 1 .. Len(q)
      /\ Len(queued) \in Nat /\ DOMAIN queued = 1 .. Len(queued)
      /\ k \in 0 .. Len(queued)
  <2>1. Len(q) \in Nat /\ DOMAIN q = 1 .. Len(q)
    BY <1>1, LenProperties
  <2>2. Len(queued) \in Nat /\ DOMAIN queued = 1 .. Len(queued)
    BY LenProperties DEF Types
  <2>3. k \in 0 .. Len(queued)
    BY <2>2, PosFacts
  <2> QED BY <2>1, <2>2, <2>3
<1>3. Removed(s).heard[t] = Retell(q, from, ready)[t]
  BY RemovedAs
<1>4. Retell(q, from, ready)[t] = IF \E i \in from .. Len(q) : q[i] = t
                                  THEN CHOOSE i \in from .. Len(q) : q[i] = t
                                  ELSE ready[t]
  BY DEF Retell
<1>5. ready[t] = IF Admits(s) /\ t = Head(Rest(s)) THEN 0 ELSE told[t]
  OBVIOUS
<1>6. from \in Nat \ {0}
      /\ (Admits(s) => from = 1)
      /\ (~Admits(s) => from = IF k # 0 THEN k ELSE Len(Rest(s)) + 1)
  <2>1. Rest(s) \in Seq(Sess)
    BY RestFacts DEF Rest
  <2>2. Len(Rest(s)) \in Nat
    BY <2>1, LenProperties
  <2> QED BY <1>2, <2>2 DEF FirstToTell
<1> HIDE DEF from, ready, q
<1>7. CASE t \notin Elems(queued)
  <2>1. told[t] = 0
    BY <1>2, <1>7, PosFacts DEF Elems
  <2>2. t \notin Elems(q)
    BY <1>1, <1>7
  <2>3. ~\E i \in from .. Len(q) : q[i] = t
    BY <1>2, <1>6, <2>2 DEF Elems
  <2> QED BY <1>3, <1>4, <1>5, <2>1, <2>2, <2>3 DEF q
<1>8. CASE t \in Elems(queued)
  <2>1. PICK j \in 1 .. Len(queued) : queued[j] = t
    BY <1>2, <1>8 DEF Elems
  <2>2. told[t] = j
    BY <2>1, PosIs
  <2>3. /\ Place(s, j) \in 0 .. Len(q)
        /\ Place(s, j) > 0 => q[Place(s, j)] = t
        /\ Place(s, j) = 0 <=> Admits(s) /\ t = Head(Rest(s))
        /\ Place(s, j) = 0 => t \notin Elems(q)
    BY <2>1, QueueMoves DEF q
  <2>4. CASE Place(s, j) = 0
    <3>1. ~\E i \in from .. Len(q) : q[i] = t
      BY <1>2, <1>6, <2>3, <2>4 DEF Elems
    <3> QED BY <1>3, <1>4, <1>5, <2>3, <2>4, <3>1 DEF q
  <2>5. CASE Place(s, j) # 0
    <3>1. Place(s, j) \in 1 .. Len(q) /\ q[Place(s, j)] = t
      BY <1>2, <2>3, <2>5
    <3>2. \A i \in 1 .. Len(q) : q[i] = t => i = Place(s, j)
      BY <1>1, <1>2, <3>1 DEF Distinct
    <3>3. CASE Place(s, j) >= from
      <4>1. (CHOOSE i \in from .. Len(q) : q[i] = t) = Place(s, j)
        <5>1. Place(s, j) \in from .. Len(q)
          BY <1>2, <1>6, <3>1, <3>3
        <5>2. (CHOOSE i \in from .. Len(q) : q[i] = t) \in from .. Len(q)
              /\ q[CHOOSE i \in from .. Len(q) : q[i] = t] = t
          BY <3>1, <5>1
        <5> QED BY <1>2, <1>6, <3>2, <5>2
      <4>2. \E i \in from .. Len(q) : q[i] = t
        BY <1>2, <1>6, <3>1, <3>3
      <4> QED BY <1>3, <1>4, <3>1, <4>1, <4>2 DEF q
    <3>4. CASE Place(s, j) < from
      <4>1. ~\E i \in from .. Len(q) : q[i] = t
        BY <1>2, <1>6, <3>1, <3>2, <3>4
      <4>2. ~Admits(s)
        BY <1>6, <3>1, <3>4
      <4>3. Place(s, j) = j
        BY <1>2, <1>6, <2>1, <3>4, <4>2 DEF Place
      <4> QED BY <1>3, <1>4, <1>5, <2>2, <3>1, <4>1, <4>2, <4>3 DEF q
    <3> QED BY <1>2, <1>6, <3>1, <3>3, <3>4
  <2> QED BY <2>4, <2>5
<1> QED BY <1>7, <1>8

\* n is what the client of t has to know when the queue is q.
At(q, t, n) ==
  \/ t \notin Elems(q) /\ n = 0
  \/ n \in 1 .. Len(q) /\ q[n] = t

Told == \A t \in Sess : Entered(t) /\ linked[t] => At(queued, t, told[t])

LEMMA AtIsPos ==
  ASSUME Types, QueueEntered, NEW t \in Sess, NEW n
  PROVE  At(queued, t, n) <=> n = QueuePos(t)
<1>1. Len(queued) \in Nat /\ DOMAIN queued = 1 .. Len(queued)
  BY LenProperties DEF Types
<1>2. ASSUME At(queued, t, n) PROVE n = QueuePos(t)
  <2>1. CASE t \notin Elems(queued) /\ n = 0
    BY <1>1, <2>1, PosFacts DEF Elems
  <2>2. CASE n \in 1 .. Len(queued) /\ queued[n] = t
    BY <2>2, PosIs
  <2> QED BY <1>2, <2>1, <2>2 DEF At
<1>3. ASSUME n = QueuePos(t) PROVE At(queued, t, n)
  BY <1>3, PosFacts DEF At
<1> QED BY <1>2, <1>3

LEMMA AtAppend ==
  ASSUME NEW q \in Seq(Sess), NEW s \in Sess, NEW t \in Sess \ {s}, NEW n, At(q, t, n)
  PROVE  At(Append(q, s), t, n)
<1>1. /\ Len(Append(q, s)) = Len(q) + 1
      /\ \A i \in 1 .. Len(q) : Append(q, s)[i] = q[i]
  BY AppendProperties
<1>2. Elems(Append(q, s)) = Elems(q) \union {s}
  BY ElemsAppend
<1>3. Len(q) \in Nat
  BY LenProperties
<1>4. CASE t \notin Elems(q) /\ n = 0
  BY <1>2, <1>4 DEF At
<1>5. CASE n \in 1 .. Len(q) /\ q[n] = t
  BY <1>1, <1>3, <1>5 DEF At
<1> QED BY <1>4, <1>5 DEF At

\* What RemoveQueuedSession of s, or nothing, leaves for those who stay.
Tells(r, gone) ==
  \A t \in Sess \ gone : Entered(t) /\ linked[t] => At(r.queue, t, r.heard[t])

LEMMA RemovedTellsAll ==
  ASSUME IInv, Told, NEW s \in Sess
  PROVE  Tells(Removed(s), {s})
<1> SUFFICES ASSUME NEW t \in Sess \ {s}, Entered(t), linked[t]
             PROVE  At(Removed(s).queue, t, Removed(s).heard[t])
  BY DEF Tells
<1>1. told[t] = QueuePos(t)
  BY AtIsPos DEF Told, IInv
<1> QED BY <1>1, RemovedTells DEF At, IInv

LEMMA NothingTells ==
  ASSUME Told
  PROVE  Tells(NothingRemoved, {})
BY DEF Told, Tells, NothingRemoved

LEMMA EnterTells ==
  ASSUME IInv, Told, addQueue # <<>>, NEW gone \in SUBSET Sess, NEW r, Clean(r, gone), Tells(r, gone),
         Enter(Head(addQueue), r),
         gone = {sessions[account[Head(addQueue)]]} \ {NoSess},
         linked' = [t \in Sess |-> linked[t] /\ t \notin gone]
  PROVE  Told'
<1> DEFINE s == Head(addQueue)
           a == account[s]
<1>1. s \in Sess /\ a \in Account /\ ~Entered(s)
  BY HeadFacts
<1>2. PICK wait \in BOOLEAN :
          /\ sessions' = [sessions EXCEPT ![a] = s]
          /\ queued' = IF wait THEN Append(r.queue, s) ELSE r.queue
          /\ told' = [r.heard EXCEPT ![s] = IF wait THEN Len(r.queue) + 1 ELSE 0]
  <2> DEFINE count == Cardinality(Present \union {a}) - (IF r.found THEN 0 ELSE 1)
             wait  == playerLimit > 0 /\ count >= playerLimit /\ a \notin Staff
  <2>1. wait \in BOOLEAN
    OBVIOUS
  <2> QED BY <2>1 DEF Enter, OtherSessions
<1>3. /\ r.queue \in Seq(Sess) /\ r.heard \in [Sess -> Nat \union {NotTold}]
      /\ s \notin Elems(r.queue)
  BY <1>1 DEF Clean, IInv, QueueEntered
<1> HIDE DEF s
<1>4. ASSUME NEW t \in Sess, t # s, Entered(t)', linked'[t]
      PROVE  Entered(t) /\ linked[t] /\ t \notin gone
  <2>1. \A b \in Account : sessions'[b] = IF b = a THEN s ELSE sessions[b]
    BY <1>1, <1>2 DEF IInv, Types
  <2> QED BY <1>4, <2>1 DEF Entered
<1>5. ASSUME NEW t \in Sess, t # s, Entered(t)', linked'[t]
      PROVE  At(queued', t, told'[t])
  <2>1. At(r.queue, t, r.heard[t])
    BY <1>4, <1>5 DEF Tells
  <2>2. told'[t] = r.heard[t]
    BY <1>2, <1>3, <1>5
  <2> QED BY <1>1, <1>2, <1>3, <1>5, <2>1, <2>2, AtAppend
<1>6. At(queued', s, told'[s])
  <2>1. told'[s] = IF wait THEN Len(r.queue) + 1 ELSE 0
    BY <1>1, <1>2, <1>3
  <2>2. CASE wait
    <3>1. /\ Len(queued') = Len(r.queue) + 1 /\ queued'[Len(r.queue) + 1] = s
          /\ Len(r.queue) \in Nat
      BY <1>1, <1>2, <1>3, <2>2, AppendProperties, LenProperties
    <3> QED BY <2>1, <2>2, <3>1 DEF At
  <2>3. CASE ~wait
    BY <1>2, <1>3, <2>1, <2>3 DEF At
  <2> QED BY <2>2, <2>3
<1> QED BY <1>5, <1>6 DEF Told, At, Elems

LEMMA ToldStep ==
  ASSUME IInv, Told, [Next]_vars
  PROVE  Told'
<1>1. ASSUME UNCHANGED <<sessions, queued, told>>, \A t \in Sess : Entered(t) /\ linked'[t] => linked[t]
      PROVE  Told'
  BY <1>1 DEF Told, At, Elems, Entered
<1>2. CASE RefuseNewcomer
  <2>1. Head(addQueue) \in Sess /\ linked' = [linked EXCEPT ![Head(addQueue)] = FALSE]
        /\ UNCHANGED <<sessions, queued, told>>
    BY <1>2, HeadFacts DEF RefuseNewcomer, Delete
  <2>2. \A t \in Sess : linked'[t] => linked[t]
    BY <2>1 DEF IInv, Types
  <2> QED BY <1>1, <2>1, <2>2
<1>3. CASE ReplaceSession
  <2> DEFINE s   == Head(addQueue)
             old == sessions[account[s]]
             r   == Removed(old)
  <2>1. /\ addQueue # <<>> /\ old # NoSess /\ Enter(s, r) /\ Delete(old)
    BY <1>3 DEF ReplaceSession, Removed
  <2>2. old \in Sess
    BY <2>1, HeadFacts DEF IInv, Types
  <2>3. Clean(r, {old}) /\ Tells(r, {old})
    BY <2>2, RemovedIsClean, RemovedTellsAll DEF Removed, IInv
  <2>4. linked' = [t \in Sess |-> linked[t] /\ t \notin {old}]
    <3> HIDE DEF old
    <3> QED BY <2>1, <2>2 DEF Delete, IInv, Types
  <2>5. {old} = {sessions[account[Head(addQueue)]]} \ {NoSess}
    BY <2>1
  <2> HIDE DEF r
  <2> QED BY <2>1, <2>2, <2>3, <2>4, <2>5, EnterTells
<1>4. CASE EnterNewSession
  <2>1. /\ addQueue # <<>> /\ sessions[account[Head(addQueue)]] = NoSess
        /\ Enter(Head(addQueue), NothingRemoved) /\ UNCHANGED linked
    BY <1>4 DEF EnterNewSession
  <2>2. Clean(NothingRemoved, {}) /\ Tells(NothingRemoved, {})
    BY NothingIsClean, NothingTells DEF IInv
  <2>3. linked' = [t \in Sess |-> linked[t] /\ t \notin {}]
    BY <2>1 DEF IInv, Types
  <2>4. {} = {sessions[account[Head(addQueue)]]} \ {NoSess}
    BY <2>1
  <2> QED BY <2>1, <2>2, <2>3, <2>4, EnterTells
<1>5. ASSUME NEW a \in Account, RemoveDead(a) PROVE Told'
  <2> DEFINE s == sessions[a]
             r == Removed(s)
  <2>1. /\ s # NoSess /\ queued' = r.queue /\ told' = r.heard
        /\ sessions' = [sessions EXCEPT ![a] = NoSess] /\ Delete(s)
    BY <1>5 DEF RemoveDead, Dead, Removed
  <2>2. s \in Sess
    BY <2>1 DEF IInv, Types
  <2>3. Tells(r, {s})
    BY <2>2, RemovedTellsAll
  <2>4. linked' = [linked EXCEPT ![s] = FALSE]
    BY <2>1 DEF Delete
  <2> HIDE DEF r
  <2>5. ASSUME NEW t \in Sess, Entered(t)', linked'[t]
        PROVE  Entered(t) /\ linked[t] /\ t \notin {s}
    <3>1. \A b \in Account : sessions'[b] = IF b = a THEN NoSess ELSE sessions[b]
      BY <2>1 DEF IInv, Types
    <3>2. t # NoSess
      BY SessAssumption
    <3> HIDE DEF s
    <3>3. t # s /\ linked[t]
      BY <2>2, <2>4, <2>5 DEF IInv, Types
    <3> QED BY <2>5, <3>1, <3>2, <3>3 DEF Entered
  <2> QED BY <2>1, <2>3, <2>5 DEF Tells, Told, At, Elems
<1>6. ASSUME NEW s \in Sess, NEW a \in Account, AddSession(s, a) PROVE Told'
  <2>1. /\ account[s] = NoAccount /\ linked' = [linked EXCEPT ![s] = TRUE]
        /\ UNCHANGED <<sessions, queued, told>>
    BY <1>6 DEF AddSession
  <2>2. ~Entered(s)
    BY <2>1, AccountAssumption, SessAssumption DEF IInv, Filed, Entered
  <2> QED BY <1>1, <2>1, <2>2 DEF IInv, Types
<1>7. ASSUME NEW s \in Sess, CloseLink(s) \/ BeginLoading(s) \/ EndLoading(s) PROVE Told'
  <2>1. UNCHANGED <<sessions, queued, told>>
    BY <1>7 DEF CloseLink, BeginLoading, EndLoading
  <2>2. \A t \in Sess : linked'[t] => linked[t]
    BY <1>7 DEF CloseLink, BeginLoading, EndLoading, IInv, Types
  <2> QED BY <1>1, <2>1, <2>2
<1>8. CASE KickAll
  <2>1. \A t \in Sess : Entered(t)' => ~linked'[t]
    BY <1>8 DEF KickAll, Entered
  <2> QED BY <2>1 DEF Told
<1>9. ASSUME NEW n \in NewLimit, SetPlayerLimit(n) PROVE Told'
  BY <1>1, <1>9 DEF SetPlayerLimit
<1>10. CASE UNCHANGED vars
  BY <1>1, <1>10 DEF vars
<1> QED BY <1>2, <1>3, <1>4, <1>5, <1>6, <1>7, <1>8, <1>9, <1>10 DEF Next, WorldThread

\* RemoveQueuedSession and AddSession_ (WorldSessionMgr.cpp): every waiting client knows
\* its position and every other one was told to proceed, whoever left before it.
THEOREM PositionsToldHolds == Spec => []PositionsTold
<1>1. Init => Told
  <2>1. Init => \A t \in Sess : ~Entered(t)
    BY SessAssumption DEF Init, Entered
  <2> QED BY <2>1 DEF Told
<1>2. IInv /\ Told /\ [Next]_vars => Told'
  BY ToldStep
<1>3. IInv /\ Told => PositionsTold
  BY AtIsPos DEF Told, PositionsTold, IInv
<1> QED BY <1>1, <1>2, <1>3, Invariance, PTL DEF Spec

-----------------------------------------------------------------------------
(* The order of the queue.                                                   *)

\* Those of q that are still in r are in the same order, and none that was behind one
\* of them is missing, but for those of gone.
InOrder(q, r, gone) ==
  \A i, j \in 1 .. Len(q) :
    i < j /\ q[i] \in Elems(r) /\ q[j] \notin gone =>
      \E k, l \in 1 .. Len(r) : k < l /\ r[k] = q[i] /\ r[l] = q[j]

LEMMA InOrderAppend ==
  ASSUME NEW q, NEW r \in Seq(Sess), NEW s \in Sess, NEW gone, InOrder(q, r, gone),
         \A i \in 1 .. Len(q) : q[i] # s
  PROVE  InOrder(q, Append(r, s), gone)
<1>1. /\ Len(Append(r, s)) = Len(r) + 1 /\ Len(r) \in Nat
      /\ \A i \in 1 .. Len(r) : Append(r, s)[i] = r[i]
      /\ Elems(Append(r, s)) = Elems(r) \union {s}
  BY AppendProperties, ElemsAppend, LenProperties
<1> SUFFICES ASSUME NEW i \in 1 .. Len(q), NEW j \in 1 .. Len(q),
                    i < j, q[i] \in Elems(Append(r, s)), q[j] \notin gone
             PROVE  \E k, l \in 1 .. Len(Append(r, s)) :
                      k < l /\ Append(r, s)[k] = q[i] /\ Append(r, s)[l] = q[j]
  BY DEF InOrder
<1>2. q[i] \in Elems(r)
  BY <1>1
<1>3. PICK k \in 1 .. Len(r), l \in 1 .. Len(r) : k < l /\ r[k] = q[i] /\ r[l] = q[j]
  BY <1>2 DEF InOrder
<1> QED BY <1>1, <1>3

LEMMA RemovedInOrder ==
  ASSUME Types, QueueEntered, NEW s \in Sess
  PROVE  InOrder(queued, Removed(s).queue, {s})
<1> DEFINE q == Removed(s).queue
<1>1. /\ \A i \in 1 .. Len(queued) : queued[i] # s =>
              /\ Place(s, i) \in 0 .. Len(q)
              /\ Place(s, i) > 0 => q[Place(s, i)] = queued[i]
              /\ Place(s, i) = 0 => queued[i] \notin Elems(q)
      /\ Elems(q) \subseteq Elems(queued) \ {s}
  BY QueueMoves
<1>2. Len(queued) \in Nat /\ QueuePos(s) \in 0 .. Len(queued)
      /\ (QueuePos(s) # 0 => queued[QueuePos(s)] = s)
  BY LenProperties, PosFacts DEF Types
<1>3. q \in Seq(Sess) /\ Len(q) \in Nat
  BY QueueMoves, LenProperties
<1> HIDE DEF q
<1> SUFFICES ASSUME NEW i \in 1 .. Len(queued), NEW j \in 1 .. Len(queued),
                    i < j, queued[i] \in Elems(q), queued[j] # s
             PROVE  \E k, l \in 1 .. Len(q) : k < l /\ q[k] = queued[i] /\ q[l] = queued[j]
  BY DEF InOrder, q
<1>4. queued[i] # s
  BY <1>1
<1>5. Place(s, i) < Place(s, j)
  BY <1>2, <1>4 DEF Place
<1>6. Place(s, i) \in 1 .. Len(q) /\ q[Place(s, i)] = queued[i]
  BY <1>1, <1>3, <1>4
<1>7. Place(s, j) \in 1 .. Len(q) /\ q[Place(s, j)] = queued[j]
  BY <1>1, <1>3, <1>5, <1>6
<1> QED BY <1>5, <1>6, <1>7

LEMMA EnterInOrder ==
  ASSUME IInv, addQueue # <<>>, NEW r, NEW gone, r.queue \in Seq(Sess), InOrder(queued, r.queue, gone),
         Enter(Head(addQueue), r)
  PROVE  InOrder(queued, queued', gone)
<1> DEFINE s == Head(addQueue)
<1>1. s \in Sess /\ ~Entered(s)
  BY HeadFacts
<1>2. queued' = Append(r.queue, s) \/ queued' = r.queue
  BY DEF Enter
<1>3. \A i \in 1 .. Len(queued) : queued[i] # s
  BY <1>1, LenProperties DEF IInv, QueueEntered, Types, Elems
<1> QED BY <1>1, <1>2, <1>3, InOrderAppend

\* RemoveQueuedSession and AddSession_: no client is overtaken while it waits, and the
\* front of the queue is admitted before those behind it.
THEOREM QueueIsFifoHolds == Spec => QueueIsFifo
<1>1. ASSUME IInv, NEW gone, \A s \in gone : account'[s] = NoAccount, InOrder(queued, queued', gone),
             queued' \in Seq(Sess)
      PROVE  \A i, j \in DOMAIN queued :
               i < j /\ (\E k \in DOMAIN queued' : queued'[k] = queued[i]) /\ account'[queued[j]] # NoAccount
                 => \E k, l \in DOMAIN queued' :
                      k < l /\ queued'[k] = queued[i] /\ queued'[l] = queued[j]
  <2>1. DOMAIN queued = 1 .. Len(queued) /\ DOMAIN queued' = 1 .. Len(queued')
    BY <1>1, LenProperties DEF IInv, Types
  <2> QED BY <1>1, <2>1, SMTT(30) DEF InOrder, Elems
<1>2. ASSUME IInv, [Next]_vars
      PROVE  \/ queued' = <<>>
             \/ \E gone : (\A s \in gone : account'[s] = NoAccount) /\ InOrder(queued, queued', gone)
  <2>1. CASE queued' = queued
    <3>1. Len(queued) \in Nat
      BY <1>2, LenProperties DEF IInv, Types
    <3>2. InOrder(queued, queued', {})
      BY <2>1, <3>1 DEF InOrder
    <3> QED BY <3>2
  <2>2. CASE ReplaceSession
    <3> DEFINE old == sessions[account[Head(addQueue)]]
    <3>1. /\ addQueue # <<>> /\ old # NoSess /\ Enter(Head(addQueue), Removed(old)) /\ Delete(old)
      BY <2>2 DEF ReplaceSession, Removed
    <3>2. old \in Sess
      BY <1>2, <3>1, HeadFacts DEF IInv, Types
    <3>3. Removed(old).queue \in Seq(Sess) /\ InOrder(queued, Removed(old).queue, {old})
      BY <1>2, <3>2, RemovedInOrder, QueueMoves DEF IInv
    <3>4. account'[old] = NoAccount
      BY <1>2, <3>1, <3>2 DEF Delete, IInv, Types
    <3> HIDE DEF old
    <3>5. InOrder(queued, queued', {old})
      BY <1>2, <3>1, <3>3, EnterInOrder
    <3> QED BY <3>4, <3>5
  <2>3. CASE EnterNewSession
    <3>1. /\ addQueue # <<>> /\ Enter(Head(addQueue), NothingRemoved) /\ NothingRemoved.queue = queued
      BY <2>3 DEF EnterNewSession, NothingRemoved
    <3>2. queued \in Seq(Sess) /\ Len(queued) \in Nat
      BY <1>2, LenProperties DEF IInv, Types
    <3>3. InOrder(queued, queued, {})
      BY <3>2, LenProperties DEF InOrder
    <3>4. InOrder(queued, queued', {})
      BY <1>2, <3>1, <3>2, <3>3, EnterInOrder
    <3> QED BY <3>4
  <2>4. ASSUME NEW a \in Account, RemoveDead(a)
        PROVE  \E gone : (\A s \in gone : account'[s] = NoAccount) /\ InOrder(queued, queued', gone)
    <3> DEFINE s == sessions[a]
    <3>1. s # NoSess /\ queued' = Removed(s).queue /\ Delete(s)
      BY <2>4 DEF RemoveDead, Dead, Removed
    <3>2. s \in Sess
      BY <1>2, <3>1 DEF IInv, Types
    <3>3. account'[s] = NoAccount
      BY <1>2, <3>1, <3>2 DEF Delete, IInv, Types
    <3> HIDE DEF s
    <3>4. InOrder(queued, queued', {s})
      BY <1>2, <3>1, <3>2, RemovedInOrder DEF IInv
    <3> QED BY <3>3, <3>4
  <2>5. CASE \/ RefuseNewcomer \/ UNCHANGED vars
             \/ \E s \in Sess, a \in Account : AddSession(s, a)
             \/ \E s \in Sess : CloseLink(s) \/ BeginLoading(s) \/ EndLoading(s)
             \/ \E n \in NewLimit : SetPlayerLimit(n)
    <3>1. queued' = queued
      BY <2>5 DEF RefuseNewcomer, vars, AddSession, CloseLink, BeginLoading, EndLoading, SetPlayerLimit
    <3> QED BY <2>1, <3>1
  <2>6. CASE KickAll
    BY <2>6 DEF KickAll
  <2> QED BY <1>2, <2>2, <2>3, <2>4, <2>5, <2>6 DEF Next, WorldThread
<1>3. IInv /\ IInv' /\ [Next]_vars =>
        [\A i, j \in DOMAIN queued :
           i < j /\ (\E k \in DOMAIN queued' : queued'[k] = queued[i]) /\ account'[queued[j]] # NoAccount
             => \E k, l \in DOMAIN queued' :
                  k < l /\ queued'[k] = queued[i] /\ queued'[l] = queued[j]]_vars
  <2> SUFFICES ASSUME IInv, IInv', [Next]_vars
               PROVE  \A i, j \in DOMAIN queued :
                        i < j /\ (\E k \in DOMAIN queued' : queued'[k] = queued[i]) /\ account'[queued[j]] # NoAccount
                          => \E k, l \in DOMAIN queued' :
                               k < l /\ queued'[k] = queued[i] /\ queued'[l] = queued[j]
    OBVIOUS
  <2>1. CASE queued' = <<>>
    BY <2>1
  <2>2. queued' \in Seq(Sess)
    BY DEF IInv, Types
  <2> QED BY <1>1, <1>2, <2>1, <2>2
<1> QED BY <1>3, Invariance, PTL DEF Spec, QueueIsFifo

-----------------------------------------------------------------------------
(* Counting. The accounts in the table that do not wait are the active       *)
(* sessions, so a set of those is no larger than their number.               *)

LEMMA RoomIs ==
  IInv => \A X \in SUBSET Present :
    (\A i \in 1 .. Len(queued) : account[queued[i]] \notin X) =>
      /\ IsFiniteSet(X) /\ Cardinality(X) \in Nat
      /\ Cardinality(X) + Len(queued) <= Cardinality(Present)
<1> SUFFICES ASSUME IInv, NEW X \in SUBSET Present,
                    \A i \in 1 .. Len(queued) : account[queued[i]] \notin X
             PROVE  /\ IsFiniteSet(X) /\ Cardinality(X) \in Nat
                    /\ Cardinality(X) + Len(queued) <= Cardinality(Present)
  OBVIOUS
<1>1. Len(queued) \in Nat /\ DOMAIN queued = 1 .. Len(queued) /\ \A i \in 1 .. Len(queued) : queued[i] \in Sess
  BY LenProperties DEF IInv, Types
<1>2. IsFiniteSet(Present) /\ Cardinality(Present) \in Nat
  BY AccountAssumption, FS_Subset, FS_CardinalityType DEF Present
<1>3. IsFiniteSet(X) /\ Cardinality(X) \in Nat
  BY <1>2, FS_Subset, FS_CardinalityType
<1>4. /\ IsFiniteSet(Present \ X) /\ Cardinality(Present \ X) \in Nat
      /\ Cardinality(Present \ X) = Cardinality(Present) - Cardinality(X)
  <2>1. Present \cap X = X
    OBVIOUS
  <2> QED BY <1>2, <2>1, FS_Difference, FS_CardinalityType
<1>5. ASSUME NEW i \in 1 .. Len(queued)
      PROVE  account[queued[i]] \in Present \ X /\ sessions[account[queued[i]]] = queued[i]
  <2>1. PICK a \in Account : sessions[a] = queued[i]
    BY <1>1 DEF IInv, QueueEntered, Elems, Entered
  <2>2. queued[i] # NoSess
    BY <1>1, SessAssumption
  <2>3. account[queued[i]] = a
    BY <2>1, <2>2 DEF IInv, Filed
  <2> QED BY <2>1, <2>2, <2>3 DEF Present
<1> DEFINE f == [i \in 1 .. Len(queued) |-> account[queued[i]]]
<1>6. f \in Injection(1 .. Len(queued), Present \ X)
  <2>1. f \in [1 .. Len(queued) -> Present \ X]
    BY <1>5
  <2>2. ASSUME NEW i \in 1 .. Len(queued), NEW j \in 1 .. Len(queued), f[i] = f[j] PROVE i = j
    <3>1. queued[i] = queued[j]
      BY <1>5, <2>2
    <3> QED BY <1>1, <3>1 DEF IInv, QueueEntered, Distinct
  <2> HIDE DEF f
  <2> QED BY <2>1, <2>2 DEF Injection, IsInjective
<1>7. Cardinality(1 .. Len(queued)) = Len(queued)
  BY <1>1, FS_Interval
<1> HIDE DEF f
<1>8. Len(queued) <= Cardinality(Present \ X)
  BY <1>4, <1>6, <1>7, FS_Injection
<1> QED BY <1>1, <1>2, <1>3, <1>4, <1>8

\* Who plays does not wait, nor does anybody else outside the queue.
Roomy ==
  /\ IsFiniteSet(Present) /\ Cardinality(Present) \in Nat
  /\ IsFiniteSet(Players) /\ Cardinality(Players) \in Nat
  /\ Cardinality(Players) + Len(queued) <= Cardinality(Present)
  /\ \A a \in Present \ Players :
       sessions[a] \notin Elems(queued) =>
         Cardinality(Players) + 1 + Len(queued) <= Cardinality(Present)

LEMMA PlayersRoom == IInv => Roomy
<1> SUFFICES ASSUME IInv PROVE Roomy
  OBVIOUS
<1>1. ASSUME NEW a \in Present, sessions[a] \notin Elems(queued), NEW i \in 1 .. Len(queued)
      PROVE  account[queued[i]] # a
  <2>1. queued[i] \in Sess /\ queued[i] \in Elems(queued)
    BY LenProperties DEF IInv, Types, Elems
  <2>2. PICK b \in Account : sessions[b] = queued[i]
    BY <2>1 DEF IInv, QueueEntered, Entered
  <2>3. account[queued[i]] = b
    BY <2>1, <2>2, SessAssumption DEF IInv, Filed
  <2> QED BY <1>1, <2>1, <2>2, <2>3
<1>2. Players \in SUBSET Present
  BY DEF Players
<1>3. \A i \in 1 .. Len(queued) : account[queued[i]] \notin Players
  <2>1. \A a \in Players : sessions[a] \notin Elems(queued)
    <3> SUFFICES ASSUME NEW a \in Players PROVE sessions[a] \notin Elems(queued)
      OBVIOUS
    <3>1. sessions[a] \in Sess /\ Entered(sessions[a]) /\ linked[sessions[a]] /\ ~inQueue[sessions[a]]
      BY DEF IInv, Types, Players, Present, Entered
    <3> QED BY <3>1 DEF IInv, FlagMatchesQueue, Queued, Elems
  <2> QED BY <1>1, <1>2, <2>1
<1>4. /\ IsFiniteSet(Players) /\ Cardinality(Players) \in Nat
      /\ Cardinality(Players) + Len(queued) <= Cardinality(Present)
  BY <1>2, <1>3, RoomIs
<1>5. ASSUME NEW a \in Present \ Players, sessions[a] \notin Elems(queued)
      PROVE  Cardinality(Players) + 1 + Len(queued) <= Cardinality(Present)
  <2>1. Players \union {a} \in SUBSET Present
    BY <1>2
  <2>2. \A i \in 1 .. Len(queued) : account[queued[i]] \notin Players \union {a}
    BY <1>1, <1>3, <1>5
  <2>3. Cardinality(Players \union {a}) + Len(queued) <= Cardinality(Present)
    BY <2>1, <2>2, RoomIs
  <2>4. Cardinality(Players \union {a}) = Cardinality(Players) + 1
    BY <1>4, FS_AddElement
  <2> QED BY <2>3, <2>4
<1>6. IsFiniteSet(Present) /\ Cardinality(Present) \in Nat
  BY AccountAssumption, FS_Subset, FS_CardinalityType DEF Present
<1> QED BY <1>4, <1>5, <1>6 DEF Roomy

LEMMA PlayersRoomNext == IInv' => Roomy'
BY PlayersRoom, PTL

-----------------------------------------------------------------------------
(* Slots. With p sessions in the table and n of them waiting, what a step    *)
(* does to the slots is arithmetic.                                          *)

IdleFree(p, n) == n > 0 => playerLimit > 0 /\ p - n >= playerLimit

LEMMA NoIdleIs ==
  /\ IInv => (NoIdle <=> IdleFree(Cardinality(Present), Len(queued)))
  /\ Len(queued) \in Nat /\ queued \in Seq(Sess) => (queued # <<>> <=> Len(queued) > 0)
<1>1. queued \in Seq(Sess) => Len(queued) \in Nat /\ (queued # <<>> <=> Len(queued) > 0)
  BY LenProperties, EmptySeq
<1> QED BY <1>1 DEF NoIdle, IdleFree, ActiveSessions, IInv, Types

LEMMA NoIdleIsNext == IInv' => (NoIdle' <=> IdleFree(Cardinality(Present), Len(queued))')
BY NoIdleIs, PTL

\* RemoveQueuedSession of a session of the table: f is 1 if it waited, m if another is
\* admitted.
LEMMA RemovedSlots ==
  ASSUME IInv, NEW a \in Present
  PROVE  LET s == sessions[a]
             p == Cardinality(Present)
             n == Len(queued)
         IN  \E f, m \in {0, 1} :
               /\ Removed(s).found <=> f = 1
               /\ Admits(s) <=> m = 1
               /\ p \in Nat /\ n \in Nat /\ playerLimit \in Int
               /\ Len(Removed(s).queue) = n - f - m
               /\ n - f >= 0 /\ p - n >= 1 - f
               /\ m = 1 <=> (playerLimit = 0 \/ p - n - (1 - f) < playerLimit) /\ n - f > 0
<1> DEFINE s == sessions[a]
           p == Cardinality(Present)
           n == Len(queued)
           f == IF QueuePos(s) # 0 THEN 1 ELSE 0
           m == IF Admits(s) THEN 1 ELSE 0
<1>1. s \in Sess /\ Entered(s) /\ sessions[a] = s /\ a \in Account /\ Present \in SUBSET Present
  BY DEF Present, Entered, IInv, Types
<1>2. p \in Nat /\ n \in Nat /\ playerLimit \in Int /\ p - n >= 0
  BY PlayersRoom, LenProperties DEF Roomy, IInv, Types
<1>3. Len(Removed(s).queue) = n - f - m
  BY <1>1, QueueMoves DEF IInv
<1>4. Removed(s).found <=> f = 1
  <2>1. Removed(s).found = (QueuePos(s) # 0)
    <3> HIDE DEF s
    <3> QED BY <1>1, RemovedAs DEF IInv
  <2>2. f = 1 <=> QueuePos(s) # 0
    OBVIOUS
  <2> HIDE DEF s, f
  <2> QED BY <2>1, <2>2
<1>5. QueuePos(s) = 0 => p - n >= 1
  <2> SUFFICES ASSUME QueuePos(s) = 0 PROVE p - n >= 1
    OBVIOUS
  <2>1. \A i \in 1 .. n : account[queued[i]] \notin {a}
    <3> SUFFICES ASSUME NEW i \in 1 .. n, account[queued[i]] = a PROVE FALSE
      OBVIOUS
    <3>1. queued[i] \in Elems(queued) /\ queued[i] \in Sess
      BY LenProperties DEF Elems, IInv, Types
    <3>2. PICK b \in Account : sessions[b] = queued[i]
      BY <3>1 DEF IInv, QueueEntered, Entered
    <3>3. account[queued[i]] = b
      BY <3>1, <3>2, SessAssumption DEF IInv, Filed
    <3>4. s \in Elems(queued)
      BY <3>1, <3>2, <3>3
    <3> QED BY <3>4, PosFacts DEF IInv
  <2>2. {a} \in SUBSET Present
    OBVIOUS
  <2>3. Cardinality({a}) + n <= p
    BY <2>1, <2>2, RoomIs
  <2>4. Cardinality({a}) = 1
    BY FS_Singleton
  <2> QED BY <1>2, <2>3, <2>4
<1>6. QueuePos(s) # 0 => n > 0
  BY <1>2, PosFacts DEF IInv
<1>7. Rest(s) # <<>> <=> n - f > 0
  <2>1. Rest(s) \in Seq(Sess) /\ Elems(Rest(s)) = Elems(queued) \ {s}
    BY <1>1, RestFacts DEF Rest, IInv
  <2>2. CASE QueuePos(s) = 0
    <3>1. Rest(s) = queued
      BY <2>2 DEF Rest
    <3> QED BY <2>1, <2>2, <3>1, <1>2, EmptySeq, LenProperties
  <2>3. CASE QueuePos(s) # 0
    <3>1. Rest(s) = [i \in 1 .. n - 1 |-> IF i < QueuePos(s) THEN queued[i] ELSE queued[i + 1]]
      BY <2>3 DEF Rest, WithoutAt
    <3>2. DOMAIN Rest(s) = 1 .. n - 1 /\ DOMAIN Rest(s) = 1 .. Len(Rest(s)) /\ Len(Rest(s)) \in Nat
      BY <2>1, <3>1, LenProperties
    <3>3. Rest(s) # <<>> <=> Len(Rest(s)) > 0
      BY <2>1, <3>2, EmptySeq
    <3>4. Len(Rest(s)) > 0 <=> 1 \in DOMAIN Rest(s)
      BY <3>2
    <3>5. 1 \in DOMAIN Rest(s) <=> n - 1 > 0
      BY <1>2, <3>2
    <3> QED BY <2>3, <3>3, <3>4, <3>5
  <2> QED BY <2>2, <2>3
<1>8. Taken(QueuePos(s) # 0) = p - n - (1 - f)
  <2>1. ActiveSessions = p - n
    BY DEF ActiveSessions
  <2>2. CASE QueuePos(s) # 0
    BY <1>2, <2>1, <2>2 DEF Taken
  <2>3. CASE QueuePos(s) = 0
    BY <1>2, <1>5, <2>1, <2>3 DEF Taken
  <2> QED BY <2>2, <2>3
<1>9. m = 1 <=> (playerLimit = 0 \/ p - n - (1 - f) < playerLimit) /\ n - f > 0
  BY <1>7, <1>8 DEF Admits, HasFreeSlot
<1>10. n - f >= 0 /\ p - n >= 1 - f
  <2> HIDE DEF n, p, s
  <2> QED BY <1>2, <1>5, <1>6
<1>11. f \in {0, 1} /\ m \in {0, 1} /\ (Admits(s) <=> m = 1)
  OBVIOUS
<1> HIDE DEF s, p, n, f, m
<1>12. \E ff, mm \in {0, 1} :
         /\ Removed(s).found <=> ff = 1
         /\ Admits(s) <=> mm = 1
         /\ p \in Nat /\ n \in Nat /\ playerLimit \in Int
         /\ Len(Removed(s).queue) = n - ff - mm
         /\ n - ff >= 0 /\ p - n >= 1 - ff
         /\ mm = 1 <=> (playerLimit = 0 \/ p - n - (1 - ff) < playerLimit) /\ n - ff > 0
  BY <1>2, <1>3, <1>4, <1>9, <1>10, <1>11
<1> QED BY <1>12 DEF s, p, n

\* A step that neither moves the queue nor enters anybody.
LEMMA QuietSlots ==
  ASSUME IInv, IInv', UNCHANGED <<sessions, queued, playerLimit, inQueue>>,
         \A a \in Present : linked'[sessions[a]] => linked[sessions[a]]
  PROVE  (NoIdle => NoIdle') /\ (Within => Within')
<1>1. Present' = Present /\ Players' \subseteq Players
  BY DEF Present, Players
<1>2. NoIdle' <=> NoIdle
  BY <1>1 DEF NoIdle, ActiveSessions
<1>3. /\ Cardinality(Players') <= Cardinality(Players)
      /\ Cardinality(Players) \in Nat /\ Cardinality(Players') \in Nat
  BY <1>1, PlayersRoom, FS_Subset, FS_CardinalityType DEF Roomy
<1> QED BY <1>2, <1>3 DEF Within, IInv, Types

\* A session leaves the table: p sessions before, n of them waiting.
LEMMA LeaveSlots ==
  ASSUME IInv, IInv', NEW a \in Account, RemoveDead(a)
  PROVE  (NoIdle => NoIdle') /\ (Within => Within')
<1> DEFINE s == sessions[a]
           p == Cardinality(Present)
           n == Len(queued)
<1>1. /\ a \in Present /\ queued' = Removed(s).queue /\ inQueue' = Removed(s).flag
      /\ sessions' = [sessions EXCEPT ![a] = NoSess] /\ playerLimit' = playerLimit
      /\ linked' = [linked EXCEPT ![s] = FALSE]
  BY DEF RemoveDead, Dead, Delete, Removed, Present
<1>2. s \in Sess
  BY <1>1 DEF IInv, Types, Present
<1>3. PICK f, m \in {0, 1} :
        /\ Admits(s) <=> m = 1
        /\ p \in Nat /\ n \in Nat /\ playerLimit \in Int
        /\ Len(Removed(s).queue) = n - f - m
        /\ n - f >= 0 /\ p - n >= 1 - f
        /\ m = 1 <=> (playerLimit = 0 \/ p - n - (1 - f) < playerLimit) /\ n - f > 0
  BY <1>1, RemovedSlots
<1>4. Roomy /\ Roomy'
  BY PlayersRoom, PlayersRoomNext
<1>5. Present' = Present \ {a} /\ Cardinality(Present') = p - 1
  <2>1. Present' = Present \ {a}
    BY <1>1 DEF Present, IInv, Types
  <2> QED BY <1>1, <1>4, <2>1, FS_RemoveElement DEF Roomy
<1>6. Len(queued') = n - f - m
  BY <1>1, <1>3
<1>7. ASSUME NoIdle PROVE NoIdle'
  <2>1. IdleFree(p, n)
    BY <1>7, NoIdleIs
  <2> SUFFICES IdleFree(Cardinality(Present), Len(queued))'
    BY NoIdleIsNext
  <2> HIDE DEF p, n
  <2> QED BY <1>1, <1>3, <1>5, <1>6, <2>1 DEF IdleFree
<1>8. ASSUME Within, m = 0 PROVE Within'
  <2>1. Players' \subseteq Players
    <3> SUFFICES ASSUME NEW b \in Players' PROVE b \in Players
      OBVIOUS
    <3>1. b \in Present' \ Staff /\ sessions'[b] = sessions[b] /\ b # a
      BY <1>1, <1>5 DEF Players, IInv, Types
    <3>2. b \in Present /\ sessions[b] \in Sess \ {s}
      BY <1>1, <1>5, <3>1 DEF Present, IInv, Types, Filed
    <3>3. Removed(s).flag[sessions[b]] <=> inQueue[sessions[b]]
      <4> HIDE DEF s
      <4>1. \A t \in Sess \ {s} : Removed(s).flag[t] <=> inQueue[t] /\ ~(Admits(s) /\ t = Head(Rest(s)))
        BY <1>2, RemovedAs DEF IInv
      <4>2. ~Admits(s)
        BY <1>3, <1>8
      <4> QED BY <3>2, <4>1, <4>2
    <3>4. linked'[sessions[b]] => linked[sessions[b]]
      BY <1>1, <3>2 DEF IInv, Types
    <3> QED BY <1>1, <3>1, <3>2, <3>3, <3>4 DEF Players
  <2>2. Cardinality(Players') <= Cardinality(Players) /\ Cardinality(Players) \in Nat
        /\ Cardinality(Players') \in Nat
    BY <1>4, <2>1, FS_Subset, FS_CardinalityType DEF Roomy
  <2> QED BY <1>1, <1>3, <1>8, <2>2 DEF Within
<1>9. ASSUME m = 1 PROVE Within'
  <2>1. Cardinality(Players)' + (n - f - m) <= p - 1 /\ Cardinality(Players)' \in Nat
    BY <1>4, <1>5, <1>6 DEF Roomy
  <2> SUFFICES ASSUME playerLimit > 0 PROVE Cardinality(Players)' <= playerLimit
    BY <1>1 DEF Within
  <2> HIDE DEF p, n
  <2> QED BY <1>3, <1>9, <2>1
<1> QED BY <1>7, <1>8, <1>9

\* AddSession_ with r what became of the queue and q its length: w is 1 if the newcomer
\* has to wait.
LEMMA EnterSlots ==
  ASSUME IInv, addQueue # <<>>, NEW r, NEW gone, Clean(r, gone), r.found \in BOOLEAN,
         Enter(Head(addQueue), r), playerLimit' = playerLimit
  PROVE  LET s == Head(addQueue)
             a == account[s]
         IN  \E w \in {0, 1} :
               /\ s \in Sess /\ a \in Account /\ ~Entered(s)
               /\ Present' = Present \union {a}
               /\ \A b \in Account : sessions'[b] = IF b = a THEN s ELSE sessions[b]
               /\ Len(r.queue) \in Nat /\ Len(queued') = Len(r.queue) + w
               /\ w = 0 => s \notin Elems(queued')
               /\ inQueue'[s] <=> w = 1
               /\ \A t \in Sess \ {s} : inQueue'[t] = r.flag[t]
               /\ w = 1 <=> /\ playerLimit > 0
                            /\ Cardinality(Present \union {a}) - (IF r.found THEN 0 ELSE 1) >= playerLimit
                            /\ a \notin Staff
<1> DEFINE s == Head(addQueue)
           a == account[s]
           wait == playerLimit > 0 /\ OtherSessions(a, r) >= playerLimit /\ a \notin Staff
           w == IF wait THEN 1 ELSE 0
<1>1. /\ sessions' = [sessions EXCEPT ![a] = s]
      /\ queued' = IF wait THEN Append(r.queue, s) ELSE r.queue
      /\ inQueue' = IF wait THEN [r.flag EXCEPT ![s] = TRUE] ELSE r.flag
  BY DEF Enter
<1>2. s \in Sess /\ a \in Account /\ ~Entered(s)
  BY HeadFacts
<1>3. /\ r.queue \in Seq(Sess) /\ r.flag \in [Sess -> BOOLEAN] /\ Elems(r.queue) \subseteq Elems(queued)
      /\ \A t \in Sess : r.flag[t] => inQueue[t]
  BY DEF Clean
<1>4. s \notin Elems(r.queue) /\ ~r.flag[s]
  BY <1>2, <1>3 DEF IInv, QueueEntered, FlagEntered
<1>5. wait <=> /\ playerLimit > 0
               /\ Cardinality(Present \union {a}) - (IF r.found THEN 0 ELSE 1) >= playerLimit
               /\ a \notin Staff
  BY DEF OtherSessions
<1>6. w \in {0, 1} /\ (w = 1 <=> wait)
  OBVIOUS
<1>7. Len(Append(r.queue, s)) = Len(r.queue) + 1 /\ Len(r.queue) \in Nat
  BY <1>2, <1>3, AppendProperties, LenProperties
<1> HIDE DEF s, a, w, wait
<1>8. \A b \in Account : sessions'[b] = IF b = a THEN s ELSE sessions[b]
  BY <1>1, <1>2 DEF IInv, Types
<1>9. Present' = Present \union {a}
  BY <1>2, <1>8, SessAssumption DEF Present
<1>10. Len(queued') = Len(r.queue) + w
  <2>1. CASE wait
    BY <1>1, <1>6, <1>7, <2>1
  <2>2. CASE ~wait
    BY <1>1, <1>6, <1>7, <2>2
  <2> QED BY <2>1, <2>2
<1>11. w = 0 => s \notin Elems(queued')
  <2>1. w = 0 => queued' = r.queue
    BY <1>1, <1>6
  <2> QED BY <1>4, <2>1
<1>12. inQueue'[s] <=> w = 1
  BY <1>1, <1>2, <1>3, <1>4, <1>6
<1>13. \A t \in Sess \ {s} : inQueue'[t] = r.flag[t]
  BY <1>1, <1>2, <1>3
<1>14. \E ww \in {0, 1} :
         /\ s \in Sess /\ a \in Account /\ ~Entered(s)
         /\ Present' = Present \union {a}
         /\ \A b \in Account : sessions'[b] = IF b = a THEN s ELSE sessions[b]
         /\ Len(r.queue) \in Nat /\ Len(queued') = Len(r.queue) + ww
         /\ ww = 0 => s \notin Elems(queued')
         /\ inQueue'[s] <=> ww = 1
         /\ \A t \in Sess \ {s} : inQueue'[t] = r.flag[t]
         /\ ww = 1 <=> /\ playerLimit > 0
                       /\ Cardinality(Present \union {a}) - (IF r.found THEN 0 ELSE 1) >= playerLimit
                       /\ a \notin Staff
  <2>1. w = 1 <=> /\ playerLimit > 0
                  /\ Cardinality(Present \union {a}) - (IF r.found THEN 0 ELSE 1) >= playerLimit
                  /\ a \notin Staff
    BY <1>5, <1>6
  <2> QED BY <1>2, <1>6, <1>7, <1>8, <1>9, <1>10, <1>11, <1>12, <1>13, <2>1
<1> QED BY <1>14 DEF s, a

\* A newcomer whose account had no session.
LEMMA NewSlots ==
  ASSUME IInv, IInv', EnterNewSession
  PROVE  (NoIdle => NoIdle') /\ (Within => Within')
<1> DEFINE s == Head(addQueue)
           a == account[s]
           p == Cardinality(Present)
           n == Len(queued)
<1>1. /\ addQueue # <<>> /\ sessions[a] = NoSess /\ Enter(s, NothingRemoved)
      /\ playerLimit' = playerLimit /\ linked' = linked
  BY DEF EnterNewSession
<1>2. /\ NothingRemoved.found = FALSE /\ NothingRemoved.queue = queued /\ NothingRemoved.flag = inQueue
      /\ Clean(NothingRemoved, {}) /\ NothingRemoved.found \in BOOLEAN
  BY NothingIsClean DEF NothingRemoved, IInv
<1>3. PICK w \in {0, 1} :
        /\ s \in Sess /\ a \in Account /\ ~Entered(s)
        /\ Present' = Present \union {a}
        /\ \A b \in Account : sessions'[b] = IF b = a THEN s ELSE sessions[b]
        /\ Len(queued') = n + w
        /\ inQueue'[s] <=> w = 1
        /\ \A t \in Sess \ {s} : inQueue'[t] = inQueue[t]
        /\ w = 1 <=> /\ playerLimit > 0
                     /\ Cardinality(Present \union {a}) - 1 >= playerLimit
                     /\ a \notin Staff
  BY <1>1, <1>2, EnterSlots
<1>4. Roomy /\ Roomy'
  BY PlayersRoom, PlayersRoomNext
<1>5. p \in Nat /\ n \in Nat /\ playerLimit \in Int
  BY <1>4, LenProperties DEF Roomy, IInv, Types
<1>6. Cardinality(Present') = p + 1 /\ Cardinality(Present \union {a}) = p + 1
  <2>1. a \notin Present
    BY <1>1 DEF Present
  <2>2. IsFiniteSet(Present)
    BY <1>4 DEF Roomy
  <2> HIDE DEF a, s
  <2> QED BY <1>3, <2>1, <2>2, FS_AddElement
<1>7. ASSUME NoIdle PROVE NoIdle'
  <2>1. IdleFree(p, n)
    BY <1>7, NoIdleIs
  <2> SUFFICES IdleFree(Cardinality(Present), Len(queued))'
    BY NoIdleIsNext
  <2> HIDE DEF p, n, s, a
  <2> QED BY <1>1, <1>3, <1>5, <1>6, <2>1 DEF IdleFree
<1>8. ASSUME Within, w = 1 \/ a \in Staff PROVE Within'
  <2>1. Players' \subseteq Players
    <3> SUFFICES ASSUME NEW b \in Players' PROVE b \in Players
      OBVIOUS
    <3> HIDE DEF s
    <3>1. b # a
      BY <1>3, <1>8 DEF Players
    <3>2. b \in Present /\ sessions'[b] = sessions[b] /\ sessions[b] \in Sess
      BY <1>3, <3>1 DEF Players, Present, IInv, Types
    <3>3. sessions[b] # s
      BY <1>3, <3>2 DEF Entered, Present
    <3> QED BY <1>1, <1>3, <3>2, <3>3 DEF Players
  <2>2. Cardinality(Players') <= Cardinality(Players) /\ Cardinality(Players) \in Nat
        /\ Cardinality(Players') \in Nat
    BY <1>4, <2>1, FS_Subset, FS_CardinalityType DEF Roomy
  <2> QED BY <1>1, <1>5, <1>8, <2>2 DEF Within
<1>9. ASSUME w = 0, a \notin Staff PROVE Within'
  <2>1. Cardinality(Players)' + (n + w) <= p + 1 /\ Cardinality(Players)' \in Nat
    BY <1>3, <1>4, <1>6 DEF Roomy
  <2> SUFFICES ASSUME playerLimit > 0 PROVE Cardinality(Players)' <= playerLimit
    BY <1>1 DEF Within
  <2> HIDE DEF p, n, a, s
  <2> QED BY <1>3, <1>5, <1>6, <1>9, <2>1
<1> QED BY <1>3, <1>7, <1>8, <1>9

\* A newcomer in place of its account's old session.
LEMMA ReplaceSlots ==
  ASSUME IInv, IInv', ReplaceSession
  PROVE  (NoIdle => NoIdle') /\ (Within => Within')
<1> DEFINE s == Head(addQueue)
           a == account[s]
           old == sessions[a]
           r == Removed(old)
           p == Cardinality(Present)
           n == Len(queued)
<1>1. /\ addQueue # <<>> /\ old # NoSess /\ Enter(s, r)
      /\ playerLimit' = playerLimit /\ linked' = [linked EXCEPT ![old] = FALSE]
  BY DEF ReplaceSession, Delete, Removed
<1>2. a \in Present /\ old \in Sess
  BY <1>1, HeadFacts DEF Present, IInv, Types
<1>3. Clean(r, {old}) /\ r.found \in BOOLEAN
  BY <1>2, RemovedIsClean DEF Removed, IInv
<1>4. PICK f, m \in {0, 1} :
        /\ r.found <=> f = 1
        /\ Admits(old) <=> m = 1
        /\ p \in Nat /\ n \in Nat /\ playerLimit \in Int
        /\ Len(r.queue) = n - f - m
        /\ n - f >= 0 /\ p - n >= 1 - f
        /\ m = 1 <=> (playerLimit = 0 \/ p - n - (1 - f) < playerLimit) /\ n - f > 0
  BY <1>2, RemovedSlots
<1>5. Present \union {a} = Present
  BY <1>2
<1>6. PICK w \in {0, 1} :
        /\ s \in Sess /\ ~Entered(s)
        /\ Present' = Present
        /\ \A b \in Account : sessions'[b] = IF b = a THEN s ELSE sessions[b]
        /\ Len(queued') = Len(r.queue) + w
        /\ w = 0 => s \notin Elems(queued')
        /\ inQueue'[s] <=> w = 1
        /\ \A t \in Sess \ {s} : inQueue'[t] = r.flag[t]
        /\ w = 1 <=> /\ playerLimit > 0
                     /\ p - (IF r.found THEN 0 ELSE 1) >= playerLimit
                     /\ a \notin Staff
  <2> HIDE DEF r, old
  <2> QED BY <1>1, <1>3, <1>5, EnterSlots
<1>7. Roomy /\ Roomy'
  BY PlayersRoom, PlayersRoomNext
<1>8. w = 1 <=> playerLimit > 0 /\ p - (1 - f) >= playerLimit /\ a \notin Staff
  <2> HIDE DEF p, a, r
  <2>1. (IF r.found THEN 0 ELSE 1) = 1 - f
    BY <1>4
  <2> QED BY <1>6, <2>1
<1>9. Len(queued') = n - f - m + w /\ Cardinality(Present)' = p
  BY <1>4, <1>6
<1>10. ASSUME NoIdle PROVE NoIdle'
  <2>1. IdleFree(p, n)
    BY <1>10, NoIdleIs
  <2> SUFFICES IdleFree(Cardinality(Present), Len(queued))'
    BY NoIdleIsNext
  <2> HIDE DEF p, n, s, a, r, old
  <2> QED BY <1>1, <1>4, <1>8, <1>9, <2>1 DEF IdleFree
<1>11. ASSUME Within, m = 0, w = 1 \/ a \in Staff PROVE Within'
  <2>1. Players' \subseteq Players
    <3> SUFFICES ASSUME NEW b \in Players' PROVE b \in Players
      OBVIOUS
    <3> HIDE DEF s, r, old
    <3>1. b # a
      <4>1. b \notin Staff /\ ~inQueue'[sessions'[b]]
        BY DEF Players
      <4>2. a \in Account /\ sessions'[a] = s
        BY <1>2, <1>6 DEF Present
      <4> HIDE DEF a
      <4> QED BY <1>6, <1>11, <4>1, <4>2
    <3>2. b \in Present /\ sessions'[b] = sessions[b] /\ sessions[b] \in Sess
      BY <1>6, <3>1 DEF Players, Present, IInv, Types
    <3>3. sessions[b] # s /\ sessions[b] # old
      BY <1>2, <1>6, <3>1, <3>2 DEF Entered, Present, IInv, Filed, old
    <3>4. r.flag[sessions[b]] <=> inQueue[sessions[b]]
      <4>1. \A t \in Sess \ {old} : r.flag[t] <=> inQueue[t] /\ ~(Admits(old) /\ t = Head(Rest(old)))
        BY <1>2, RemovedAs DEF IInv, r
      <4>2. ~Admits(old)
        BY <1>4, <1>11
      <4> QED BY <3>2, <3>3, <4>1, <4>2
    <3>5. linked'[sessions[b]] = linked[sessions[b]]
      BY <1>1, <3>2, <3>3 DEF IInv, Types
    <3> QED BY <1>6, <3>2, <3>3, <3>4, <3>5 DEF Players
  <2>2. Cardinality(Players') <= Cardinality(Players) /\ Cardinality(Players) \in Nat
        /\ Cardinality(Players') \in Nat
    BY <1>7, <2>1, FS_Subset, FS_CardinalityType DEF Roomy
  <2> QED BY <1>1, <1>4, <1>11, <2>2 DEF Within
<1>12. ASSUME m = 1 \/ ~(w = 1 \/ a \in Staff) PROVE Within'
  <2>1. Cardinality(Players)' + (n - f - m + w) <= p /\ Cardinality(Players)' \in Nat
    BY <1>7, <1>9 DEF Roomy
  <2>2. a \in Staff /\ w = 0 => Cardinality(Players)' + 1 + (n - f - m + w) <= p
    <3> SUFFICES ASSUME a \in Staff, w = 0
                 PROVE  Cardinality(Players)' + 1 + (n - f - m + w) <= p
      OBVIOUS
    <3>1. a \in Present' \ Players' /\ sessions'[a] = s
      BY <1>2, <1>6 DEF Players, Present
    <3>2. sessions'[a] \notin Elems(queued')
      BY <1>6, <3>1
    <3> HIDE DEF a, s, n, p
    <3> QED BY <1>7, <1>9, <3>1, <3>2 DEF Roomy, Elems
  <2> SUFFICES ASSUME playerLimit > 0 PROVE Cardinality(Players)' <= playerLimit
    BY <1>1 DEF Within
  <2> HIDE DEF p, n, a, s, r, old
  <2> QED BY <1>4, <1>8, <1>12, <2>1, <2>2
<1> QED BY <1>4, <1>10, <1>11, <1>12

\* AddSession_ and RemoveQueuedSession: while the limit stays, no step leaves a slot idle
\* beside a waiting session or admits more players than there are slots, if it was not
\* so before.
THEOREM SlotsFollowLimitHolds == Spec => SlotsFollowLimit
<1>1. IInv /\ IInv' /\ [Next]_vars =>
        [playerLimit' = playerLimit => (NoIdle => NoIdle') /\ (Within => Within')]_vars
  <2> SUFFICES ASSUME IInv, IInv', [Next]_vars, playerLimit' = playerLimit
               PROVE  (NoIdle => NoIdle') /\ (Within => Within')
    OBVIOUS
  <2>1. \A a \in Present : sessions[a] \in Sess /\ Entered(sessions[a])
    BY DEF Present, Entered, IInv, Types
  <2>2. CASE RefuseNewcomer
    <3>1. /\ Head(addQueue) \in Sess /\ linked' = [linked EXCEPT ![Head(addQueue)] = FALSE]
          /\ UNCHANGED <<sessions, queued, playerLimit, inQueue>>
      BY <2>2, HeadFacts DEF RefuseNewcomer, Delete
    <3>2. \A a \in Present : linked'[sessions[a]] => linked[sessions[a]]
      BY <2>1, <3>1 DEF IInv, Types
    <3> QED BY <3>1, <3>2, QuietSlots
  <2>3. CASE ReplaceSession
    BY <2>3, ReplaceSlots
  <2>4. CASE EnterNewSession
    BY <2>4, NewSlots
  <2>5. ASSUME NEW a \in Account, RemoveDead(a)
        PROVE  (NoIdle => NoIdle') /\ (Within => Within')
    BY <2>5, LeaveSlots
  <2>6. ASSUME NEW s \in Sess, NEW a \in Account, AddSession(s, a)
        PROVE  (NoIdle => NoIdle') /\ (Within => Within')
    <3>1. /\ account[s] = NoAccount /\ linked' = [linked EXCEPT ![s] = TRUE]
          /\ UNCHANGED <<sessions, queued, playerLimit, inQueue>>
      BY <2>6 DEF AddSession
    <3>2. ~Entered(s)
      BY <3>1, AccountAssumption, SessAssumption DEF IInv, Filed, Entered
    <3>3. \A b \in Present : linked'[sessions[b]] => linked[sessions[b]]
      BY <2>1, <3>1, <3>2 DEF IInv, Types
    <3> QED BY <3>1, <3>3, QuietSlots
  <2>7. ASSUME NEW s \in Sess, CloseLink(s) \/ BeginLoading(s) \/ EndLoading(s)
        PROVE  (NoIdle => NoIdle') /\ (Within => Within')
    <3>1. UNCHANGED <<sessions, queued, playerLimit, inQueue>>
      BY <2>7 DEF CloseLink, BeginLoading, EndLoading
    <3>2. \A a \in Present : linked'[sessions[a]] => linked[sessions[a]]
      BY <2>1, <2>7 DEF CloseLink, BeginLoading, EndLoading, IInv, Types
    <3> QED BY <3>1, <3>2, QuietSlots
  <2>8. CASE KickAll
    <3>1. queued' = <<>> /\ Players' = {}
      BY <2>1, <2>8 DEF KickAll, Players, Present, Entered
    <3>2. Cardinality(Players') = 0
      BY <3>1, FS_EmptySet
    <3> QED BY <3>1, <3>2 DEF NoIdle, Within, IInv, Types
  <2>9. ASSUME NEW n \in NewLimit, SetPlayerLimit(n)
        PROVE  (NoIdle => NoIdle') /\ (Within => Within')
    BY <2>9, QuietSlots DEF SetPlayerLimit
  <2>10. CASE UNCHANGED vars
    BY <2>10, QuietSlots DEF vars
  <2> QED BY <2>2, <2>3, <2>4, <2>5, <2>6, <2>7, <2>8, <2>9, <2>10 DEF Next, WorldThread
<1> QED BY <1>1, Invariance, PTL DEF Spec, SlotsFollowLimit
==============================================================================
