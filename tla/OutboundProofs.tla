---------------------------- MODULE OutboundProofs ----------------------------
(***************************************************************************)
(* The outbound byte stream for any number of sending threads, packets and *)
(* any socket.                                                             *)
(*                                                                         *)
(* An append extends the queue and the history at the same end, a swap and *)
(* a short write only move bytes over the two inner borders.  That nothing *)
(* owed is lost at the teardown needs in addition that a connection torn   *)
(* down is closed and its worker gone, so that what is owed stays.         *)
(***************************************************************************)
EXTENDS Outbound, SequenceTheorems, TLAPS

\* The types of what is queued and sent, of what is owed, and of the worker's place.
StreamTypeOK ==
  /\ keystream \in Nat
  /\ header \in [Sender -> Nat]
  /\ pending \in Seq(Nat) /\ inflight \in Seq(Nat) /\ posted \in Seq(Nat) /\ wire \in Seq(Nat)
  /\ owed \in Nat
  /\ closed \in BOOLEAN /\ alive \in BOOLEAN /\ peerGone \in BOOLEAN

\* No more is owed than was queued.
OwedWasPosted == owed <= Len(posted)

\* A freed connection has no worker and is closed.
GoneIsClosed == ~alive => closed /\ wpc = "gone"

IInv ==
  /\ StreamTypeOK
  /\ StreamIntact
  /\ OwedWasPosted
  /\ GoneIsClosed
  /\ DrainedBeforeClose

LEMMA InvInit == Init => IInv
<1> SUFFICES ASSUME Init PROVE IInv
  OBVIOUS
<1>1. <<>> \in Seq(Nat) /\ Len(<<>>) = 0
  BY EmptySeq
<1>2. <<>> \o <<>> = <<>>
  BY <1>1, ConcatEmptySeq
<1>3. StreamTypeOK
  BY <1>1 DEF Init, StreamTypeOK
<1>4. StreamIntact
  BY <1>2 DEF Init, StreamIntact
<1>5. OwedWasPosted
  BY <1>1 DEF Init, OwedWasPosted
<1>6. GoneIsClosed /\ DrainedBeforeClose
  BY DEF Init, GoneIsClosed, DrainedBeforeClose
<1>7. QED
  BY <1>3, <1>4, <1>5, <1>6 DEF IInv

-----------------------------------------------------------------------------
(* The three places where the stream moves.                                *)

LEMMA StreamAppended ==
  ASSUME NEW w \in Seq(Nat), NEW f \in Seq(Nat), NEW p \in Seq(Nat), NEW x \in Nat
  PROVE  w \o f \o Append(p, x) = Append(w \o f \o p, x)
<1>1. w \o f \in Seq(Nat) /\ w \o f \o p \in Seq(Nat) /\ <<x>> \in Seq(Nat)
  BY ConcatProperties
<1>2. Append(p, x) = p \o <<x>> /\ Append(w \o f \o p, x) = w \o f \o p \o <<x>>
  BY <1>1, AppendIsConcat
<1>3. QED
  BY <1>1, <1>2, ConcatAssociative

LEMMA StreamSwapped ==
  ASSUME NEW w \in Seq(Nat), NEW p \in Seq(Nat)
  PROVE  w \o p \o <<>> = w \o <<>> \o p
<1>1. w \o p \in Seq(Nat)
  BY ConcatProperties
<1>2. QED
  BY <1>1, ConcatEmptySeq

LEMMA StreamRegrouped ==
  ASSUME NEW w \in Seq(Nat), NEW h \in Seq(Nat), NEW r \in Seq(Nat)
  PROVE  (w \o h) \o r = w \o (h \o r)
OBVIOUS

LEMMA SpanSplit ==
  ASSUME NEW f \in Seq(Nat), NEW n \in 1 .. Len(f)
  PROVE  /\ SubSeq(f, 1, n) \in Seq(Nat)
         /\ SubSeq(f, n + 1, Len(f)) \in Seq(Nat)
         /\ SubSeq(f, 1, n) \o SubSeq(f, n + 1, Len(f)) = f
<1>0. Len(f) \in Nat /\ n \in Nat /\ \A i \in 1 .. Len(f) : f[i] \in Nat
  BY LenProperties, ElementOfSeq
<1>1. SubSeq(f, 1, n) \in Seq(Nat) /\ SubSeq(f, n + 1, Len(f)) \in Seq(Nat)
  BY <1>0, SubSeqProperties
<1>2. SubSeq(f, 1, n) \o SubSeq(f, n + 1, Len(f)) = SubSeq(f, 1, Len(f))
  BY <1>0, ConcatAdjacentSubSeq
<1>3. QED
  BY <1>1, <1>2, SubSeqFull

-----------------------------------------------------------------------------
\* The teardown: the peer has hung up, or everything queued is on the wire.
LEMMA CloseConnStep ==
  ASSUME IInv, CloseConn, peerGone \/ OutEmpty
  PROVE  IInv'
<1>1. /\ UNCHANGED <<pending, inflight, posted, keystream, header, wire, peerGone>>
      /\ alive' = FALSE /\ closed' = TRUE /\ wpc' = "gone"
      /\ owed' = IF closed THEN owed ELSE Len(posted)
  BY DEF CloseConn, queue, sending, socket
<1>2. Len(posted) \in Nat /\ Len(wire) \in Nat
  BY LenProperties DEF IInv, StreamTypeOK
<1>3. owed' \in Nat /\ owed' <= Len(posted)
  BY <1>1, <1>2 DEF IInv, StreamTypeOK, OwedWasPosted
<1>4. ~peerGone => wire = posted
  <2> SUFFICES ASSUME ~peerGone PROVE wire = posted
    OBVIOUS
  <2>1. inflight = <<>> /\ pending = <<>>
    BY DEF OutEmpty
  <2>2. wire \o <<>> \o <<>> = wire
    BY ConcatEmptySeq DEF IInv, StreamTypeOK
  <2>3. QED
    BY <2>1, <2>2 DEF IInv, StreamIntact
<1>5. QED
  BY <1>1, <1>2, <1>3, <1>4
     DEF IInv, StreamTypeOK, StreamIntact, OwedWasPosted, GoneIsClosed, DrainedBeforeClose

\* Steps that move no byte, free nothing and leave what is owed as it is.
LEMMA OtherStep ==
  ASSUME IInv,
         UNCHANGED <<pending, inflight, posted, wire, alive, owed>>,
         closed' \in BOOLEAN, closed => closed',
         peerGone' \in BOOLEAN, peerGone => peerGone',
         keystream' \in Nat, header' \in [Sender -> Nat],
         wpc = "gone" => wpc' = "gone"
  PROVE  IInv'
BY DEF IInv, StreamTypeOK, StreamIntact, OwedWasPosted, GoneIsClosed, DrainedBeforeClose

LEMMA PostStep ==
  ASSUME IInv, NEW t \in Sender, Post(t), alive
  PROVE  IInv'
<1>1. /\ pending' = Append(pending, header[t]) /\ posted' = Append(posted, header[t])
      /\ UNCHANGED <<inflight, closed, alive, owed, keystream, header, wpc, wire, peerGone>>
  BY DEF Post, channel, worker, socket
<1>2. /\ header[t] \in Nat /\ pending \in Seq(Nat) /\ posted \in Seq(Nat) /\ wire \in Seq(Nat)
      /\ inflight \in Seq(Nat)
  BY DEF IInv, StreamTypeOK
<1>3. /\ pending' \in Seq(Nat) /\ posted' \in Seq(Nat)
      /\ Len(posted') = Len(posted) + 1 /\ Len(posted) \in Nat
  BY <1>1, <1>2, AppendProperties, LenProperties
<1>4. wire \o inflight \o pending' = posted'
  BY <1>1, <1>2, StreamAppended, ZenonT(40) DEF IInv, StreamIntact
<1>5. QED
  BY <1>1, <1>3, <1>4
     DEF IInv, StreamTypeOK, StreamIntact, OwedWasPosted, GoneIsClosed, DrainedBeforeClose

LEMMA NextSpanStep ==
  ASSUME IInv, NextSpan
  PROVE  IInv'
<1>1. /\ UNCHANGED <<posted, closed, alive, owed, keystream, header, wire, peerGone>>
      /\ wpc = "flush"
  BY DEF NextSpan, channel, sending, socket
<1>2. wire \o inflight' \o pending' = wire \o inflight \o pending /\ inflight' \in Seq(Nat) /\ pending' \in Seq(Nat)
  <2>1. CASE inflight = <<>> /\ inflight' = pending /\ pending' = <<>>
    BY <2>1, StreamSwapped, EmptySeq DEF IInv, StreamTypeOK
  <2>2. CASE UNCHANGED <<inflight, pending>>
    BY <2>2 DEF IInv, StreamTypeOK
  <2>3. QED
    BY <2>1, <2>2 DEF NextSpan
<1>3. QED
  BY <1>1, <1>2
     DEF IInv, StreamTypeOK, StreamIntact, OwedWasPosted, GoneIsClosed, DrainedBeforeClose

LEMMA SendStep ==
  ASSUME IInv, Send
  PROVE  IInv'
<1>1. /\ UNCHANGED <<pending, posted, closed, alive, owed, keystream, header, peerGone>>
      /\ wpc = "send"
  BY DEF Send, channel, sending
<1>2. PICK n \in 1 .. Len(inflight) :
        /\ wire' = wire \o SubSeq(inflight, 1, n)
        /\ inflight' = SubSeq(inflight, n + 1, Len(inflight))
  BY DEF Send
<1>3. wire \in Seq(Nat) /\ inflight \in Seq(Nat) /\ pending \in Seq(Nat)
  BY DEF IInv, StreamTypeOK
<1>4. PICK h, r \in Seq(Nat) :
        h \o r = inflight /\ wire' = wire \o h /\ inflight' = r
  BY <1>2, <1>3, SpanSplit
<1>5. wire \o h \in Seq(Nat)
  BY <1>3, ConcatProperties
<1>6. (wire \o h) \o r = wire \o (h \o r)
  BY <1>3, <1>4, StreamRegrouped, ZenonT(40)
<1>7. wire' \o inflight' \o pending = wire \o inflight \o pending
  BY <1>4, <1>6
<1>8. QED
  BY <1>1, <1>3, <1>4, <1>5, <1>7
     DEF IInv, StreamTypeOK, StreamIntact, OwedWasPosted, GoneIsClosed, DrainedBeforeClose

-----------------------------------------------------------------------------
LEMMA InvNext == IInv /\ [Next]_vars => IInv'
<1> SUFFICES ASSUME IInv, [Next]_vars PROVE IInv'
  OBVIOUS
<1> USE DEF queue, channel, sending, worker, socket, vars
<1>0. /\ keystream \in Nat /\ header \in [Sender -> Nat] /\ closed \in BOOLEAN /\ peerGone \in BOOLEAN
      /\ Len(posted) \in Nat
  BY LenProperties DEF IInv, StreamTypeOK
<1>1. ASSUME NEW t \in Sender, SendPacket(t) PROVE IInv'
  <2>1. keystream' \in Nat /\ header' \in [Sender -> Nat]
    BY <1>0, <1>1 DEF SendPacket
  <2>2. QED
    BY <1>0, <1>1, <2>1, OtherStep DEF SendPacket
<1>2. ASSUME NEW t \in Sender, Post(t) PROVE IInv'
  <2>1. CASE alive
    BY <1>2, <2>1, PostStep
  <2>2. CASE ~alive
    BY <1>0, <1>2, <2>2, OtherStep DEF Post
  <2>3. QED
    BY <2>1, <2>2
<1>3. ASSUME NEW t \in Sender, Close(t) PROVE IInv'
  <2>1. /\ UNCHANGED <<pending, inflight, posted, wire, alive, peerGone, keystream, header, wpc>>
        /\ ~closed /\ closed' = TRUE /\ owed' = Len(posted)
    BY <1>3 DEF Close
  <2>2. alive
    BY <2>1 DEF IInv, GoneIsClosed
  <2>3. QED
    BY <1>0, <2>1, <2>2
       DEF IInv, StreamTypeOK, StreamIntact, OwedWasPosted, GoneIsClosed, DrainedBeforeClose
<1>4. ASSUME NEW t \in Sender, RequestClose(t) \/ Notify(t) PROVE IInv'
  BY <1>0, <1>4, OtherStep DEF RequestClose, Notify
<1>5. CASE Wait \/ DrainRequests \/ NothingToWrite \/ SendBlocked
  BY <1>0, <1>5, OtherStep DEF Wait, DrainRequests, NothingToWrite, SendBlocked
<1>6. CASE Read
  <2>1. CASE peerGone /\ CloseConn
    BY <2>1, CloseConnStep
  <2>2. CASE ~(peerGone /\ CloseConn)
    BY <1>0, <1>6, <2>2, OtherStep DEF Read
  <2>3. QED
    BY <2>1, <2>2
<1>7. CASE DataDone
  <2>1. CASE OutEmpty /\ CloseConn
    BY <2>1, CloseConnStep
  <2>2. CASE ~(OutEmpty /\ CloseConn)
    BY <1>0, <1>7, <2>2, OtherStep DEF DataDone, AfterRead
  <2>3. QED
    BY <2>1, <2>2
<1>8. CASE NextSpan
  BY <1>8, NextSpanStep
<1>9. CASE Send
  BY <1>9, SendStep
<1>10. CASE SendFails
  BY <1>10, CloseConnStep DEF SendFails
<1>11. CASE Flushed
  <2>1. CASE OutEmpty /\ CloseConn
    BY <2>1, CloseConnStep
  <2>2. CASE ~(OutEmpty /\ CloseConn)
    BY <1>0, <1>11, <2>2, OtherStep DEF Flushed
  <2>3. QED
    BY <2>1, <2>2
<1>12. CASE PeerReads \/ PeerLeaves
  BY <1>0, <1>12, OtherStep DEF PeerReads, PeerLeaves
<1>13. CASE UNCHANGED vars
  BY <1>0, <1>13, OtherStep
<1>14. QED
  BY <1>1, <1>2, <1>3, <1>4, <1>5, <1>6, <1>7, <1>8, <1>9, <1>10, <1>11, <1>12, <1>13
     DEF Next, Thread, Worker

LEMMA InvAlways == Spec => []IInv
BY InvInit, InvNext, PTL DEF Spec

\* SendQueue's append, swap and consume: however sends of any threads and short writes
\* fall, what was sent, is in flight and is pending is what was queued, in order.
THEOREM StreamIntactHolds == Spec => []StreamIntact
<1>1. IInv => StreamIntact
  BY DEF IInv
<1>2. QED
  BY InvAlways, <1>1, PTL

\* ReactorServer's close after drain: unless the peer hangs up, whatever was queued before
\* the close was asked for is written first.
THEOREM DrainedBeforeCloseHolds == Spec => []DrainedBeforeClose
<1>1. IInv => DrainedBeforeClose
  BY DEF IInv
<1>2. QED
  BY InvAlways, <1>1, PTL
===============================================================================
