------------------------------- MODULE Outbound -------------------------------
(***************************************************************************)
(* What the server sends to one authenticated client                       *)
(* (proto/ClientConnection.cpp, shared/net/SendQueue.hpp,                  *)
(* shared/net/reactor/ReactorServer.cpp).                                  *)
(*                                                                         *)
(* Any thread encrypts a packet's header and appends the packet to the     *)
(* connection's SendQueue; the network worker that owns the socket writes  *)
(* the queue out, and tears the connection down once a thread has asked    *)
(* for that and the queue has drained.  A packet stands for its bytes and  *)
(* is named by the position of its header in the keystream.                *)
(***************************************************************************)
EXTENDS Integers, Sequences

CONSTANTS Sender,     \* threads that send: the world, map workers, Net
          Net,        \* the network worker itself, while it runs onData
          MaxPackets, \* bound: packets encrypted
          SocketRoom  \* what the socket takes before send() returns EAGAIN

ASSUME SenderAssumption == Net \in Sender

ASSUME BoundAssumption == MaxPackets \in Nat /\ SocketRoom \in Nat \ {0}

VARIABLES
  keystream,       \* headers encrypted by m_crypt so far
  at,              \* where each thread is in SendPacket or Close
  header,          \* the packet each thread has encoded and not yet posted
  closed,          \* ClientConnection::m_closed
  alive,           \* SendChannel::alive; false once the Connection is freed
  closeRequested,  \* SendChannel::closeRequested
  pending,         \* SendQueue::m_pending
  inflight,        \* SendQueue::m_inflight from m_off on
  requested,       \* the channel is in the worker's reqQueue
  woken,           \* Poller::wake was called since the last wait
  wpc,             \* where the worker is
  writable,        \* the event it handles has EvWrite
  wantClose,       \* its local of that name
  serving,         \* flush was called for an "event" or a "request"
  writeArmed,      \* Connection::writeArmed
  closeAfterDrain, \* Connection::closeAfterDrain
  wire,            \* what send() has taken
  unread,          \* how much of it the peer has not read
  peerGone,        \* the peer has hung up
  posted,          \* history: what was appended to the queue
  owed             \* history: how much of it when m_closed was set

queue == <<pending, inflight, posted>>
channel == <<closed, alive, closeRequested, requested, woken, owed>>
sending == <<keystream, at, header>>
worker == <<wpc, writable, wantClose, serving, writeArmed, closeAfterDrain>>
socket == <<wire, unread, peerGone>>
vars == <<queue, channel, sending, worker, socket>>

Init ==
  /\ keystream = 0
  /\ at = [t \in Sender |-> "idle"]
  /\ header = [t \in Sender |-> 0]
  /\ alive = TRUE
  /\ closed = FALSE /\ closeRequested = FALSE /\ requested = FALSE /\ woken = FALSE
  /\ pending = <<>> /\ inflight = <<>> /\ posted = <<>> /\ owed = 0
  /\ wpc = "wait" /\ serving = "event"
  /\ writable = FALSE /\ wantClose = FALSE /\ writeArmed = FALSE /\ closeAfterDrain = FALSE
  /\ wire = <<>> /\ unread = 0 /\ peerGone = FALSE

-----------------------------------------------------------------------------
\* Definitions whose comment says what they get wrong are faulty variants of the
\* one that follows, each a bug this code could have; no run takes them.

\* The buffers are swapped although the span in flight is not written out.
NextSpanEarly ==
  /\ wpc = "flush" /\ pending # <<>>
  /\ inflight' = pending /\ pending' = <<>> /\ wpc' = "send"
  /\ UNCHANGED <<posted, channel, sending, writable, wantClose, serving, writeArmed,
                 closeAfterDrain, socket>>

\* empty() forgets the pending buffer.
OutEmptyInflight == inflight = <<>>

\* empty
OutEmpty == inflight = <<>> /\ pending = <<>>

-----------------------------------------------------------------------------
\* The threads that send.  The worker sends and closes only from its onData.
Runs(t) == t = Net => wpc = "data"

\* SendPacket and EncodeForSend: the header is encrypted under m_cryptSendLock,
\* which is released before the packet is queued.
SendPacket(t) ==
  /\ Runs(t) /\ at[t] = "idle"
  /\ ~closed
  /\ keystream < MaxPackets
  /\ keystream' = keystream + 1
  /\ header' = [header EXCEPT ![t] = keystream + 1]
  /\ at' = [at EXCEPT ![t] = "post"]
  /\ UNCHANGED <<queue, channel, worker, socket>>

\* SendChannel::post; a no-op once the channel is disarmed.
Post(t) ==
  /\ at[t] = "post"
  /\ \/ /\ alive
        /\ pending' = Append(pending, header[t])
        /\ posted' = Append(posted, header[t])
        /\ at' = [at EXCEPT ![t] = "notify"]
     \/ /\ ~alive
        /\ at' = [at EXCEPT ![t] = "idle"]
        /\ UNCHANGED <<pending, posted>>
  /\ UNCHANGED <<inflight, channel, keystream, header, worker, socket>>

\* ClientConnection::Close, called by the world, by onData, and by SendPacket
\* when the cipher fails; a second call asks for nothing the first does not.
Close(t) ==
  /\ Runs(t) /\ at[t] = "idle"
  /\ ~closed
  /\ closed' = TRUE
  /\ owed' = Len(posted)
  /\ at' = [at EXCEPT ![t] = "close"]
  /\ UNCHANGED <<queue, alive, closeRequested, requested, woken, keystream, header, worker, socket>>

RequestClose(t) ==
  /\ at[t] = "close"
  /\ closeRequested' = (closeRequested \/ alive)
  /\ at' = [at EXCEPT ![t] = IF alive THEN "notify" ELSE "idle"]
  /\ UNCHANGED <<queue, closed, alive, requested, woken, owed, keystream, header, worker, socket>>

\* notifyWorker
Notify(t) ==
  /\ at[t] = "notify"
  /\ requested' = TRUE /\ woken' = TRUE
  /\ at' = [at EXCEPT ![t] = "idle"]
  /\ UNCHANGED <<queue, closed, alive, closeRequested, owed, keystream, header, worker, socket>>

-----------------------------------------------------------------------------
\* The worker

\* closeConn: the channel is disarmed, the session told, the Connection freed.
CloseConn ==
  /\ alive' = FALSE
  /\ closed' = TRUE
  /\ owed' = IF closed THEN owed ELSE Len(posted)
  /\ wpc' = "gone"
  /\ UNCHANGED <<queue, closeRequested, requested, woken, sending, writable, wantClose, serving,
                 writeArmed, closeAfterDrain, socket>>

\* What the worker does after the read half of an event.
AfterRead ==
  IF writable THEN wpc' = "flush" /\ serving' = "event" /\ wantClose' = FALSE
              ELSE wpc' = "drain" /\ UNCHANGED <<serving, wantClose>>

CanWrite == writeArmed /\ unread < SocketRoom

\* Poller::wait returns on a wake, on input or a hang-up, and on room in the
\* socket if write interest is armed.
Wait ==
  /\ wpc = "wait"
  /\ \E readable \in BOOLEAN :
       /\ peerGone => readable
       /\ writable' = CanWrite
       /\ woken \/ readable \/ writable'
       /\ IF readable THEN wpc' = "read" /\ UNCHANGED <<serving, wantClose>>
          ELSE IF writable' THEN wpc' = "flush" /\ serving' = "event" /\ wantClose' = FALSE
          ELSE wpc' = "drain" /\ UNCHANGED <<serving, wantClose>>
  /\ woken' = FALSE
  /\ UNCHANGED <<queue, closed, alive, closeRequested, requested, owed, sending,
                 writeArmed, closeAfterDrain, socket>>

\* recv returns bytes, for onData to handle, or 0.
Read ==
  /\ wpc = "read"
  /\ \/ peerGone /\ CloseConn
     \/ /\ ~peerGone
        /\ wpc' = "data"
        /\ UNCHANGED <<queue, channel, sending, writable, wantClose, serving, writeArmed,
                       closeAfterDrain, socket>>

\* onData has returned.
DataDone ==
  /\ wpc = "data" /\ at[Net] = "idle"
  /\ \/ closed /\ OutEmpty /\ CloseConn
     \/ /\ ~(closed /\ OutEmpty)
        /\ closeAfterDrain' = (closeAfterDrain \/ closed)
        /\ AfterRead
        /\ UNCHANGED <<queue, channel, sending, writable, writeArmed, socket>>

\* drainSendRequests up to its flush.
DrainRequests ==
  /\ wpc = "drain"
  /\ IF requested THEN wpc' = "flush" /\ serving' = "request" /\ wantClose' = closeRequested
                  ELSE wpc' = "wait" /\ UNCHANGED <<serving, wantClose>>
  /\ requested' = FALSE
  /\ UNCHANGED <<queue, closed, alive, closeRequested, woken, owed, sending, writable, writeArmed,
                 closeAfterDrain, socket>>

\* nextSpan found something to write.
NextSpan ==
  /\ wpc = "flush" /\ ~OutEmpty
  /\ \/ inflight = <<>> /\ inflight' = pending /\ pending' = <<>>
     \/ inflight # <<>> /\ UNCHANGED <<inflight, pending>>
  /\ wpc' = "send"
  /\ UNCHANGED <<posted, channel, sending, writable, wantClose, serving, writeArmed,
                 closeAfterDrain, socket>>

\* nextSpan found nothing: write interest is disarmed.
NothingToWrite ==
  /\ wpc = "flush" /\ OutEmpty
  /\ writeArmed' = FALSE /\ wpc' = "flushed"
  /\ UNCHANGED <<queue, channel, sending, writable, wantClose, serving, closeAfterDrain, socket>>

\* send takes some of the span; consume advances m_off.
Send ==
  /\ wpc = "send" /\ ~peerGone
  /\ \E n \in 1 .. Len(inflight) :
       /\ unread + n <= SocketRoom
       /\ wire' = wire \o SubSeq(inflight, 1, n)
       /\ inflight' = SubSeq(inflight, n + 1, Len(inflight))
       /\ unread' = unread + n
  /\ wpc' = "flush"
  /\ UNCHANGED <<pending, posted, channel, sending, writable, wantClose, serving, writeArmed,
                 closeAfterDrain, peerGone>>

\* EAGAIN goes unnoticed.
SendBlockedUnarmed ==
  /\ wpc = "send" /\ ~peerGone /\ unread = SocketRoom
  /\ wpc' = "flushed"
  /\ UNCHANGED <<queue, channel, sending, writable, wantClose, serving, writeArmed,
                 closeAfterDrain, socket>>

\* send returns EAGAIN: write interest is armed.
SendBlocked ==
  /\ wpc = "send" /\ ~peerGone /\ unread = SocketRoom
  /\ writeArmed' = TRUE /\ wpc' = "flushed"
  /\ UNCHANGED <<queue, channel, sending, writable, wantClose, serving, closeAfterDrain, socket>>

SendFails == wpc = "send" /\ peerGone /\ CloseConn

\* A close request is left to the next write event, also with nothing to write.
FlushedDefers ==
  /\ wpc = "flushed"
  /\ \/ closeAfterDrain /\ OutEmpty /\ serving = "event" /\ CloseConn
     \/ /\ ~(closeAfterDrain /\ OutEmpty /\ serving = "event")
        /\ closeAfterDrain' = (closeAfterDrain \/ wantClose)
        /\ wpc' = IF serving = "event" THEN "drain" ELSE "wait"
        /\ UNCHANGED <<queue, channel, sending, writable, wantClose, serving, writeArmed, socket>>

\* flush has returned, to the write event or to drainSendRequests.
Flushed ==
  /\ wpc = "flushed"
  /\ LET close == closeAfterDrain \/ wantClose
     IN \/ close /\ OutEmpty /\ CloseConn
        \/ /\ ~(close /\ OutEmpty)
           /\ closeAfterDrain' = close
           /\ wpc' = IF serving = "event" THEN "drain" ELSE "wait"
           /\ UNCHANGED <<queue, channel, sending, writable, wantClose, serving, writeArmed, socket>>

-----------------------------------------------------------------------------
\* The peer

PeerReads ==
  /\ unread > 0
  /\ unread' = unread - 1
  /\ UNCHANGED <<queue, channel, sending, worker, wire, peerGone>>

PeerLeaves ==
  /\ ~peerGone
  /\ peerGone' = TRUE
  /\ UNCHANGED <<queue, channel, sending, worker, wire, unread>>

-----------------------------------------------------------------------------
Thread(t) == Post(t) \/ RequestClose(t) \/ Notify(t)

Worker ==
  \/ Wait \/ Read \/ DataDone \/ DrainRequests
  \/ NextSpan \/ NothingToWrite \/ Send \/ SendBlocked \/ SendFails \/ Flushed

Next ==
  \/ \E t \in Sender : SendPacket(t) \/ Close(t) \/ Thread(t)
  \/ Worker
  \/ PeerReads
  \/ PeerLeaves

\* The worker waits unless the poller has something to report; input that the
\* peer may or may not send does not count.
Due == wpc = "wait" => woken \/ peerGone \/ CanWrite

\* A call of SendPacket or Close completes, the worker loops, and a client that
\* stays connected reads.  Nothing makes a thread send or close.
Spec ==
  /\ Init /\ [][Next]_vars
  /\ \A t \in Sender : WF_vars(Thread(t))
  /\ WF_vars(Due /\ Worker)
  /\ WF_vars(PeerReads)

-----------------------------------------------------------------------------
\* However appends fall between the worker's swaps and short writes, the
\* client is sent exactly the bytes that were queued, in that order.
StreamIntact == wire \o inflight \o pending = posted

\* Until the peer hangs up, the connection is not torn down with something
\* unsent that was queued before the close was asked for: the rejection or the
\* notice that precedes a kick reaches the socket.
DrainedBeforeClose == ~alive /\ ~peerGone => Len(wire) >= owed

\* Nothing that was queued is left unsent: the worker hears of every append,
\* and resumes every write the socket cut short.
QueuedIsSent ==
  \A n \in 1 .. MaxPackets : Len(posted) >= n ~> Len(wire) >= n \/ ~alive

\* A connection that is to be closed is torn down, also when its queue has
\* drained already and no further event would come.
CloseHappens == closed ~> ~alive

\* ClientConnection.cpp: "two threads encrypting headers concurrently would
\* interleave the keystream and desynchronise the client for good", so packets
\* must reach the client in the order their headers were encrypted in.
KeystreamOrder == \A i \in DOMAIN wire : wire[i] = i
==============================================================================
