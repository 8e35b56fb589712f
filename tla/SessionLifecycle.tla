--------------------------- MODULE SessionLifecycle ---------------------------
(***************************************************************************)
(* One client connection and the WorldSession made for it                  *)
(* (proto/ClientConnection.cpp, game/Server/WorldGateway.cpp,              *)
(* World::AddSession, World::UpdateSessions).                              *)
(*                                                                         *)
(* A network worker runs the handshake, makes the session, publishes it to *)
(* the world and registers it under a handle; from then on the worker      *)
(* reaches the session through the registry, and the world thread deletes  *)
(* it.  A connection makes at most one session, which has its name.        *)
(***************************************************************************)
EXTENDS FiniteSets

CONSTANT Conn \* client connections

VARIABLES
  net,       \* the transport's view: "none" before onConnect, "up", "gone"
  npc,       \* where the worker is with the connection
  connState, \* ClientConnection::m_connState
  crypt,     \* m_crypt is active
  closed,    \* m_closed
  handle,    \* m_session is valid
  rejected,  \* an SMSG_AUTH_RESPONSE error was sent
  registry,  \* WorldGateway::m_sessions
  ses        \* the WorldSession: "none", "new", "queued", "live", "deleted"

vars == <<net, npc, connState, crypt, closed, handle, rejected, registry, ses>>

\* "reading": onData dispatches frames.  "attach", "register": inside Attach,
\* before and after AddSession.  "target": Find has returned the session.
\* "detach", "kick": inside onClose and Detach, before and after the erasure.
WorkerPC == {"idle", "reading", "attach", "register", "target", "detach", "kick"}

Init ==
  /\ net = [c \in Conn |-> "none"]
  /\ npc = [c \in Conn |-> "idle"]
  /\ connState = [c \in Conn |-> "greeting"]
  /\ crypt = [c \in Conn |-> FALSE]
  /\ closed = [c \in Conn |-> FALSE]
  /\ handle = [c \in Conn |-> FALSE]
  /\ rejected = [c \in Conn |-> FALSE]
  /\ registry = {}
  /\ ses = [c \in Conn |-> "none"]

\* WorldGateway::m_lock, which Attach holds across AddSession.
LockFree == \A d \in Conn : npc[d] # "register"

-----------------------------------------------------------------------------
\* Definitions whose comment says what they get wrong are faulty variants of the
\* one that follows, each a bug this code could have; no run takes them.

\* IsHandshakeOpcodeLegal
AuthIsLegal(c) == connState[c] = "challenged"

\* The crypt is activated as soon as it has been prepared.
BeginAttachActivates(c) ==
  /\ npc' = [npc EXCEPT ![c] = "attach"]
  /\ ses' = [ses EXCEPT ![c] = "new"]
  /\ crypt' = [crypt EXCEPT ![c] = TRUE]
  /\ UNCHANGED <<closed, rejected>>

\* LookupAccount, the proof and Prepare have succeeded: Attach makes a session.
BeginAttach(c) ==
  /\ npc' = [npc EXCEPT ![c] = "attach"]
  /\ ses' = [ses EXCEPT ![c] = "new"]
  /\ UNCHANGED <<crypt, closed, rejected>>

\* RejectAuth, after which DispatchFrame returns false and onData closes.
RejectAuth(c) ==
  /\ rejected' = [rejected EXCEPT ![c] = TRUE]
  /\ closed' = [closed EXCEPT ![c] = TRUE]
  /\ npc' = [npc EXCEPT ![c] = "idle"]

-----------------------------------------------------------------------------
\* Network worker: onConnect and onData

OnConnect(c) ==
  /\ net[c] = "none"
  /\ net' = [net EXCEPT ![c] = "up"]
  /\ UNCHANGED <<npc, connState, crypt, closed, handle, rejected, registry, ses>>

\* Input is refused from a connection that is closed when it arrives.
OnData(c) ==
  /\ net[c] = "up" /\ npc[c] = "idle"
  /\ ~closed[c]
  /\ npc' = [npc EXCEPT ![c] = "reading"]
  /\ UNCHANGED <<net, connState, crypt, closed, handle, rejected, registry, ses>>

NeedMore(c) ==
  /\ npc[c] = "reading"
  /\ npc' = [npc EXCEPT ![c] = "idle"]
  /\ UNCHANGED <<net, connState, crypt, closed, handle, rejected, registry, ses>>

\* A malformed frame, a body that does not decode, an opcode that is illegal in
\* the state, a wrong greeting, a failed CSPRNG.
BadFrame(c) ==
  /\ npc[c] = "reading"
  /\ npc' = [npc EXCEPT ![c] = "idle"]
  /\ closed' = [closed EXCEPT ![c] = TRUE]
  /\ UNCHANGED <<net, connState, crypt, handle, rejected, registry, ses>>

\* HandleWowConnection and SendAuthChallenge
Greeting(c) ==
  /\ npc[c] = "reading"
  /\ connState[c] = "greeting" /\ ~closed[c]
  /\ connState' = [connState EXCEPT ![c] = "challenged"]
  /\ UNCHANGED <<net, npc, crypt, closed, handle, rejected, registry, ses>>

\* HandleAuthSession up to Attach
AuthSession(c) ==
  /\ npc[c] = "reading"
  /\ AuthIsLegal(c)
  /\ connState' = [connState EXCEPT ![c] = "authenticating"]
  /\ \/ BeginAttach(c)
     \/ RejectAuth(c) /\ UNCHANGED <<crypt, ses>>
  /\ UNCHANGED <<net, handle, registry>>

\* Loading the session's data or queueing it throws: AbandonUnpublishedLink.
AttachFails(c) ==
  /\ npc[c] = "attach"
  /\ ses' = [ses EXCEPT ![c] = "deleted"]
  /\ RejectAuth(c)
  /\ UNCHANGED <<net, connState, crypt, handle, registry>>

\* CommitCrypt is not called under m_sessionAddQueueLock.
AddSessionLateCommit(c) ==
  /\ npc[c] = "attach" /\ LockFree
  /\ ses' = [ses EXCEPT ![c] = "queued"]
  /\ npc' = [npc EXCEPT ![c] = "register"]
  /\ UNCHANGED <<net, connState, crypt, closed, handle, rejected, registry>>

\* World::AddSession: the session is queued and CommitCrypt called under
\* m_sessionAddQueueLock.
AddSession(c) ==
  /\ npc[c] = "attach" /\ LockFree
  /\ ses' = [ses EXCEPT ![c] = "queued"]
  /\ crypt' = [crypt EXCEPT ![c] = TRUE]
  /\ connState' = [connState EXCEPT ![c] = "authed"]
  /\ npc' = [npc EXCEPT ![c] = "register"]
  /\ UNCHANGED <<net, closed, handle, rejected, registry>>

\* The handle is not entered in the registry.
RegisterNothing(c) ==
  /\ npc[c] = "register"
  /\ handle' = [handle EXCEPT ![c] = TRUE]
  /\ npc' = [npc EXCEPT ![c] = "reading"]
  /\ UNCHANGED <<net, connState, crypt, closed, rejected, registry, ses>>

\* The end of Attach and of HandleAuthSession
Register(c) ==
  /\ npc[c] = "register"
  /\ registry' = registry \union {c}
  /\ handle' = [handle EXCEPT ![c] = TRUE]
  /\ npc' = [npc EXCEPT ![c] = "reading"]
  /\ UNCHANGED <<net, connState, crypt, closed, rejected, ses>>

\* Deliver and OnPing look the session up; OnPing lets go of m_lock here.
Find(c) ==
  /\ npc[c] = "reading" /\ connState[c] = "authed"
  /\ LockFree /\ c \in registry
  /\ npc' = [npc EXCEPT ![c] = "target"]
  /\ UNCHANGED <<net, connState, crypt, closed, handle, rejected, registry, ses>>

\* They use it; OnPing may find the pings too fast.
UseTarget(c) ==
  /\ npc[c] = "target"
  /\ \E fine \in BOOLEAN :
       /\ closed' = [closed EXCEPT ![c] = @ \/ ~fine]
       /\ npc' = [npc EXCEPT ![c] = IF fine THEN "reading" ELSE "idle"]
  /\ UNCHANGED <<net, connState, crypt, handle, rejected, registry, ses>>

-----------------------------------------------------------------------------
\* Network worker: teardown

\* closeConn calls onClose: the peer hung up, or the link is closed and drained.
OnClose(c) ==
  /\ net[c] = "up" /\ npc[c] = "idle"
  /\ closed' = [closed EXCEPT ![c] = TRUE]
  /\ net' = [net EXCEPT ![c] = "gone"]
  /\ npc' = [npc EXCEPT ![c] = IF handle[c] THEN "detach" ELSE "idle"]
  /\ UNCHANGED <<connState, crypt, handle, rejected, registry, ses>>

\* Detach takes the session out of the registry, if it is there.
Detach(c) ==
  /\ npc[c] = "detach" /\ LockFree
  /\ registry' = registry \ {c}
  /\ handle' = [handle EXCEPT ![c] = FALSE]
  /\ npc' = [npc EXCEPT ![c] = IF c \in registry THEN "kick" ELSE "idle"]
  /\ UNCHANGED <<net, connState, crypt, closed, rejected, ses>>

\* target->KickPlayer(), on a link that is closed already.
KickTarget(c) ==
  /\ npc[c] = "kick"
  /\ npc' = [npc EXCEPT ![c] = "idle"]
  /\ UNCHANGED <<net, connState, crypt, closed, handle, rejected, registry, ses>>

-----------------------------------------------------------------------------
\* World thread

\* AddSession_ accepts the session ...
Pop(c) ==
  /\ ses[c] = "queued"
  /\ ses' = [ses EXCEPT ![c] = "live"]
  /\ UNCHANGED <<net, npc, connState, crypt, closed, handle, rejected, registry>>

\* ~WorldSession leaves the link open.
DeleteLeavesLink(c) ==
  /\ ses' = [ses EXCEPT ![c] = "deleted"]
  /\ UNCHANGED closed

\* ~WorldSession closes the link.
Delete(c) ==
  /\ ses' = [ses EXCEPT ![c] = "deleted"]
  /\ closed' = [closed EXCEPT ![c] = TRUE]

\* ... or turns it away.
Refuse(c) ==
  /\ ses[c] = "queued"
  /\ Delete(c)
  /\ UNCHANGED <<net, npc, connState, crypt, handle, rejected, registry>>

\* A ban, a command, a decode failure in a handler.
KickPlayer(c) ==
  /\ ses[c] = "live" /\ ~closed[c]
  /\ closed' = [closed EXCEPT ![c] = TRUE]
  /\ UNCHANGED <<net, npc, connState, crypt, handle, rejected, registry, ses>>

\* The account logs in again.
Replace(c) ==
  /\ ses[c] = "live"
  /\ Delete(c)
  /\ UNCHANGED <<net, npc, connState, crypt, handle, rejected, registry>>

\* UpdateSessions removes a session whose link is closed.
Reap(c) ==
  /\ ses[c] = "live" /\ closed[c]
  /\ Delete(c)
  /\ UNCHANGED <<net, npc, connState, crypt, handle, rejected, registry>>

-----------------------------------------------------------------------------
\* What the worker has begun it goes on with.
Busy(c) ==
  \/ NeedMore(c) \/ BadFrame(c) \/ Greeting(c) \/ AuthSession(c)
  \/ AttachFails(c) \/ AddSession(c) \/ Register(c)
  \/ Find(c) \/ UseTarget(c)
  \/ Detach(c) \/ KickTarget(c)

WorldThread(c) == Pop(c) \/ Refuse(c) \/ Reap(c)

Next ==
  \E c \in Conn : \/ OnConnect(c) \/ OnData(c) \/ OnClose(c) \/ Busy(c)
                  \/ WorldThread(c) \/ KickPlayer(c) \/ Replace(c)

\* onData comes to the end of what was received.  A closed link is torn down
\* (Outbound!CloseHappens), and the world's ticks empty the add queue and reap.
Spec ==
  /\ Init /\ [][Next]_vars
  /\ \A c \in Conn :
       /\ WF_vars(Busy(c))
       /\ SF_vars(NeedMore(c))
       /\ WF_vars(closed[c] /\ OnClose(c))
       /\ WF_vars(WorldThread(c))

-----------------------------------------------------------------------------
TypeOK ==
  /\ net \in [Conn -> {"none", "up", "gone"}]
  /\ npc \in [Conn -> WorkerPC]
  /\ connState \in [Conn -> {"greeting", "challenged", "authenticating", "authed"}]
  /\ crypt \in [Conn -> BOOLEAN]
  /\ closed \in [Conn -> BOOLEAN]
  /\ handle \in [Conn -> BOOLEAN]
  /\ rejected \in [Conn -> BOOLEAN]
  /\ registry \subseteq Conn
  /\ ses \in [Conn -> {"none", "new", "queued", "live", "deleted"}]
  \* a handle outlives the transport's connection only inside onClose
  /\ \A c \in Conn : handle[c] => net[c] = "up" \/ npc[c] = "detach"

\* The world thread never sees a session whose connection does not encrypt yet:
\* its first packet would go out in the clear and desynchronise the client.
PublishedIsAuthed ==
  \A c \in Conn : ses[c] \in {"queued", "live"} => crypt[c] /\ connState[c] = "authed"

\* A rejection goes out in the clear, whichever step failed, and what is
\* rejected is not published.
RejectedInTheClear ==
  \A c \in Conn : rejected[c] => ~crypt[c] /\ ses[c] \in {"none", "deleted"}

\* While the link of a session is open its connection reaches it, from the
\* moment HandleAuthSession returns until the world deletes it.
OpenSessionIsReachable ==
  \A c \in Conn :
    ses[c] \in {"queued", "live"} /\ ~closed[c] /\ npc[c] # "register"
      => handle[c] /\ c \in registry

\* A connection makes one session at most, whatever its client sends.
OneSessionPerConnection ==
  [][\A c \in Conn : ses'[c] = "new" => ses[c] \in {"none", "new"}]_vars

\* When a link closes, on either side, or the world deletes the session, all
\* that was made for it goes: the transport's connection, the handle, the
\* session.
ClosedIsReclaimed ==
  \A c \in Conn :
    closed[c] \/ ses[c] = "deleted" ~> /\ net[c] = "gone" /\ c \notin registry
                 /\ ses[c] \in {"none", "deleted"}

\* WorldGateway.h: the registry "means a connection can never be handed a
\* WorldSession pointer it might outlive": a session the worker is about to use
\* still exists.
TargetExists == \A c \in Conn : npc[c] \in {"target", "kick"} => ses[c] # "deleted"
==============================================================================
