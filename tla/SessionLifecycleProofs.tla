------------------------ MODULE SessionLifecycleProofs ------------------------
(***************************************************************************)
(* The safety properties of SessionLifecycle for any set of connections.   *)
(*                                                                         *)
(* They follow from where a connection is in its handshake: before         *)
(* CMSG_AUTH_SESSION nothing has been made for it, inside Attach it is     *)
(* still in the clear and not rejected, and onClose runs on a closed link. *)
(***************************************************************************)
EXTENDS SessionLifecycle, TLAPS

\* Nothing has been made for a connection that has not authenticated.
Fresh(c) ==
  connState[c] \in {"greeting", "challenged"} =>
    ~crypt[c] /\ ~rejected[c] /\ ses[c] = "none"

\* Attach works on an unpublished session of a connection in the clear.
Attaching(c) ==
  npc[c] = "attach" =>
    /\ connState[c] = "authenticating" /\ ~crypt[c] /\ ~rejected[c] /\ ses[c] = "new"

\* The worker serves connections that are up, and detaches closed ones.
Serving(c) ==
  /\ npc[c] \in {"reading", "attach", "register", "target"} => net[c] = "up"
  /\ npc[c] \in {"detach", "kick"} => closed[c]

IInv ==
  /\ TypeOK
  /\ PublishedIsAuthed
  /\ RejectedInTheClear
  /\ OpenSessionIsReachable
  /\ \A c \in Conn : Fresh(c) /\ Attaching(c) /\ Serving(c)

USE DEF WorkerPC

-----------------------------------------------------------------------------
LEMMA InvInit == Init => IInv
BY DEF Init, IInv, TypeOK, PublishedIsAuthed, RejectedInTheClear, OpenSessionIsReachable,
       Fresh, Attaching, Serving

\* The types, and where a handle may be, are kept by every step.
LEMMA TypeStep ==
  ASSUME IInv, [Next]_vars
  PROVE  TypeOK'
<1> USE DEF IInv, TypeOK, Serving
<1>1. ASSUME NEW c \in Conn, OnConnect(c) PROVE TypeOK'
  BY <1>1 DEF OnConnect
<1>2. ASSUME NEW c \in Conn, OnData(c) PROVE TypeOK'
  BY <1>2 DEF OnData
<1>3. ASSUME NEW c \in Conn, OnClose(c) PROVE TypeOK'
  BY <1>3 DEF OnClose
<1>4. ASSUME NEW c \in Conn, Busy(c) PROVE TypeOK'
  <2>1. CASE NeedMore(c)
    BY <2>1 DEF NeedMore
  <2>2. CASE BadFrame(c)
    BY <2>2 DEF BadFrame
  <2>3. CASE Greeting(c)
    BY <2>3 DEF Greeting
  <2>4. CASE AuthSession(c)
    BY <2>4 DEF AuthSession, BeginAttach, RejectAuth
  <2>5. CASE AttachFails(c)
    BY <2>5 DEF AttachFails, RejectAuth
  <2>6. CASE AddSession(c)
    BY <2>6 DEF AddSession
  <2>7. CASE Register(c)
    BY <2>7 DEF Register
  <2>8. CASE Find(c)
    BY <2>8 DEF Find
  <2>9. CASE UseTarget(c)
    BY <2>9 DEF UseTarget
  <2>10. CASE Detach(c)
    BY <2>10 DEF Detach
  <2>11. CASE KickTarget(c)
    BY <2>11 DEF KickTarget
  <2>12. QED
    BY <1>4, <2>1, <2>2, <2>3, <2>4, <2>5, <2>6, <2>7, <2>8, <2>9, <2>10, <2>11 DEF Busy
<1>5. ASSUME NEW c \in Conn, WorldThread(c) \/ KickPlayer(c) \/ Replace(c) PROVE TypeOK'
  <2>1. CASE Pop(c)
    BY <2>1 DEF Pop
  <2>2. CASE Refuse(c)
    BY <2>2 DEF Refuse, Delete
  <2>3. CASE Reap(c)
    BY <2>3 DEF Reap, Delete
  <2>4. CASE KickPlayer(c)
    BY <2>4 DEF KickPlayer
  <2>5. CASE Replace(c)
    BY <2>5 DEF Replace, Delete
  <2>6. QED
    BY <1>5, <2>1, <2>2, <2>3, <2>4, <2>5 DEF WorldThread
<1>6. CASE UNCHANGED vars
  BY <1>6 DEF vars
<1>7. QED
  BY <1>1, <1>2, <1>3, <1>4, <1>5, <1>6 DEF Next

\* What the other parts of the invariant say of one connection.
Sound(c) ==
  /\ ses[c] \in {"queued", "live"} => crypt[c] /\ connState[c] = "authed"
  /\ rejected[c] => ~crypt[c] /\ ses[c] \in {"none", "deleted"}
  /\ ses[c] \in {"queued", "live"} /\ ~closed[c] /\ npc[c] # "register"
       => handle[c] /\ c \in registry
  /\ Fresh(c) /\ Attaching(c) /\ Serving(c)

LEMMA SoundIsInv ==
  IInv <=> TypeOK /\ \A c \in Conn : Sound(c)
BY DEF IInv, Sound, PublishedIsAuthed, RejectedInTheClear, OpenSessionIsReachable

\* A step of one connection changes nothing of the others.
Same(d) ==
  /\ net'[d] = net[d] /\ npc'[d] = npc[d] /\ connState'[d] = connState[d]
  /\ crypt'[d] = crypt[d] /\ closed'[d] = closed[d] /\ handle'[d] = handle[d]
  /\ rejected'[d] = rejected[d] /\ ses'[d] = ses[d]
  /\ d \in registry' <=> d \in registry

Step(c) ==
  \/ OnConnect(c) \/ OnData(c) \/ OnClose(c) \/ Busy(c)
  \/ WorldThread(c) \/ KickPlayer(c) \/ Replace(c)

LEMMA OthersSame ==
  ASSUME TypeOK, NEW c \in Conn, Step(c), NEW d \in Conn, d # c
  PROVE  Same(d)
<1> USE DEF TypeOK, Same
<1>1. CASE OnConnect(c) \/ OnData(c) \/ OnClose(c)
  BY <1>1 DEF OnConnect, OnData, OnClose
<1>2. CASE NeedMore(c) \/ BadFrame(c) \/ Greeting(c) \/ AuthSession(c)
  BY <1>2 DEF NeedMore, BadFrame, Greeting, AuthSession, BeginAttach, RejectAuth
<1>3. CASE AttachFails(c) \/ AddSession(c) \/ Register(c)
  BY <1>3 DEF AttachFails, RejectAuth, AddSession, Register
<1>4. CASE Find(c) \/ UseTarget(c) \/ Detach(c) \/ KickTarget(c)
  BY <1>4 DEF Find, UseTarget, Detach, KickTarget
<1>5. CASE WorldThread(c) \/ KickPlayer(c) \/ Replace(c)
  BY <1>5 DEF WorldThread, Pop, Refuse, Reap, KickPlayer, Replace, Delete
<1>6. QED
  BY <1>1, <1>2, <1>3, <1>4, <1>5 DEF Step, Busy

\* A connection that takes a step stays sound.
LEMMA SoundStep ==
  ASSUME TypeOK, NEW c \in Conn, Sound(c), Step(c)
  PROVE  Sound(c)'
<1> USE DEF TypeOK, Sound, Fresh, Attaching, Serving
<1>1. CASE OnConnect(c) \/ OnData(c) \/ OnClose(c)
  BY <1>1 DEF OnConnect, OnData, OnClose
<1>2. CASE NeedMore(c) \/ BadFrame(c) \/ Greeting(c)
  BY <1>2 DEF NeedMore, BadFrame, Greeting
<1>3. CASE AuthSession(c)
  BY <1>3 DEF AuthSession, AuthIsLegal, BeginAttach, RejectAuth
<1>4. CASE AttachFails(c)
  BY <1>4 DEF AttachFails, RejectAuth
<1>5. CASE AddSession(c)
  BY <1>5 DEF AddSession
<1>6. CASE Register(c)
  BY <1>6 DEF Register
<1>7. CASE Find(c) \/ UseTarget(c)
  BY <1>7 DEF Find, UseTarget
<1>8. CASE Detach(c) \/ KickTarget(c)
  BY <1>8 DEF Detach, KickTarget
<1>9. CASE WorldThread(c) \/ KickPlayer(c) \/ Replace(c)
  BY <1>9 DEF WorldThread, Pop, Refuse, Reap, KickPlayer, Replace, Delete
<1>10. QED
  BY <1>1, <1>2, <1>3, <1>4, <1>5, <1>6, <1>7, <1>8, <1>9 DEF Step, Busy

LEMMA InvStep == IInv /\ [Next]_vars => IInv'
<1> SUFFICES ASSUME IInv, [Next]_vars PROVE IInv'
  OBVIOUS
<1>1. TypeOK /\ TypeOK' /\ \A d \in Conn : Sound(d)
  BY TypeStep, SoundIsInv
<1>2. ASSUME NEW d \in Conn PROVE Sound(d)'
  <2>1. ASSUME NEW c \in Conn, Step(c) PROVE Sound(d)'
    <3>1. CASE d = c
      BY <1>1, <2>1, <3>1, SoundStep
    <3>2. CASE d # c
      BY <1>1, <2>1, <3>2, OthersSame DEF Same, Sound, Fresh, Attaching, Serving
    <3>3. QED
      BY <3>1, <3>2
  <2>2. CASE UNCHANGED vars
    BY <1>1, <2>2 DEF vars, Sound, Fresh, Attaching, Serving
  <2>3. QED
    BY <2>1, <2>2 DEF Next, Step
<1>3. QED
  BY <1>1, <1>2 DEF IInv, Sound, PublishedIsAuthed, RejectedInTheClear, OpenSessionIsReachable

\* The invariant holds in every reachable state.
THEOREM Invariance == Spec => []IInv
<1>1. Init => IInv
  BY InvInit
<1>2. IInv /\ [Next]_vars => IInv'
  BY InvStep
<1>3. QED
  BY <1>1, <1>2, PTL DEF Spec

-----------------------------------------------------------------------------
\* Type correctness, and no handle outlives its transport connection except
\* while onClose gives it back.
THEOREM TypeCorrect == Spec => []TypeOK
<1>1. IInv => TypeOK
  BY DEF IInv
<1>2. QED
  BY <1>1, Invariance, PTL

\* World::AddSession publishes a session only together with its crypt: the
\* world thread never sees one whose connection does not encrypt.
THEOREM PublishedIsAuthedHolds == Spec => []PublishedIsAuthed
<1>1. IInv => PublishedIsAuthed
  BY DEF IInv
<1>2. QED
  BY <1>1, Invariance, PTL

\* RejectAuth always answers in the clear and never about a published session.
THEOREM RejectedInTheClearHolds == Spec => []RejectedInTheClear
<1>1. IInv => RejectedInTheClear
  BY DEF IInv
<1>2. QED
  BY <1>1, Invariance, PTL

\* From the end of Attach on, a published session with an open link is in the
\* registry under its connection's handle.
THEOREM OpenSessionIsReachableHolds == Spec => []OpenSessionIsReachable
<1>1. IInv => OpenSessionIsReachable
  BY DEF IInv
<1>2. QED
  BY <1>1, Invariance, PTL

\* HandleAuthSession makes a second session for no connection, whatever the
\* order of frames.
THEOREM OneSessionPerConnectionHolds == Spec => OneSessionPerConnection
<1> DEFINE One == \A c \in Conn : ses'[c] = "new" => ses[c] \in {"none", "new"}
<1>1. ASSUME IInv, [Next]_vars PROVE One
  <2> SUFFICES ASSUME NEW d \in Conn, ses'[d] = "new" PROVE ses[d] \in {"none", "new"}
    OBVIOUS
  <2>1. ASSUME NEW c \in Conn, AuthSession(c) PROVE ses[d] \in {"none", "new"}
    BY <1>1, <2>1 DEF IInv, TypeOK, Fresh, AuthSession, AuthIsLegal, BeginAttach, RejectAuth
  <2>2. ASSUME NEW c \in Conn, Step(c), ~AuthSession(c) PROVE ses[d] \in {"none", "new"}
    BY <1>1, <2>2 DEF IInv, TypeOK, Step, Busy, OnConnect, OnData, OnClose, NeedMore, BadFrame,
      Greeting, AttachFails, RejectAuth, AddSession, Register, Find, UseTarget, Detach, KickTarget,
      WorldThread, Pop, Refuse, Reap, KickPlayer, Replace, Delete
  <2>3. CASE UNCHANGED vars
    BY <2>3 DEF vars
  <2>4. QED
    BY <1>1, <2>1, <2>2, <2>3 DEF Next, Step
<1>2. IInv /\ [Next]_vars => [One]_vars
  BY <1>1
<1>3. QED
  BY <1>2, Invariance, PTL DEF Spec, OneSessionPerConnection
==============================================================================
