------------------------------ MODULE LoginQueue ------------------------------
(***************************************************************************)
(* The world's session table and its login queue                           *)
(* (game/WorldHandlers/WorldSessionMgr.cpp, World::UpdateSessions).        *)
(*                                                                         *)
(* Network threads push new sessions on m_sessionAddQueue and close links; *)
(* the world thread moves sessions into m_sessions, queues them when the   *)
(* realm is full, replaces the session of an account that logs in again,   *)
(* and deletes sessions whose link is down.  Its steps may come in any     *)
(* order here, which includes the order World::Update takes them in.       *)
(***************************************************************************)
EXTENDS Integers, Sequences, FiniteSets

CONSTANTS Account,   \* accounts
          Staff,     \* the accounts above SEC_PLAYER
          Sess,      \* WorldSession objects; a deleted one may be allocated again
          NoAccount, \* the account of a WorldSession that does not exist
          NoSess,    \* no session
          Limit,     \* values of the PlayerLimit setting
          NewLimit   \* values SetPlayerLimit is called with while the realm runs

ASSUME AccountAssumption ==
  IsFiniteSet(Account) /\ Staff \subseteq Account /\ NoAccount \notin Account

ASSUME SessAssumption == NoSess \notin Sess

ASSUME LimitAssumption == Limit \subseteq Int /\ NewLimit \subseteq Int

VARIABLES
  sessions,    \* World::m_sessions, keyed by account
  addQueue,    \* World::m_sessionAddQueue
  queued,      \* World::m_QueuedSessions
  playerLimit, \* World::m_playerLimit
  account,     \* WorldSession::_accountId, NoAccount when there is no such object
  linked,      \* m_Socket && !m_Socket->IsClosed()
  inQueue,     \* WorldSession::m_inQueue
  loading,     \* WorldSession::m_playerLoading
  told         \* the queue position last sent to the client, 0 for "proceed"

vars == <<sessions, addQueue, queued, playerLimit,
          account, linked, inQueue, loading, told>>

NotTold == -1

-----------------------------------------------------------------------------
Present == {a \in Account : sessions[a] # NoSess}

\* GetActiveSessionCount
ActiveSessions == Cardinality(Present) - Len(queued)

-----------------------------------------------------------------------------
\* Faulty variants of the definitions that follow, each a bug this code could
\* have; no run of this specification takes them (the README explains their
\* use).

\* Only the front of the queue is looked at.
QueuePosFrontOnly(s) == IF queued # <<>> /\ Head(queued) = s THEN 1 ELSE 0

\* erase moves the last waiting session into the gap.
WithoutAtSwapsLast(q, k) == [i \in 1 .. Len(q) - 1 |-> IF i = k THEN q[Len(q)] ELSE q[i]]

\* --sessions is forgotten.
TakenCountsDeparted(found) == ActiveSessions

\* sessions <= m_playerLimit.
HasFreeSlotOneTooMany(taken) == playerLimit = 0 \/ taken <= playerLimit

\* The admitted session stays flagged as queued.
ReleasedKeepsFlag(s, found, admit, rest) == IF found THEN {s} ELSE {}

\* "iter" and "position" are not reset after the pop.
FirstToTellKeepsPosition(k, admit, rest) == IF k # 0 THEN k ELSE Len(rest) + 1

\* A session that waits in the queue is not removed.
DeadUnlessQueued(a) ==
  sessions[a] # NoSess /\ ~linked[sessions[a]] /\ ~inQueue[sessions[a]]

-----------------------------------------------------------------------------
\* GetQueuedSessionPos
QueuePos(s) == IF \E i \in DOMAIN queued : queued[i] = s
               THEN CHOOSE i \in DOMAIN queued : queued[i] = s
               ELSE 0

WithoutAt(q, k) == [i \in 1 .. Len(q) - 1 |-> IF i < k THEN q[i] ELSE q[i + 1]]

\* SendAuthWaitQue(position) to the sessions of q from position "from" on.
Retell(q, from, heard) ==
  [s \in Sess |-> IF \E i \in from .. Len(q) : q[i] = s
                  THEN CHOOSE i \in from .. Len(q) : q[i] = s
                  ELSE heard[s]]

\* What the queue, m_inQueue and the clients' knowledge are when no session
\* left the queue.
NothingRemoved ==
  [found |-> FALSE, queue |-> queued, flag |-> inQueue, heard |-> told]

Init ==
  /\ sessions = [a \in Account |-> NoSess]
  /\ addQueue = <<>>
  /\ queued = <<>>
  /\ playerLimit \in Limit
  /\ account = [s \in Sess |-> NoAccount]
  /\ linked = [s \in Sess |-> FALSE]
  /\ inQueue = [s \in Sess |-> FALSE]
  /\ loading = [s \in Sess |-> FALSE]
  /\ told = [s \in Sess |-> NotTold]

-----------------------------------------------------------------------------
\* RemoveQueuedSession(s): take s out of the queue if it is there, admit the
\* first in the queue if a slot is free now, and tell the sessions that moved.

\* The slots taken once s is gone: a session that was not queued had one.
Taken(found) ==
  IF found \/ ActiveSessions = 0 THEN ActiveSessions ELSE ActiveSessions - 1

HasFreeSlot(taken) == playerLimit = 0 \/ taken < playerLimit

\* The sessions whose m_inQueue is cleared: s if it was found, and the one
\* admitted from "rest", the queue without s.
Released(s, found, admit, rest) ==
  (IF found THEN {s} ELSE {}) \union (IF admit THEN {Head(rest)} ELSE {})

\* The first position that changes: all of them do when one is admitted.
FirstToTell(k, admit, rest) == IF admit THEN 1 ELSE IF k # 0 THEN k ELSE Len(rest) + 1

RemoveQueuedSession(s) ==
  LET k     == QueuePos(s)
      found == k # 0
      rest  == IF found THEN WithoutAt(queued, k) ELSE queued
      admit == HasFreeSlot(Taken(found)) /\ rest # <<>>
      moved == IF admit THEN Tail(rest) ELSE rest
      ready == [t \in Sess |-> IF admit /\ t = Head(rest) THEN 0 ELSE told[t]]
  IN [found |-> found,
      queue |-> moved,
      flag  |-> [t \in Sess |-> inQueue[t] /\ t \notin Released(s, found, admit, rest)],
      heard |-> Retell(moved, FirstToTell(k, admit, rest), ready)]

\* The sessions a newcomer of a is compared with.  An account that comes back to
\* its place in the queue counts itself.
OtherSessions(a, r) == Cardinality(Present \union {a}) - (IF r.found THEN 0 ELSE 1)

\* The tail of AddSession_: with r what RemoveQueuedSession left, s is queued
\* if the realm is full for players, and accepted otherwise.
Enter(s, r) ==
  LET a    == account[s]
      wait == playerLimit > 0 /\ OtherSessions(a, r) >= playerLimit /\ a \notin Staff
  IN /\ sessions' = [sessions EXCEPT ![a] = s]
     /\ queued' = IF wait THEN Append(r.queue, s) ELSE r.queue
     /\ inQueue' = IF wait THEN [r.flag EXCEPT ![s] = TRUE] ELSE r.flag
     /\ told' = [r.heard EXCEPT ![s] = IF wait THEN Len(r.queue) + 1 ELSE 0]

\* delete session: ~WorldSession closes the link it still has.  The fields of an
\* object that does not exist have the values they are constructed with.
Delete(s) ==
  /\ account' = [account EXCEPT ![s] = NoAccount]
  /\ linked' = [linked EXCEPT ![s] = FALSE]
  /\ loading' = [loading EXCEPT ![s] = FALSE]

Forget(r, s) ==
  [found |-> r.found,
   queue |-> r.queue,
   flag  |-> [r.flag EXCEPT ![s] = FALSE],
   heard |-> [r.heard EXCEPT ![s] = NotTold]]

-----------------------------------------------------------------------------
\* Network threads

\* World::AddSession, with the session the handshake has just constructed.
AddSession(s, a) ==
  /\ account[s] = NoAccount
  /\ account' = [account EXCEPT ![s] = a]
  /\ linked' = [linked EXCEPT ![s] = TRUE]
  /\ addQueue' = Append(addQueue, s)
  /\ UNCHANGED <<sessions, queued, playerLimit, inQueue, loading, told>>

\* The link goes down: the peer left, a ban, a refused packet (KickPlayer).
CloseLink(s) ==
  /\ account[s] # NoAccount
  /\ linked[s]
  /\ linked' = [linked EXCEPT ![s] = FALSE]
  /\ UNCHANGED <<sessions, addQueue, queued, playerLimit, account, inQueue, loading, told>>

-----------------------------------------------------------------------------
\* World thread: AddSession_ on the oldest session of m_sessionAddQueue

\* RemoveSession refuses while the session is loading a character.
MayReplace(old) == ~loading[old]

\* The newcomer is turned away.
RefuseNewcomer ==
  /\ addQueue # <<>>
  /\ LET s == Head(addQueue)
         old == sessions[account[s]]
     IN /\ old # NoSess
        /\ ~MayReplace(old)
        /\ Delete(s)
  /\ addQueue' = Tail(addQueue)
  /\ UNCHANGED <<sessions, queued, playerLimit, inQueue, told>>

\* The account has a session already: it is kicked, taken out of the queue and
\* deleted, and the newcomer takes its entry in m_sessions.
ReplaceSession ==
  /\ addQueue # <<>>
  /\ LET s == Head(addQueue)
         old == sessions[account[s]]
     IN /\ old # NoSess
        /\ MayReplace(old)
        /\ Enter(s, Forget(RemoveQueuedSession(old), old))
        /\ Delete(old)
  /\ addQueue' = Tail(addQueue)
  /\ UNCHANGED playerLimit

EnterNewSession ==
  /\ addQueue # <<>>
  /\ LET s == Head(addQueue)
     IN /\ sessions[account[s]] = NoSess
        /\ Enter(s, NothingRemoved)
  /\ addQueue' = Tail(addQueue)
  /\ UNCHANGED <<playerLimit, account, linked, loading>>

-----------------------------------------------------------------------------
\* World thread: the rest

\* WorldSession::Update returns false once the link is down, also for a session
\* that is loading a character ...
Dead(a) == sessions[a] # NoSess /\ ~linked[sessions[a]]

\* ... and UpdateSessions removes the session.
RemoveDead(a) ==
  LET s == sessions[a]
      r == Forget(RemoveQueuedSession(s), s)
  IN /\ Dead(a)
     /\ queued' = r.queue
     /\ inQueue' = r.flag
     /\ told' = r.heard
     /\ sessions' = [sessions EXCEPT ![a] = NoSess]
     /\ Delete(s)
     /\ UNCHANGED <<addQueue, playerLimit>>

\* CMSG_PLAYER_LOGIN is a STATUS_AUTHED opcode: refused while in the queue.
BeginLoading(s) ==
  /\ \E a \in Account : sessions[a] = s
  /\ linked[s] /\ ~inQueue[s] /\ ~loading[s]
  /\ loading' = [loading EXCEPT ![s] = TRUE]
  /\ UNCHANGED <<sessions, addQueue, queued, playerLimit, account, linked, inQueue, told>>

\* The login callback: it found the account's session, whatever that is doing,
\* and either puts a character in the world or kicks the session.
EndLoading(s) ==
  /\ \E a \in Account : sessions[a] = s
  /\ loading' = [loading EXCEPT ![s] = FALSE]
  /\ \E loaded \in BOOLEAN : linked' = [linked EXCEPT ![s] = @ /\ loaded]
  /\ UNCHANGED <<sessions, addQueue, queued, playerLimit, account, inQueue, told>>

\* Shutdown: the queue is forgotten, m_inQueue is not, and every link closed.
KickAll ==
  /\ queued' = <<>>
  /\ linked' = [s \in Sess |-> linked[s] /\ \A a \in Account : sessions[a] # s]
  /\ UNCHANGED <<sessions, addQueue, playerLimit, account, inQueue, loading, told>>

SetPlayerLimit(n) ==
  /\ playerLimit' = n
  /\ UNCHANGED <<sessions, addQueue, queued, account, linked, inQueue, loading, told>>

-----------------------------------------------------------------------------
WorldThread ==
  \/ RefuseNewcomer \/ ReplaceSession \/ EnterNewSession
  \/ \E a \in Account : RemoveDead(a)

Next ==
  \/ WorldThread
  \/ \E s \in Sess, a \in Account : AddSession(s, a)
  \/ \E s \in Sess : CloseLink(s) \/ BeginLoading(s) \/ EndLoading(s)
  \/ KickAll
  \/ \E n \in NewLimit : SetPlayerLimit(n)

Spec == Init /\ [][Next]_vars

\* Every UpdateSessions empties m_sessionAddQueue and updates every session.
FairSpec ==
  /\ Spec
  /\ WF_vars(RefuseNewcomer \/ ReplaceSession \/ EnterNewSession)
  /\ \A a \in Account : WF_vars(RemoveDead(a))

-----------------------------------------------------------------------------
Queued(s) == \E i \in DOMAIN queued : queued[i] = s

Entered(s) == \E a \in Account : sessions[a] = s

Players == {a \in Present \ Staff : linked[sessions[a]] /\ ~inQueue[sessions[a]]}

TypeOK ==
  /\ sessions \in [Account -> Sess \union {NoSess}]
  /\ addQueue \in Seq(Sess)
  /\ queued \in Seq(Sess)
  /\ playerLimit \in Int
  /\ account \in [Sess -> Account \union {NoAccount}]
  /\ linked \in [Sess -> BOOLEAN]
  /\ inQueue \in [Sess -> BOOLEAN]
  /\ loading \in [Sess -> BOOLEAN]
  /\ told \in [Sess -> Nat \union {NotTold}]
  /\ ActiveSessions \in Nat  \* an unsigned subtraction

\* The raw WorldSession pointers in m_sessions and in m_QueuedSessions are
\* live, the queue holds only sessions of m_sessions, and none twice, although
\* sessions are deleted on three different paths.
NoDanglingSession ==
  /\ \A a \in Present : account[sessions[a]] = a
  /\ \A i \in DOMAIN addQueue : account[addQueue[i]] # NoAccount
  /\ \A i \in DOMAIN queued : Entered(queued[i])
  /\ \A i, j \in DOMAIN queued : i # j => queued[i] # queued[j]

\* m_inQueue, which gates the client's opcodes, agrees with membership of the
\* queue for every session whose client is still there.
FlagMatchesQueue ==
  \A s \in Sess : Entered(s) /\ linked[s] => (inQueue[s] <=> Queued(s))

\* Every waiting client knows its actual position, and every client that may
\* proceed has been told so, whichever sessions ahead of it left.
PositionsTold ==
  \A s \in Sess : Entered(s) /\ linked[s] => told[s] = QueuePos(s)

\* Nobody waits beside a free slot, and the players admitted are no more than the
\* limit (staff come on top) ...
NoIdle == queued # <<>> => playerLimit > 0 /\ ActiveSessions >= playerLimit

Within == playerLimit > 0 => Cardinality(Players) <= playerLimit

\* ... and only a change of the limit alters either: no login, reconnect or
\* departure, whatever session of whatever account it concerns, leaves a slot idle
\* or overfills the realm.
SlotsFollowLimit ==
  [][playerLimit' = playerLimit => (NoIdle => NoIdle') /\ (Within => Within')]_vars

\* A client that keeps waiting never falls behind one it was ahead of, and is
\* not passed over: whoever was behind it stays in the queue or leaves the
\* world.
QueueIsFifo ==
  [][\A i, j \in DOMAIN queued :
       i < j /\ (\E k \in DOMAIN queued' : queued'[k] = queued[i]) /\ account'[queued[j]] # NoAccount
         => \E k, l \in DOMAIN queued' :
              k < l /\ queued'[k] = queued[i] /\ queued'[l] = queued[j]]_vars

\* A session whose link is down is deleted in the end, wherever it stood.
DeadSessionsGo ==
  \A s \in Sess : account[s] # NoAccount /\ ~linked[s] ~> account[s] = NoAccount
==============================================================================
