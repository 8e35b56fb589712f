---------------------------- MODULE CharacterLogin ----------------------------
(***************************************************************************)
(* Entering and leaving the world with a character                         *)
(* (game/WorldHandlers/CharacterHandler.cpp, WorldSession::LogoutPlayer),  *)
(* on top of the session table of LoginQueue.                              *)
(*                                                                         *)
(* A login is asynchronous: the session marks itself as loading and hands  *)
(* a query to the database thread; World::UpdateResultQueue runs the       *)
(* callback ticks later, for whatever session the account has by then.     *)
(***************************************************************************)
EXTENDS LoginQueue

CONSTANTS Char,       \* characters
          NoChar,     \* GetPlayer() == NULL
          Owner,      \* the account column of the characters table
          MaxPending  \* bound: login queries in flight

ASSUME CharAssumption == NoChar \notin Char /\ Owner \in [Char -> Account]

ASSUME PendingAssumption == MaxPending \in Nat \ {0}

VARIABLES
  pending, \* LoginQueryHolders in the database thread and its result queue
  player,  \* WorldSession::_player
  copies   \* Player objects of each character in the world; 2 is "several"

loginVars == <<pending, player, copies>>

charVars == <<vars, loginVars>>

Several == 2

CharInit ==
  /\ Init
  /\ pending = <<>>
  /\ player = [s \in Sess |-> NoChar]
  /\ copies = [c \in Char |-> 0]

-----------------------------------------------------------------------------
\* Faulty variants of the definitions that follow, each a bug this code could
\* have; no run of this specification takes them.

\* STATUS_AUTHED opcodes are executed while the session waits in the queue.
MayLogInFromQueue(s) == linked[s] /\ ~loading[s] /\ player[s] = NoChar

\* LoadFromDB takes the account of the character for granted.
MayLoadAny(a, c) == TRUE

\* HandlePlayerLogin forgets m_playerLoading once the character is in the world.
EnterKeepsLoading(s, c) ==
  /\ player' = [player EXCEPT ![s] = c]
  /\ copies' = [copies EXCEPT ![c] = IF @ = Several THEN @ ELSE @ + 1]
  /\ UNCHANGED <<loading, linked>>

\* The session keeps the pointer to the player it has logged out.
LogoutKeepsPlayer(S) ==
  /\ copies' = [c \in Char |-> copies[c] - Cardinality({s \in S : player[s] = c})]
  /\ UNCHANGED player

\* A session is deleted without logging its player out.
LogoutForgotten(S) == UNCHANGED <<player, copies>>

-----------------------------------------------------------------------------
\* LogoutPlayer for the sessions of S that have a player: it is taken out of
\* the world and forgotten.
LogoutPlayer(S) ==
  /\ player' = [s \in Sess |-> IF s \in S THEN NoChar ELSE player[s]]
  /\ copies' = [c \in Char |-> copies[c] - Cardinality({s \in S : player[s] = c})]

\* HandlePlayerLoginOpcode: PlayerLoading() and GetPlayer() turn a second
\* request away; m_inQueue keeps the opcode from its handler.
MayLogIn(s) == linked[s] /\ ~inQueue[s] /\ ~loading[s] /\ player[s] = NoChar

LoginOpcode(s, c) ==
  /\ Entered(s)
  /\ MayLogIn(s)
  /\ Len(pending) < MaxPending
  /\ loading' = [loading EXCEPT ![s] = TRUE]
  /\ pending' = Append(pending, [account |-> account[s], char |-> c])
  /\ UNCHANGED <<sessions, addQueue, queued, playerLimit, account, linked, inQueue, told,
                 player, copies>>

\* LoadFromDB refuses a character of another account.
MayLoad(a, c) == Owner[c] = a

FailedLoad(s) ==
  /\ loading' = [loading EXCEPT ![s] = FALSE]
  /\ linked' = [linked EXCEPT ![s] = FALSE]
  /\ UNCHANGED <<player, copies>>

\* SetPlayer and Map::Add, without a look at the player the session may have.
EnterWorld(s, c) ==
  /\ loading' = [loading EXCEPT ![s] = FALSE]
  /\ player' = [player EXCEPT ![s] = c]
  /\ copies' = [copies EXCEPT ![c] = IF @ = Several THEN @ ELSE @ + 1]
  /\ UNCHANGED linked

\* HandlePlayerLoginCallback on the oldest result; a load may also fail for
\* reasons of the database.
LoginCallback ==
  /\ pending # <<>>
  /\ pending' = Tail(pending)
  /\ LET request == Head(pending)
         s == sessions[request.account]
     IN \/ /\ s = NoSess
           /\ UNCHANGED <<loading, linked, player, copies>>
        \/ s # NoSess /\ FailedLoad(s)
        \/ /\ s # NoSess
           /\ MayLoad(request.account, request.char)
           /\ EnterWorld(s, request.char)
  /\ UNCHANGED <<sessions, addQueue, queued, playerLimit, account, inQueue, told>>

\* CMSG_LOGOUT_REQUEST, at once or when the 20 seconds are over.
Logout(s) ==
  /\ linked[s]
  /\ player[s] # NoChar
  /\ LogoutPlayer({s})
  /\ UNCHANGED <<vars, pending>>

\* AddSession_ on the oldest new session; a session it replaces is deleted,
\* which logs its player out.
TakeNewSession ==
  /\ \/ RefuseNewcomer /\ UNCHANGED <<player, copies>>
     \/ EnterNewSession /\ UNCHANGED <<player, copies>>
     \/ ReplaceSession /\ LogoutPlayer({sessions[account[Head(addQueue)]]})
  /\ UNCHANGED pending

\* UpdateSessions removes a session whose link is down: Update logs its player
\* out first.
RemoveEntered(a) ==
  /\ RemoveDead(a)
  /\ LogoutPlayer({sessions[a]})
  /\ UNCHANGED pending

\* The rest of the session table does not touch players.
TableStep ==
  /\ \/ KickAll
     \/ \E s \in Sess, a \in Account : AddSession(s, a)
     \/ \E s \in Sess : CloseLink(s)
     \/ \E n \in NewLimit : SetPlayerLimit(n)
  /\ UNCHANGED loginVars

CharNext ==
  \/ \E s \in Sess, c \in Char : LoginOpcode(s, c)
  \/ LoginCallback
  \/ \E s \in Sess : Logout(s)
  \/ TakeNewSession
  \/ \E a \in Account : RemoveEntered(a)
  \/ TableStep

\* The database thread works, World::Update handles results every tick, and every
\* UpdateSessions empties m_sessionAddQueue and updates every session.
CharSpec ==
  /\ CharInit
  /\ [][CharNext]_charVars
  /\ WF_charVars(LoginCallback)
  /\ WF_charVars(TakeNewSession)
  /\ \A a \in Account : WF_charVars(RemoveEntered(a))

-----------------------------------------------------------------------------
CharTypeOK ==
  /\ TypeOK
  /\ pending \in Seq([account : Account, char : Char])
  /\ player \in [Sess -> Char \union {NoChar}]
  /\ copies \in [Char -> 0 .. Several]

\* However sessions of the account come and go meanwhile, the character a
\* session plays is in the world and belongs to the session's account, and an
\* object that is no session any more plays none.
PlayerInWorld ==
  \A s \in Sess : player[s] # NoChar =>
    /\ account[s] # NoAccount /\ Owner[player[s]] = account[s]
    /\ copies[player[s]] > 0

\* A login ends, with the character in the world, a kick, or the session gone.
LoginEnds == \A s \in Sess : loading[s] ~> ~loading[s]

\* The session table behaves as LoginQueue says, its fairness included,
\* whatever logins do.
ImplementsLoginQueue == FairSpec

\* WorldSession.cpp: "each account can only have one online character at any
\* given time".
OneCharacterPerAccount ==
  \A c, d \in Char : Owner[c] = Owner[d] /\ copies[c] > 0 /\ copies[d] > 0
    => c = d /\ copies[c] = 1
==============================================================================
