------------------------ MODULE CharacterLoginProofs -------------------------
(***************************************************************************)
(* Logging in with a character, for any number of accounts, sessions,      *)
(* characters and queries in flight.                                       *)
(*                                                                         *)
(* Every step is one of the session table's or leaves it alone, so its     *)
(* invariant holds here as well.  Over it, a session that plays is in      *)
(* m_sessions: two of them have different accounts, therefore different    *)
(* characters, and deleting one does not take the other's character out    *)
(* of the world.                                                           *)
(***************************************************************************)
EXTENDS CharacterLogin, LoginQueueProofs

\* The types of what a login adds to the session table.
LoginTypes ==
  /\ pending \in Seq([account : Account, char : Char])
  /\ player \in [Sess -> Char \union {NoChar}]
  /\ copies \in [Char -> 0 .. Several]

\* A session that plays is in m_sessions, with a character of its account that
\* is in the world.
Playing ==
  \A s \in Sess : player[s] # NoChar =>
    /\ Entered(s)
    /\ Owner[player[s]] = account[s]
    /\ copies[player[s]] > 0

LoginInv == LoginTypes /\ Playing

CharInv == IInv /\ LoginInv

-----------------------------------------------------------------------------
(* The session table                                                         *)

LEMMA CallbackIsTableStep ==
  ASSUME IInv, LoginTypes, LoginCallback
  PROVE  [Next]_vars
<1>1. /\ pending # <<>>
      /\ UNCHANGED <<sessions, addQueue, queued, playerLimit, account, inQueue, told>>
  BY DEF LoginCallback
<1>2. PICK s : /\ s = sessions[Head(pending).account]
               /\ \/ s = NoSess /\ UNCHANGED <<loading, linked>>
                  \/ s # NoSess /\ FailedLoad(s)
                  \/ s # NoSess /\ \E c : EnterWorld(s, c)
  BY DEF LoginCallback
<1>3. Head(pending).account \in Account
  <2>1. Head(pending) \in [account : Account, char : Char]
    BY <1>1, HeadTailProperties DEF LoginTypes
  <2>2. QED
    BY <2>1
<1>4. CASE s = NoSess
  BY <1>1, <1>2, <1>4 DEF vars, FailedLoad, EnterWorld
<1>5. CASE s # NoSess
  <2>1. s \in Sess /\ Entered(s)
    BY <1>2, <1>3, <1>5 DEF IInv, Types, Entered
  <2>2. linked \in [Sess -> BOOLEAN]
    BY DEF IInv, Types
  <2>3. loading' = [loading EXCEPT ![s] = FALSE]
    BY <1>2, <1>5 DEF FailedLoad, EnterWorld
  <2>4. PICK loaded \in BOOLEAN : linked' = IF loaded THEN linked ELSE [linked EXCEPT ![s] = FALSE]
    BY <1>2, <1>5 DEF FailedLoad, EnterWorld
  <2>5. linked' = [linked EXCEPT ![s] = @ /\ loaded]
    <3>1. CASE loaded
      BY <2>1, <2>2, <2>4, <3>1
    <3>2. CASE ~loaded
      BY <2>1, <2>2, <2>4, <3>2
    <3>3. QED
      BY <3>1, <3>2
  <2>6. EndLoading(s)
    BY <1>1, <2>1, <2>3, <2>5 DEF EndLoading, Entered
  <2>7. QED
    BY <2>1, <2>6 DEF Next
<1>6. QED
  BY <1>4, <1>5

\* Whatever a login does to the table, a step of LoginQueue does.
LEMMA IsTableStep ==
  ASSUME IInv, LoginTypes, [CharNext]_charVars
  PROVE  [Next]_vars
<1>1. ASSUME NEW s \in Sess, NEW c \in Char, LoginOpcode(s, c) PROVE [Next]_vars
  <2>1. BeginLoading(s)
    BY <1>1 DEF LoginOpcode, MayLogIn, BeginLoading, Entered
  <2>2. QED
    BY <2>1 DEF Next
<1>2. CASE LoginCallback
  BY <1>2, CallbackIsTableStep
<1>3. ASSUME NEW s \in Sess, Logout(s) PROVE [Next]_vars
  BY <1>3 DEF Logout
<1>4. CASE TakeNewSession
  BY <1>4 DEF TakeNewSession, Next, WorldThread
<1>5. ASSUME NEW a \in Account, RemoveEntered(a) PROVE [Next]_vars
  BY <1>5 DEF RemoveEntered, Next, WorldThread
<1>6. CASE TableStep
  BY <1>6 DEF TableStep, Next
<1>7. CASE UNCHANGED charVars
  BY <1>7 DEF charVars
<1>8. QED
  BY <1>1, <1>2, <1>3, <1>4, <1>5, <1>6, <1>7 DEF CharNext

-----------------------------------------------------------------------------
(* Who plays                                                                 *)

\* Two sessions of m_sessions do not play the same character.
LEMMA PlayersDiffer ==
  ASSUME IInv, Playing, NEW s \in Sess, NEW t \in Sess, s # t,
         player[s] # NoChar, player[t] # NoChar
  PROVE  player[s] # player[t]
<1> SUFFICES ASSUME player[s] = player[t] PROVE FALSE
  OBVIOUS
<1>1. Entered(s) /\ Entered(t) /\ account[s] = account[t]
  BY DEF Playing
<1>2. PICK a \in Account : sessions[a] = s
  BY <1>1 DEF Entered
<1>3. PICK b \in Account : sessions[b] = t
  BY <1>1 DEF Entered
<1>4. account[s] = a /\ account[t] = b
  BY <1>2, <1>3, SessAssumption DEF IInv, Filed
<1>5. QED
  BY <1>1, <1>2, <1>3, <1>4

\* LogoutPlayer takes the player of one session out of the world and of no other.
LEMMA LoggedOutAlone ==
  ASSUME IInv, LoginInv, NEW old \in Sess, LogoutPlayer({old})
  PROVE  /\ player' \in [Sess -> Char \union {NoChar}]
         /\ copies' \in [Char -> 0 .. Several]
         /\ player'[old] = NoChar
         /\ \A t \in Sess \ {old} :
              /\ player'[t] = player[t]
              /\ player[t] # NoChar => copies'[player[t]] = copies[player[t]]
<1>0. /\ player \in [Sess -> Char \union {NoChar}] /\ copies \in [Char -> 0 .. Several]
      /\ NoChar \notin Char
  BY CharAssumption DEF LoginInv, LoginTypes
<1>1. player' = [s \in Sess |-> IF s = old THEN NoChar ELSE player[s]]
  BY DEF LogoutPlayer
<1>2. \A c \in Char : Cardinality({s \in {old} : player[s] = c}) = IF player[old] = c THEN 1 ELSE 0
  <2> SUFFICES ASSUME NEW c \in Char
               PROVE  Cardinality({s \in {old} : player[s] = c}) = IF player[old] = c THEN 1 ELSE 0
    OBVIOUS
  <2>1. CASE player[old] = c
    <3>1. {s \in {old} : player[s] = c} = {old}
      BY <2>1
    <3>2. QED
      BY <2>1, <3>1, FS_Singleton
  <2>2. CASE player[old] # c
    <3>1. {s \in {old} : player[s] = c} = {}
      BY <2>2
    <3>2. QED
      BY <2>2, <3>1, FS_EmptySet
  <2>3. QED
    BY <2>1, <2>2
<1>3. copies' = [c \in Char |-> copies[c] - Cardinality({s \in {old} : player[s] = c})]
  BY DEF LogoutPlayer
<1>4. \A c \in Char : copies'[c] = IF player[old] = c THEN copies[c] - 1 ELSE copies[c]
  <2> SUFFICES ASSUME NEW c \in Char
               PROVE  copies'[c] = IF player[old] = c THEN copies[c] - 1 ELSE copies[c]
    OBVIOUS
  <2>1. copies'[c] = copies[c] - Cardinality({s \in {old} : player[s] = c}) /\ copies[c] \in Int
    BY <1>0, <1>3 DEF Several
  <2>2. QED
    BY <1>2, <2>1
<1>5. \A c \in Char : copies'[c] \in 0 .. Several
  <2> SUFFICES ASSUME NEW c \in Char PROVE copies'[c] \in 0 .. Several
    OBVIOUS
  <2>1. copies[c] \in 0 .. 2
    BY <1>0 DEF Several
  <2>2. player[old] = c => copies[c] > 0
    BY <1>0 DEF LoginInv, Playing
  <2>3. QED
    BY <1>4, <2>1, <2>2 DEF Several
<1>6. copies' \in [Char -> 0 .. Several]
  BY <1>3, <1>5
<1>7. ASSUME NEW t \in Sess \ {old}, player[t] # NoChar
      PROVE  copies'[player[t]] = copies[player[t]]
  <2>1. player[t] \in Char /\ player[old] # player[t]
    BY <1>0, <1>7, PlayersDiffer DEF LoginInv
  <2>2. QED
    BY <1>4, <2>1
<1>8. QED
  BY <1>0, <1>1, <1>6, <1>7

\* Playing after a step in which the session "old" has no player any more, and the
\* others play on as sessions of the same accounts.
LEMMA PlayOn ==
  ASSUME LoginInv, NEW old,
         \A s \in Sess : s = old => player'[s] = NoChar,
         \A t \in Sess : t # old => player'[t] = player[t],
         \A t \in Sess : t # old /\ player[t] # NoChar =>
           copies'[player[t]] = copies[player[t]] /\ Entered(t)' /\ account'[t] = account[t]
  PROVE  Playing'
BY DEF LoginInv, Playing

\* Steps that change the table but leave every session that plays in it.
LEMMA TableKeeps ==
  ASSUME IInv, LoginInv, UNCHANGED <<player, copies>>, LoginTypes',
         \A t \in Sess : Entered(t) => Entered(t)' /\ account'[t] = account[t]
  PROVE  LoginInv'
<1>1. Playing'
  BY DEF LoginInv, Playing
<1>2. QED
  BY <1>1 DEF LoginInv

-----------------------------------------------------------------------------
(* The steps                                                                 *)

LEMMA OpcodeKeeps ==
  ASSUME IInv, LoginInv, NEW s \in Sess, NEW c \in Char, LoginOpcode(s, c)
  PROVE  LoginInv'
<1>1. UNCHANGED <<sessions, account, player, copies>>
  BY DEF LoginOpcode
<1>2. account[s] \in Account
  BY SessAssumption DEF LoginOpcode, Entered, IInv, Filed, Types
<1>3. pending' \in Seq([account : Account, char : Char])
  <2>1. pending' = Append(pending, [account |-> account[s], char |-> c])
    BY DEF LoginOpcode
  <2>2. [account |-> account[s], char |-> c] \in [account : Account, char : Char]
    BY <1>2
  <2>3. QED
    BY <2>1, <2>2, AppendProperties DEF LoginInv, LoginTypes
<1>4. LoginTypes'
  BY <1>1, <1>3 DEF LoginInv, LoginTypes
<1>5. QED
  BY <1>1, <1>4, TableKeeps DEF Entered

LEMMA CallbackKeeps ==
  ASSUME IInv, LoginInv, LoginCallback
  PROVE  LoginInv'
<1>0. /\ pending # <<>> /\ pending' = Tail(pending)
      /\ UNCHANGED <<sessions, account>>
  BY DEF LoginCallback
<1>1. /\ pending' \in Seq([account : Account, char : Char])
      /\ Head(pending) \in [account : Account, char : Char]
  BY <1>0, HeadTailProperties DEF LoginInv, LoginTypes
<1>2. PICK a \in Account, c \in Char : Head(pending).account = a /\ Head(pending).char = c
  BY <1>1
<1>3. CASE UNCHANGED <<player, copies>>
  <2>1. LoginTypes'
    BY <1>1, <1>3 DEF LoginInv, LoginTypes
  <2>2. QED
    BY <1>0, <1>3, <2>1, TableKeeps DEF Entered
<1>4. CASE sessions[a] # NoSess /\ MayLoad(a, c) /\ EnterWorld(sessions[a], c)
  <2>0. PICK s \in Sess : s = sessions[a]
    BY <1>4 DEF IInv, Types
  <2>1. Entered(s) /\ account[s] = a /\ Owner[c] = a
    BY <1>4, <2>0 DEF Entered, IInv, Filed, MayLoad
  <2>2. /\ player' = [player EXCEPT ![s] = c]
        /\ copies' = [copies EXCEPT ![c] = IF @ = Several THEN @ ELSE @ + 1]
    BY <1>4, <2>0 DEF EnterWorld
  <2>3. /\ player \in [Sess -> Char \union {NoChar}] /\ copies \in [Char -> 0 .. Several]
        /\ NoChar \notin Char
    BY CharAssumption DEF LoginInv, LoginTypes
  <2>4. player' \in [Sess -> Char \union {NoChar}]
    BY <2>2, <2>3
  <2>5. copies' \in [Char -> 0 .. Several] /\ copies'[c] > 0
    BY <2>2, <2>3 DEF Several
  <2>6. \A d \in Char : copies[d] > 0 => copies'[d] > 0
    BY <2>2, <2>3, <2>5
  <2>7. Playing'
    <3> SUFFICES ASSUME NEW t \in Sess, player'[t] # NoChar
                 PROVE  /\ Entered(t)' /\ Owner[player'[t]] = account'[t]
                        /\ copies'[player'[t]] > 0
      BY DEF Playing
    <3>1. CASE t = s
      BY <1>0, <2>1, <2>2, <2>3, <2>5, <3>1 DEF Entered
    <3>2. CASE t # s
      <4>1. player'[t] = player[t]
        BY <2>2, <2>3, <3>2
      <4>2. /\ Entered(t) /\ Owner[player[t]] = account[t] /\ copies[player[t]] > 0
            /\ player[t] \in Char
        BY <2>3, <4>1 DEF LoginInv, Playing
      <4>3. QED
        BY <1>0, <2>6, <4>1, <4>2 DEF Entered
    <3>3. QED
      BY <3>1, <3>2
  <2>8. QED
    BY <1>1, <2>4, <2>5, <2>7 DEF LoginInv, LoginTypes
<1>5. QED
  BY <1>2, <1>3, <1>4 DEF LoginCallback, FailedLoad

LEMMA LogoutKeeps ==
  ASSUME IInv, LoginInv, NEW s \in Sess, Logout(s)
  PROVE  LoginInv'
<1>1. LogoutPlayer({s}) /\ UNCHANGED <<pending, sessions, account>>
  BY DEF Logout, vars
<1>2. LoginTypes'
  BY <1>1, LoggedOutAlone DEF LoginInv, LoginTypes
<1>3. \A t \in Sess : Entered(t) => Entered(t)'
  BY <1>1 DEF Entered
<1>4. \A t \in Sess : player[t] # NoChar => Entered(t)
  BY DEF LoginInv, Playing
<1>5. Playing'
  BY <1>1, <1>3, <1>4, LoggedOutAlone, PlayOn
<1>6. QED
  BY <1>2, <1>5 DEF LoginInv

LEMMA TakeKeeps ==
  ASSUME IInv, LoginInv, TakeNewSession
  PROVE  LoginInv'
<1>0. UNCHANGED pending
  BY DEF TakeNewSession
<1>1. PICK s, a : s = Head(addQueue) /\ a = account[s]
  OBVIOUS
<1>2. \A t \in Sess : player[t] # NoChar => Entered(t)
  BY DEF LoginInv, Playing
<1>3. CASE RefuseNewcomer /\ UNCHANGED <<player, copies>>
  <2>1. addQueue # <<>> /\ UNCHANGED sessions /\ account' = [account EXCEPT ![s] = NoAccount]
    BY <1>1, <1>3 DEF RefuseNewcomer, Delete
  <2>2. s \in Sess /\ ~Entered(s)
    BY <1>1, <2>1, HeadFacts
  <2>3. \A t \in Sess : Entered(t) => Entered(t)' /\ account'[t] = account[t]
    BY <2>1, <2>2 DEF Entered, IInv, Types
  <2>4. LoginTypes'
    BY <1>0, <1>3 DEF LoginInv, LoginTypes
  <2>5. QED
    BY <1>3, <2>3, <2>4, TableKeeps
<1>4. CASE EnterNewSession /\ UNCHANGED <<player, copies>>
  <2>1. /\ addQueue # <<>> /\ sessions[a] = NoSess /\ UNCHANGED account
        /\ sessions' = [sessions EXCEPT ![a] = s]
    BY <1>1, <1>4 DEF EnterNewSession, Enter
  <2>2. \A t \in Sess : Entered(t) => Entered(t)' /\ account'[t] = account[t]
    BY <2>1, SessAssumption DEF Entered, IInv, Types
  <2>3. LoginTypes'
    BY <1>0, <1>4 DEF LoginInv, LoginTypes
  <2>4. QED
    BY <1>4, <2>2, <2>3, TableKeeps
<1>5. CASE ReplaceSession /\ LogoutPlayer({sessions[account[Head(addQueue)]]})
  <2>1. PICK old : old = sessions[a]
    OBVIOUS
  <2>2. /\ addQueue # <<>> /\ old # NoSess /\ LogoutPlayer({old})
        /\ sessions' = [sessions EXCEPT ![a] = s]
        /\ account' = [account EXCEPT ![old] = NoAccount]
    BY <1>1, <1>5, <2>1 DEF ReplaceSession, Enter, Delete
  <2>3. a \in Account /\ old \in Sess
    BY <1>1, <2>1, <2>2, HeadFacts DEF IInv, Types
  <2>4. \A t \in Sess : t # old /\ Entered(t) => Entered(t)' /\ account'[t] = account[t]
    BY <2>1, <2>2, <2>3 DEF Entered, IInv, Types
  <2>5. LoginTypes'
    BY <1>0, <2>2, <2>3, LoggedOutAlone DEF LoginInv, LoginTypes
  <2>6. Playing'
    BY <1>2, <2>2, <2>3, <2>4, LoggedOutAlone, PlayOn
  <2>7. QED
    BY <2>5, <2>6 DEF LoginInv
<1>6. QED
  BY <1>3, <1>4, <1>5 DEF TakeNewSession

LEMMA RemoveKeeps ==
  ASSUME IInv, LoginInv, NEW a \in Account, RemoveEntered(a)
  PROVE  LoginInv'
<1>1. PICK old : old = sessions[a]
  OBVIOUS
<1>2. /\ old # NoSess /\ LogoutPlayer({old}) /\ UNCHANGED pending
      /\ sessions' = [sessions EXCEPT ![a] = NoSess]
      /\ account' = [account EXCEPT ![old] = NoAccount]
  BY <1>1 DEF RemoveEntered, RemoveDead, Dead, Delete
<1>3. old \in Sess
  BY <1>1, <1>2 DEF IInv, Types
<1>4. \A t \in Sess : player[t] # NoChar => Entered(t)
  BY DEF LoginInv, Playing
<1>5. \A t \in Sess : t # old /\ Entered(t) => Entered(t)' /\ account'[t] = account[t]
  BY <1>1, <1>2, <1>3 DEF Entered, IInv, Types
<1>6. LoginTypes'
  BY <1>2, <1>3, LoggedOutAlone DEF LoginInv, LoginTypes
<1>7. Playing'
  BY <1>2, <1>3, <1>4, <1>5, LoggedOutAlone, PlayOn
<1>8. QED
  BY <1>6, <1>7 DEF LoginInv

LEMMA TableStepKeeps ==
  ASSUME IInv, LoginInv, TableStep
  PROVE  LoginInv'
<1>1. UNCHANGED loginVars
  BY DEF TableStep
<1>2. LoginTypes'
  BY <1>1 DEF LoginInv, LoginTypes, loginVars
<1>3. CASE UNCHANGED <<sessions, account>>
  BY <1>1, <1>2, <1>3, TableKeeps DEF Entered, loginVars
<1>4. ASSUME NEW s \in Sess, NEW a \in Account, AddSession(s, a) PROVE LoginInv'
  <2>1. account[s] = NoAccount /\ UNCHANGED sessions /\ account' = [account EXCEPT ![s] = a]
    BY <1>4 DEF AddSession
  <2>2. ~Entered(s)
    BY <2>1, AccountAssumption, SessAssumption DEF Entered, IInv, Filed
  <2>3. \A t \in Sess : Entered(t) => Entered(t)' /\ account'[t] = account[t]
    BY <2>1, <2>2 DEF Entered, IInv, Types
  <2>4. QED
    BY <1>1, <1>2, <2>3, TableKeeps DEF loginVars
<1>5. QED
  BY <1>3, <1>4 DEF TableStep, KickAll, CloseLink, SetPlayerLimit

-----------------------------------------------------------------------------
LEMMA CharInvInit == CharInit => CharInv
<1> SUFFICES ASSUME CharInit PROVE CharInv
  OBVIOUS
<1>1. IInv
  BY IInvInit DEF CharInit
<1>2. <<>> \in Seq([account : Account, char : Char])
  BY EmptySeq
<1>3. LoginTypes
  BY <1>2 DEF CharInit, LoginTypes, Several
<1>4. Playing
  BY DEF CharInit, Playing
<1>5. QED
  BY <1>1, <1>3, <1>4 DEF CharInv, LoginInv

LEMMA CharInvNext == CharInv /\ [CharNext]_charVars => CharInv'
<1> SUFFICES ASSUME IInv, LoginInv, [CharNext]_charVars PROVE IInv' /\ LoginInv'
  BY DEF CharInv
<1>1. IInv'
  BY IsTableStep, IInvNext DEF LoginInv
<1>2. CASE UNCHANGED charVars
  <2>1. LoginTypes' /\ UNCHANGED <<sessions, account, player, copies>>
    BY <1>2 DEF LoginInv, LoginTypes, charVars, vars, loginVars
  <2>2. QED
    BY <1>1, <2>1, TableKeeps DEF Entered
<1>3. QED
  BY <1>1, <1>2, OpcodeKeeps, CallbackKeeps, LogoutKeeps, TakeKeeps, RemoveKeeps,
     TableStepKeeps DEF CharNext

LEMMA CharInvAlways == CharSpec => []CharInv
BY CharInvInit, CharInvNext, PTL DEF CharSpec

-----------------------------------------------------------------------------
\* HandlePlayerLoginCallback and the paths that delete a session: whatever becomes of the
\* session between a login's query and its callback, the variables stay well typed.
THEOREM CharTypeCorrect == CharSpec => []CharTypeOK
<1>1. CharInv => CharTypeOK
  BY ActiveIsNat DEF CharInv, IInv, Types, TypeOK, LoginInv, LoginTypes, CharTypeOK
<1>2. QED
  BY CharInvAlways, <1>1, PTL

\* A session that plays does so with a character of its account, which is in the world, and
\* no session that was deleted or replaced still plays.
THEOREM PlayerInWorldHolds == CharSpec => []PlayerInWorld
<1>1. CharInv => PlayerInWorld
  <2> SUFFICES ASSUME CharInv, NEW s \in Sess, player[s] # NoChar
               PROVE  /\ account[s] # NoAccount /\ Owner[player[s]] = account[s]
                      /\ copies[player[s]] > 0
    BY DEF PlayerInWorld
  <2>1. Entered(s) /\ Owner[player[s]] = account[s] /\ copies[player[s]] > 0
    BY DEF CharInv, LoginInv, Playing
  <2>2. account[s] # NoAccount
    BY <2>1, AccountAssumption, SessAssumption DEF Entered, CharInv, IInv, Filed
  <2>3. QED
    BY <2>1, <2>2
<1>2. QED
  BY CharInvAlways, <1>1, PTL

\* The session table and its queue do under logins what LoginQueue says (the safety part of
\* ImplementsLoginQueue), so its theorems hold with characters as well.
THEOREM LoginsRefineTable == CharSpec => Spec
<1>1. CharInit => Init
  BY DEF CharInit
<1>2. CharInv /\ [CharNext]_charVars => [Next]_vars
  BY IsTableStep DEF CharInv, LoginInv
<1>3. QED
  BY CharInvAlways, <1>1, <1>2, PTL DEF CharSpec, Spec
===============================================================================
