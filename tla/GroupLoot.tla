------------------------------ MODULE GroupLoot -------------------------------
(***************************************************************************)
(* Rolls for the loot of a group (WorldHandlers/Group.cpp from GroupLoot   *)
(* to CountTheRoll, the timer of Object/Creature.cpp, LootHandler.cpp),    *)
(* over the changing membership of Group.                                  *)
(*                                                                         *)
(* A source stands for the corpse or chest that holds one item above the   *)
(* threshold.  The clients are the game's: each answers a roll it was      *)
(* asked about at most once.  A roll whose loot is gone only waits to be   *)
(* erased and is left out; greed stands for greed and disenchant.          *)
(***************************************************************************)
EXTENDS Group, Integers

CONSTANTS
  Source, \* corpses and chests
  NoRoll

VARIABLES
  item,  \* the LootItem: none yet, or free, blocked, looted
  roll,  \* the Roll for it in RollId of a group
  timer, \* m_groupLootId of the source: the group whose rolls its timer ends
  given, \* history: how often the item was given out
  stuck  \* history: sources whose roll ended without an answer to the block

lootVars == <<item, roll, timer, given, stuck>>
vars == <<partyVars, lootVars>>

Choice == {"need", "greed", "pass"}
Byte == 0 .. 255 \* uint8
\* guests is history: those who were asked without a slot in the group.
Roll == [party : Party, voters : SUBSET Player, guests : SUBSET Player,
         vote : [Player -> Choice \cup {"none"}], total : Byte, need : Byte, greed : Byte, pass : Byte]

ASSUME LootAssumption == NoRoll \notin Roll

\* is_blocked and is_looted of the item
ItemState == {"none", "free", "blocked", "looted"}

Rolling(o) == roll[o] # NoRoll
Voted(r, k) == {p \in r.voters : r.vote[p] = k}

-------------------------------------------------------------------------------
(* The end of a roll.                                                        *)

\* The first player of the map wins when a total counts a vote that none of them has.
Winners(r, k) == IF Voted(r, k) # {} THEN Voted(r, k) ELSE r.voters

Freed(o) == IF item[o] = "blocked" THEN "free" ELSE item[o]

\* A faulty variant of Results, a bug this code could have; no run takes it.
\* An item that does not fit stays blocked.
ResultsKeptBlocked(o, r) ==
  IF r.need = 0 /\ r.greed = 0 THEN {Freed(o)}
  ELSE (UNION {IF InWorld(p) THEN {"given", item[o]} ELSE {"lost"} :
                 p \in Winners(r, IF r.need > 0 THEN "need" ELSE "greed")})
       \cup (IF r.voters = {} THEN {"lost"} ELSE {})

\* CountTheRoll. Everybody passed: the item is free. Need goes before greed and the
\* highest number of urand wins, so it may be anyone: the item is given, or free when
\* it does not fit; nothing is done when the winner is not found.
Results(o, r) ==
  IF r.need = 0 /\ r.greed = 0 THEN {Freed(o)}
  ELSE (UNION {IF InWorld(p) THEN {"given", Freed(o)} ELSE {"lost"} :
                 p \in Winners(r, IF r.need > 0 THEN "need" ELSE "greed")})
       \cup (IF r.voters = {} THEN {"lost"} ELSE {})

\* CountTheRoll for the rolls of the function rs; the loot of cleared is cleared then.
CountRolls(rs, cleared) ==
  \E res \in [DOMAIN rs -> {"given", "lost"} \cup ItemState] :
    /\ \A o \in DOMAIN rs : res[o] \in Results(o, rs[o])
    /\ item' = [o \in Source |->
                  CASE o \in cleared -> "none"
                    [] o \in DOMAIN rs \ cleared /\ res[o] = "given" -> "looted"
                    [] o \in DOMAIN rs \ cleared /\ res[o] \in ItemState -> res[o]
                    [] OTHER -> item[o]]
    /\ given' = [o \in Source |->
                   CASE o \in cleared -> 0
                     [] o \in DOMAIN rs \ cleared /\ res[o] = "given" -> given[o] + 1
                     [] OTHER -> given[o]]
    /\ roll' = [o \in Source |-> IF o \in DOMAIN rs \cup cleared THEN NoRoll ELSE roll[o]]
    /\ stuck' = (stuck \cup {o \in DOMAIN rs : res[o] = "lost" /\ item[o] = "blocked"}) \ cleared

-------------------------------------------------------------------------------
(* The loot.                                                                 *)

\* StartLootRoll, when a source with a group for its recipient is opened first. S are
\* the members in reach, whom a byte can count (bound: a raid has 40); a roll with one
\* player is not announced and blocks nothing.
Open(o, g, S) ==
  /\ item[o] = "none"
  /\ IsCreated(g)
  /\ \A p \in S : InWorld(p) /\ group[p] = g
  /\ Cardinality(S) \in Byte
  /\ LET alone == Cardinality(S) = 1
         r == [party |-> g, voters |-> S, guests |-> S \ members[g],
               vote |-> [p \in Player |-> IF alone /\ p \in S THEN "need" ELSE "none"],
               total |-> Cardinality(S), need |-> 0, greed |-> 0, pass |-> 0]
     IN /\ roll' = [roll EXCEPT ![o] = IF S = {} THEN NoRoll ELSE r]
        /\ item' = [item EXCEPT ![o] = IF alone \/ S = {} THEN "free" ELSE "blocked"]
        /\ timer' = [timer EXCEPT ![o] = IF alone \/ S = {} THEN @ ELSE g]
  /\ UNCHANGED <<partyVars, given, stuck>>

WithVote(r, p, k) ==
  [r EXCEPT !.vote = [@ EXCEPT ![p] = k],
            !.need = IF k = "need" THEN @ + 1 ELSE @,
            !.greed = IF k = "greed" THEN @ + 1 ELSE @,
            !.pass = IF k = "pass" THEN @ + 1 ELSE @]

\* HandleLootRoll. The player must still be in the group; the total of its choice grows
\* and the roll is counted when the totals reach the number of players.
Vote(p, o, k) ==
  /\ InWorld(p) /\ Rolling(o) /\ item[o] = "blocked"
  /\ group[p] = roll[o].party /\ p \in roll[o].voters /\ roll[o].vote[p] = "none"
  /\ LET r == WithVote(roll[o], p, k)
     IN IF r.need + r.greed + r.pass >= r.total
        THEN CountRolls([x \in {o} |-> r], {})
        ELSE roll' = [roll EXCEPT ![o] = r] /\ UNCHANGED <<item, given, stuck>>
  /\ UNCHANGED <<partyVars, timer>>

\* EndRoll counts every roll of the group whose id the source has, if it still exists.
RollsEndedBy(o) ==
  [x \in {y \in Source : Rolling(y) /\ roll[y].party = timer[o]} |-> roll[x]]

\* StopGroupLoot, when the timer of a source has run down.
Expire(o) ==
  /\ timer[o] # NoParty
  /\ CountRolls(RollsEndedBy(o), {})
  /\ timer' = [timer EXCEPT ![o] = NoParty]
  /\ UNCHANGED partyVars

\* RemoveCorpse: the rolls end first, then the loot is cleared, which makes a Roll for it
\* invalid. The source comes back with other loot.
Decay(o) ==
  /\ item[o] # "none"
  /\ CountRolls(RollsEndedBy(o), {o})
  /\ timer' = [timer EXCEPT ![o] = NoParty]
  /\ UNCHANGED partyVars

\* HandleAutostoreLootItemOpcode; a blocked item is refused.
Take(p, o) ==
  /\ InWorld(p) /\ item[o] = "free"
  /\ item' = [item EXCEPT ![o] = "looted"]
  /\ given' = [given EXCEPT ![o] = @ + 1]
  /\ UNCHANGED <<partyVars, roll, timer, stuck>>

-------------------------------------------------------------------------------
(* The members of a group come and go.                                       *)

Less(n, S) == (n - Cardinality(S)) % 256

\* A faulty variant of WithoutVotes: the votes of those who leave stay in the totals.
WithoutVoters(r, S) ==
  [r EXCEPT !.voters = @ \ S, !.total = Less(@, r.voters \cap S),
            !.vote = [p \in Player |-> IF p \in S THEN "none" ELSE r.vote[p]]]

\* _removeRolls for those of S. It lets CountRollVote look whether the roll is over now,
\* which does not find their votes any more and returns before it does.
WithoutVotes(r, S) ==
  [r EXCEPT !.voters = @ \ S, !.total = Less(@, r.voters \cap S),
            !.vote = [p \in Player |-> IF p \in S THEN "none" ELSE r.vote[p]],
            !.need = Less(@, Voted(r, "need") \cap S),
            !.greed = Less(@, Voted(r, "greed") \cap S),
            !.pass = Less(@, Voted(r, "pass") \cap S)]

\* What a step that calls RemoveMember for out does to the rolls: Disband only clears
\* RollId. The ids of the groups it makes are new to the sources.
RollsFollow(out) ==
  LET gone == {g \in Party : IsCreated(g) /\ members'[g] = {}}
      over == {o \in Source : Rolling(o) /\ roll[o].party \in gone}
  IN /\ roll' = [o \in Source |->
                   IF o \in over \/ ~Rolling(o) THEN NoRoll
                   ELSE WithoutVotes(roll[o], out[roll[o].party])]
     /\ stuck' = stuck \cup {o \in over : item[o] = "blocked"}
     /\ \A g \in Party : leader[g] = NoPlayer /\ leader'[g] # NoPlayer =>
                            \A o \in Source : timer[o] # g
     /\ UNCHANGED <<item, timer, given>>

Regroup ==
  \/ \E p \in Player :
       \/ /\ \/ Accept(p) \/ AcceptFull(p) \/ Decline(p)
             \/ Teleport(p) \/ Arrive(p) \/ Login(p) \/ EnterWorld(p)
             \/ \E q \in Player : Invite(p, q) \/ SetLeader(p, q)
          /\ RollsFollow(Nobody)
       \/ Leave(p) /\ RollsFollow(OutOfTheirs({p}))
       \/ \E q \in Player : Kick(p, q) /\ RollsFollow(Out(group[p], {q} \cap members[group[p]]))
       \/ \E asked \in BOOLEAN : Logout(p, asked) /\ RollsFollow(LoggedOut(p, asked))
       \/ \E g \in Party : JoinDungeonGroup(g, p) /\ RollsFollow(OutOfTheirs({p}))
  \/ \E g \in Party, S \in SUBSET Player, l \in Player :
       FormDungeonGroup(g, S, l) /\ RollsFollow(OutOfTheirs(S))

-------------------------------------------------------------------------------
Init ==
  /\ PartyInit
  /\ item = [o \in Source |-> "none"]
  /\ roll = [o \in Source |-> NoRoll]
  /\ timer = [o \in Source |-> NoParty]
  /\ given = [o \in Source |-> 0]
  /\ stuck = {}

Next ==
  \/ Regroup
  \/ \E o \in Source :
       \/ Expire(o) \/ Decay(o)
       \/ \E g \in Party, S \in SUBSET Player : Open(o, g, S)
       \/ \E p \in Player : Take(p, o) \/ \E k \in Choice : Vote(p, o, k)

Spec == Init /\ [][Next]_vars

-------------------------------------------------------------------------------
\* An item that waits for a roll is given out once: while it is blocked its roll is in
\* the group that the source's timer will find, while a timer runs for the roll nobody
\* can take the item, and what was given is gone (StartLootRoll, CountTheRoll, EndRoll
\* and HandleAutostoreLootItemOpcode). Disband drops the rolls, and a winner who is not
\* in the world leaves the block: those sources are excepted until they decay.
RollHoldsItem ==
  \A o \in Source :
    /\ item[o] = "blocked" /\ o \notin stuck =>
         Rolling(o) /\ timer[o] = roll[o].party /\ IsCreated(timer[o])
    /\ Rolling(o) /\ timer[o] = roll[o].party => item[o] = "blocked"
    /\ given[o] = IF item[o] = "looted" THEN 1 ELSE 0

\* An announced roll counts the votes of those who are still in it, each once, whoever
\* left, was removed or came back; nobody who left its group can win, but for those who
\* had no slot when they were asked (_removeRolls, CountRollVote).
RollCountsItsVoters ==
  \A o \in Source : Rolling(o) /\ item[o] = "blocked" =>
    LET r == roll[o] IN
    /\ r \in Roll
    /\ r.total = Cardinality(r.voters)
    /\ r.need = Cardinality(Voted(r, "need"))
    /\ r.greed = Cardinality(Voted(r, "greed"))
    /\ r.pass = Cardinality(Voted(r, "pass"))
    /\ r.voters \subseteq members[r.party] \cup r.guests
===============================================================================
