-------------------------------- MODULE Group ---------------------------------
(***************************************************************************)
(* Parties: who is invited, who is a member, who leads                     *)
(* (WorldHandlers/Group.cpp, GroupHandler.cpp and GroupMemberState.cpp,    *)
(* Object/PlayerGroup.cpp), and the groups the dungeon finder makes of its *)
(* proposals (LFGMgr::CreateDungeonGroup).                                 *)
(*                                                                         *)
(* A membership is recorded twice, in Group::m_memberSlots (and, in the    *)
(* same handlers, in the table group_member) and in Player::m_group; so is *)
(* an invitation, in Group::m_invitees and Player::m_groupInvite. A player *)
(* who changes maps is out of the world for a while, one who logs in is    *)
(* not there yet: ObjectMgr::GetPlayer finds neither.                      *)
(*                                                                         *)
(* The world thread runs one handler at a time, so a handler is an action. *)
(* Left out: raids and assistants, battleground groups and with them       *)
(* m_originalGroup, vote kicks, ready checks, and the order of the slots,  *)
(* which only says who leads next.                                         *)
(***************************************************************************)
EXTENDS Naturals, FiniteSets

CONSTANTS
  Player,   \* characters
  Party,    \* Group objects: those in use and some that are free
  NoPlayer, \* an empty leader guid
  NoParty,  \* a null Group*
  MaxSize   \* MAX_GROUP_SIZE

ASSUME PartyAssumption ==
  /\ NoPlayer \notin Player
  /\ NoParty \notin Party
  /\ IsFiniteSet(Player)
  /\ MaxSize \in Nat /\ MaxSize >= 2

VARIABLES
  leader,   \* Group::m_leaderGuid; none while the object is not in use
  members,  \* Group::m_memberSlots; none until the first invitation is accepted
  invitees, \* Group::m_invitees
  finder,   \* GROUPTYPE_LFD of m_groupType
  where,    \* whether a character is in the world
  group,    \* Player::m_group
  invite,   \* Player::m_groupInvite
  loaded,   \* the row of group_member that a login's query read
  adrift,   \* history: removed while GetPlayer did not find them
  uprooted  \* history: taken into a dungeon group out of an invitation

roster == <<leader, members, finder>>
invitations == <<invitees, invite>>
presence == <<where, loaded>>
partyVars == <<roster, invitations, presence, group, adrift, uprooted>>

InWorld(p) == where[p] = "world"
\* GetPlayer(guid, false)
Online(p) == where[p] \in {"world", "teleport"}

IsCreated(g) == members[g] # {}
IsFull(g) == ~finder[g] /\ Cardinality(members[g]) >= MaxSize

\* An object that is deleted is used again once nothing holds its id.
Unused(g) == leader[g] = NoPlayer /\ \A p \in Player : loaded[p] # g

-------------------------------------------------------------------------------
(* Removing members. RemoveMember may be called for several members in one   *)
(* handler: out[g] are those it is called for in group g.                    *)

Out(g, S) == [h \in Party |-> IF h = g THEN S ELSE {}]
Nobody == Out(NoParty, {})
OutOfTheirs(S) == [h \in Party |-> {p \in S : group[p] = h}]

\* A faulty variant of Least, a bug this code could have; no run takes it.
\* A pair of an ordinary group is left with one member, as the finder's are.
LeastOne(g) == 1

\* The members an ordinary group needs to live on, and a finder's.
Least(g) == IF finder[g] THEN 1 ELSE 2

\* RemoveMember disbands the group when too few are left; it counts the slots
\* before it looks for the one to erase.
Disbanded(out) ==
  {g \in Party : /\ out[g] # {}
                 /\ Cardinality(members[g] \ out[g])
                      < Least(g) + IF out[g] \subseteq members[g] THEN 0 ELSE 1}

MembersAfter(out, gone) ==
  [g \in Party |-> IF g \in gone THEN {} ELSE members[g] \ out[g]]

\* The front of the remaining slots leads.
LeadersAfter(out, gone) ==
  {f \in [Party -> Player \cup {NoPlayer}] :
     \A g \in Party :
       IF g \in gone THEN f[g] = NoPlayer
       ELSE IF leader[g] \in out[g] THEN f[g] \in members[g] \ out[g]
       ELSE f[g] = leader[g]}

\* A faulty variant of PointersAfter: Disband leaves the pointers of its members alone
\* and the Group's destructor does not unlink them either.
PointersKept(out, gone, found) ==
  [p \in Player |-> IF p \in found /\ \E g \in Party \ gone : p \in out[g]
                    THEN NoParty ELSE group[p]]

\* SetGroup(NULL) for those GetPlayer finds, whatever group they point to; the
\* destructor of a disbanded group unlinks everybody who points to it.
PointersAfter(out, gone, found) ==
  [p \in Player |->
     IF \/ group[p] \in gone
        \/ p \in found /\ \E g \in Party : p \in IF g \in gone THEN members[g] ELSE out[g]
     THEN NoParty ELSE group[p]]

\* RemoveAllInvites writes through every pointer of m_invitees.
InvitesAfter(gone) ==
  [p \in Player |-> IF \E g \in gone : p \in invitees[g] THEN NoParty ELSE invite[p]]
InviteesAfter(gone) == [g \in Party |-> IF g \in gone THEN {} ELSE invitees[g]]

\* Who points to a group, or is about to, that dropped them when they were not found.
AdriftAfter(out, gone, pointers) ==
  {p \in adrift \cup UNION {out[g] : g \in Party \ gone} :
     pointers[p] # NoParty \/ loaded[p] # NoParty}

-------------------------------------------------------------------------------
(* Invitations.                                                              *)

\* AddInvite
Invited(g, S) ==
  /\ invitees' = [invitees EXCEPT ![g] = @ \cup S]
  /\ invite' = [p \in Player |-> IF p \in S THEN g ELSE invite[p]]

\* HandleGroupInviteOpcode. A player without a group makes one that is not created
\* yet, with itself invited as the leader.
Invite(p, q) ==
  /\ InWorld(p) /\ InWorld(q) /\ p # q
  /\ invite[q] = NoParty /\ group[q] = NoParty
  /\ \/ \E g \in Party :
          /\ group[p] = g /\ leader[g] = p /\ ~IsFull(g)
          /\ Invited(g, {q})
          /\ UNCHANGED roster
     \/ /\ group[p] = NoParty /\ invite[p] = NoParty
        /\ \E g \in Party :
             /\ Unused(g)
             /\ Invited(g, {p, q})
             /\ leader' = [leader EXCEPT ![g] = p]
             /\ UNCHANGED <<members, finder>>
  /\ UNCHANGED <<presence, group, adrift, uprooted>>

\* A faulty variant of AddMember: the record in m_invitees is left behind when
\* RemoveInvite did not find the leader, who changes maps.
AddMemberOnly(g, S) ==
  /\ members' = [members EXCEPT ![g] = @ \cup S]
  /\ invitees' = [invitees EXCEPT ![g] = @ \ {p \in S : InWorld(p)}]
  /\ invite' = [p \in Player |-> IF p \in S /\ Online(p) THEN NoParty ELSE invite[p]]
  /\ group' = [p \in Player |->
                 IF p \in S /\ Online(p) /\ group[p] = NoParty THEN g ELSE group[p]]

\* AddMember, for the players of S. One who is in a group keeps pointing to it: the
\* second one goes to m_originalGroup.
AddMember(g, S) ==
  /\ members' = [members EXCEPT ![g] = @ \cup S]
  /\ invitees' = [invitees EXCEPT ![g] = @ \ {p \in S : Online(p)}]
  /\ invite' = [p \in Player |-> IF p \in S /\ Online(p) THEN NoParty ELSE invite[p]]
  /\ group' = [p \in Player |->
                 IF p \in S /\ Online(p) /\ group[p] = NoParty THEN g ELSE group[p]]

\* HandleGroupInviteResponseOpcode, accepted. The first acceptance creates the group,
\* its leader the first member.
Accept(q) ==
  /\ InWorld(q)
  /\ \E g \in Party :
       /\ invite[q] = g /\ leader[g] # q
       /\ ~IsFull(g)
       /\ AddMember(g, IF IsCreated(g) THEN {q} ELSE {leader[g], q})
  /\ UNCHANGED <<leader, finder, presence, adrift, uprooted>>

\* The group filled up after the invitation.
AcceptFull(q) ==
  /\ InWorld(q)
  /\ \E g \in Party :
       /\ invite[q] = g /\ leader[g] # q
       /\ IsFull(g)
       /\ invitees' = [invitees EXCEPT ![g] = @ \ {q}]
       /\ invite' = [invite EXCEPT ![q] = NoParty]
  /\ UNCHANGED <<roster, presence, group, adrift, uprooted>>

\* UninviteFromGroup gives up a group of one member, or of none.
GivenUp(p) == {g \in Party : invite[p] = g /\ Cardinality(members[g]) <= 1}

Uninvited(p, gone) ==
  /\ invitees' = [g \in Party |-> InviteesAfter(gone)[g] \
                                  (IF g = invite[p] THEN {p} ELSE {})]
  /\ invite' = [InvitesAfter(gone) EXCEPT ![p] = NoParty]

\* UninviteFromGroup
UninviteFromGroup(p) ==
  /\ invite[p] # NoParty
  /\ LET gone == GivenUp(p)
         pointers == PointersAfter(Nobody, gone, {x \in Player : InWorld(x)})
     IN /\ Uninvited(p, gone)
        /\ members' = MembersAfter(Nobody, gone)
        /\ leader' \in LeadersAfter(Nobody, gone)
        /\ finder' = [g \in Party |-> finder[g] /\ g \notin gone]
        /\ group' = pointers
        /\ adrift' = AdriftAfter(Nobody, gone, pointers)
  /\ UNCHANGED <<presence, uprooted>>

\* HandleGroupInviteResponseOpcode, declined; also the inviter of a group that is not
\* created yet, whose own invitation it then is.
Decline(p) == InWorld(p) /\ UninviteFromGroup(p)

-------------------------------------------------------------------------------
(* Members.                                                                  *)

\* RemoveMember for out, while GetPlayer finds the players of found.
RemoveMember(out, found) ==
  LET gone == Disbanded(out)
      pointers == PointersAfter(out, gone, found)
  IN /\ members' = MembersAfter(out, gone)
     /\ leader' \in LeadersAfter(out, gone)
     /\ finder' = [g \in Party |-> finder[g] /\ g \notin gone]
     /\ invitees' = InviteesAfter(gone)
     /\ invite' = InvitesAfter(gone)
     /\ group' = pointers
     /\ adrift' = AdriftAfter(out, gone, pointers)

\* HandleGroupDisbandOpcode. One who stands in the finder's dungeon is teleported out
\* first, and RemoveMember does not find it.
Leave(p) ==
  /\ InWorld(p) /\ group[p] # NoParty
  /\ \E inside \in IF finder[group[p]] THEN BOOLEAN ELSE {FALSE} :
       /\ where' = [where EXCEPT ![p] = IF inside THEN "teleport" ELSE @]
       /\ RemoveMember(OutOfTheirs({p}), {x \in Player : where'[x] = "world"})
  /\ UNCHANGED <<loaded, uprooted>>

\* HandleGroupUninviteGuidOpcode of a member or of an invited player. In a finder's
\* group it starts a vote.
Kick(p, q) ==
  /\ InWorld(p) /\ p # q /\ group[p] # NoParty
  /\ ~finder[group[p]] /\ leader[group[p]] = p
  /\ \/ /\ q \in members[group[p]]
        /\ RemoveMember(Out(group[p], {q}), {x \in Player : InWorld(x)})
        /\ UNCHANGED <<presence, uprooted>>
     \/ /\ q \in invitees[group[p]] \ members[group[p]]
        /\ UninviteFromGroup(q)

\* HandleGroupSetLeaderOpcode
SetLeader(p, q) ==
  /\ InWorld(p) /\ InWorld(q) /\ group[p] # NoParty
  /\ leader[group[p]] = p /\ group[q] = group[p]
  /\ q \in members[group[p]]
  /\ leader' = [leader EXCEPT ![group[p]] = q]
  /\ UNCHANGED <<members, finder, invitations, presence, group, adrift, uprooted>>

-------------------------------------------------------------------------------
(* Coming and going.                                                         *)

\* Player::TeleportTo to another map, and HandleMoveWorldportAckOpcode.
Teleport(p) ==
  /\ InWorld(p)
  /\ where' = [where EXCEPT ![p] = "teleport"]
  /\ UNCHANGED <<roster, invitations, loaded, group, adrift, uprooted>>

Arrive(p) ==
  /\ where[p] = "teleport"
  /\ where' = [where EXCEPT ![p] = "world"]
  /\ UNCHANGED <<roster, invitations, loaded, group, adrift, uprooted>>

\* Those a logout removes: the player itself, from an ordinary group, when the client
\* asked for it. One whose connection was lost keeps its slot.
LoggedOut(p, asked) ==
  IF asked /\ group[p] # NoParty /\ ~finder[group[p]] THEN OutOfTheirs({p}) ELSE Nobody

\* LogoutPlayer, which ends a transfer under way before: the invitation goes, then the
\* membership, then the Player object and its pointers.
Logout(p, asked) ==
  LET out == LoggedOut(p, asked)
      gone == GivenUp(p) \cup Disbanded(out)
      pointers == [PointersAfter(out, gone, {x \in Player : InWorld(x)}) EXCEPT ![p] = NoParty]
  IN /\ InWorld(p)
     /\ Uninvited(p, gone)
     /\ members' = MembersAfter(out, gone)
     /\ leader' \in LeadersAfter(out, gone)
     /\ finder' = [g \in Party |-> finder[g] /\ g \notin gone]
     /\ group' = pointers
     /\ adrift' = AdriftAfter(out, gone, pointers)
     /\ where' = [where EXCEPT ![p] = "offline"]
     /\ UNCHANGED <<loaded, uprooted>>

\* The login's queries read the row of group_member ...
Login(p) ==
  /\ where[p] = "offline"
  /\ where' = [where EXCEPT ![p] = "loading"]
  /\ \E g \in Party \cup {NoParty} :
       /\ IF g = NoParty THEN \A h \in Party : p \notin members[h] ELSE p \in members[g]
       /\ loaded' = [loaded EXCEPT ![p] = g]
  /\ UNCHANGED <<roster, invitations, group, adrift, uprooted>>

\* ... and _LoadGroup looks the group up when they are answered.
EnterWorld(p) ==
  LET g == loaded[p]
      found == g \in Party /\ IsCreated(g)
  IN /\ where[p] = "loading"
     /\ where' = [where EXCEPT ![p] = "world"]
     /\ group' = [group EXCEPT ![p] = IF found THEN g ELSE NoParty]
     /\ loaded' = [loaded EXCEPT ![p] = NoParty]
     /\ adrift' = IF found THEN adrift ELSE adrift \ {p}
     /\ UNCHANGED <<roster, invitations, uprooted>>

-------------------------------------------------------------------------------
(* The dungeon finder.                                                       *)

\* CreateDungeonGroup for the players of S that are in the world: each leaves its group,
\* then all enter a new one that l leads. Nothing is done about their invitations.
FormDungeonGroup(g, S, l) ==
  LET out == OutOfTheirs(S)
      gone == Disbanded(out)
      pointers == [p \in Player |->
                     IF p \in S THEN g
                     ELSE PointersAfter(out, gone, {x \in Player : InWorld(x)})[p]]
  IN /\ Unused(g)
     /\ \A p \in S : InWorld(p)
     /\ l \in S
     /\ members' = [MembersAfter(out, gone) EXCEPT ![g] = S]
     /\ \E f \in LeadersAfter(out, gone) : leader' = [f EXCEPT ![g] = l]
     /\ finder' = [h \in Party |-> (finder[h] /\ h \notin gone) \/ h = g]
     /\ invitees' = InviteesAfter(gone)
     /\ invite' = [p \in Player |-> IF p \in S THEN NoParty ELSE InvitesAfter(gone)[p]]
     /\ group' = pointers
     /\ adrift' = AdriftAfter(out, gone, pointers) \ S
     /\ uprooted' = uprooted \cup {p \in S : InvitesAfter(gone)[p] # NoParty}
     /\ UNCHANGED presence

\* CreateDungeonGroup for a proposal that fills the places of a running group. One who
\* still points to that group, adrift, is not matched here: the handler would remove it
\* from the group first, and might delete the group before it adds to it.
JoinDungeonGroup(g, p) ==
  LET out == OutOfTheirs({p})
      gone == Disbanded(out)
      pointers == [PointersAfter(out, gone, {x \in Player : InWorld(x)}) EXCEPT ![p] = g]
  IN /\ finder[g] /\ IsCreated(g)
     /\ InWorld(p) /\ p \notin members[g] /\ group[p] # g
     /\ members' = [MembersAfter(out, gone) EXCEPT ![g] = @ \cup {p}]
     /\ leader' \in LeadersAfter(out, gone)
     /\ finder' = [h \in Party |-> finder[h] /\ h \notin gone]
     /\ invitees' = [InviteesAfter(gone) EXCEPT ![g] = @ \ {p}]
     /\ invite' = [InvitesAfter(gone) EXCEPT ![p] = NoParty]
     /\ group' = pointers
     /\ adrift' = AdriftAfter(out, gone, pointers) \ {p}
     /\ uprooted' = uprooted \cup {x \in {p} : InvitesAfter(gone)[p] \notin {NoParty, g}}
     /\ UNCHANGED presence

-------------------------------------------------------------------------------
PartyInit ==
  /\ leader = [g \in Party |-> NoPlayer]
  /\ members = [g \in Party |-> {}]
  /\ invitees = [g \in Party |-> {}]
  /\ finder = [g \in Party |-> FALSE]
  /\ where = [p \in Player |-> "offline"]
  /\ group = [p \in Player |-> NoParty]
  /\ invite = [p \in Player |-> NoParty]
  /\ loaded = [p \in Player |-> NoParty]
  /\ adrift = {} /\ uprooted = {}

PartyNext ==
  \/ \E p \in Player :
       \/ Accept(p) \/ AcceptFull(p) \/ Decline(p) \/ Leave(p)
       \/ Teleport(p) \/ Arrive(p) \/ Login(p) \/ EnterWorld(p)
       \/ \E asked \in BOOLEAN : Logout(p, asked)
       \/ \E q \in Player : Invite(p, q) \/ Kick(p, q) \/ SetLeader(p, q)
       \/ \E g \in Party : JoinDungeonGroup(g, p)
  \/ \E g \in Party, S \in SUBSET Player, l \in Player : FormDungeonGroup(g, S, l)

PartySpec == PartyInit /\ [][PartyNext]_partyVars

-------------------------------------------------------------------------------
\* The types of the variables.
PartyTypeOK ==
  /\ leader \in [Party -> Player \cup {NoPlayer}]
  /\ members \in [Party -> SUBSET Player]
  /\ invitees \in [Party -> SUBSET Player]
  /\ finder \in [Party -> BOOLEAN]
  /\ where \in [Player -> {"offline", "loading", "world", "teleport"}]
  /\ group \in [Player -> Party \cup {NoParty}]
  /\ invite \in [Player -> Party \cup {NoParty}]
  /\ loaded \in [Player -> Party \cup {NoParty}]
  /\ adrift \in SUBSET Player
  /\ uprooted \in SUBSET Player

\* The two records of an invitation agree, so no Group keeps the raw pointer of a player
\* it does not know has gone (GroupMemberState.cpp, _addMember): a player is among the
\* invitees of exactly the group it says invited it. A dungeon group takes players out
\* of invitations of other groups that keep the pointer; they are excepted from then on.
InvitesAgree ==
  \A p \in Player \ uprooted, g \in Party : p \in invitees[g] <=> invite[p] = g

\* The two records of a membership agree for everybody in the game, and nobody has slots
\* in two groups (RemoveMember and Disband against SetGroup). Those who were removed
\* while GetPlayer did not find them keep the pointer until they leave, and those the
\* finder took out of an invitation may end up in a second group.
MembershipAgrees ==
  \A p \in Player \ uprooted, g \in Party :
    /\ p \in members[g] => \A h \in Party \ {g} : p \notin members[h]
    /\ Online(p) /\ p \notin adrift => (p \in members[g] <=> group[p] = g)

\* A group that exists is led by one of its own and is neither too small nor too large;
\* one that is forming has its leader's invitation, and one that is not in use nothing
\* (RemoveMember, Disband, UninviteFromGroup, IsFull).
Stands(g) ==
  /\ IsCreated(g) => /\ leader[g] \in members[g]
                     /\ finder[g] \/ Cardinality(members[g]) \in 2 .. MaxSize
  /\ ~IsCreated(g) => ~finder[g] /\ (leader[g] # NoPlayer => leader[g] \in invitees[g])
  /\ leader[g] = NoPlayer => invitees[g] = {} /\ members[g] = {}

GroupsStand == \A g \in Party : Stands(g)
===============================================================================
