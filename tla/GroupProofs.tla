----------------------------- MODULE GroupProofs ------------------------------
(***************************************************************************)
(* The safety properties of Group, and of the rolls of GroupLoot over it,  *)
(* for any number of characters, groups and sources of loot.               *)
(*                                                                         *)
(* GroupsStand is inductive beside the types and the fact that whoever is  *)
(* invited is among the invitees.  The agreement of the two records of an  *)
(* invitation and of a membership is kept for each player on its own: a    *)
(* step changes the group of a few players, and what it does to the others *)
(* is the same whichever handler it is.                                    *)
(*                                                                         *)
(* The rolls need, source by source, that a roll belongs to a group that   *)
(* exists and that one which blocks nothing has no votes its end could     *)
(* give the item for; a step of Group moves every roll, and what it does   *)
(* to one depends only on who left its group.                              *)
(***************************************************************************)
EXTENDS GroupLoot, FiniteSetTheorems, TLAPS

\* The records of a player's invitation.
Invitation(p) ==
  /\ \A g \in Party : invite[p] = g => p \in invitees[g]
  /\ p \notin uprooted => \A g \in Party : p \in invitees[g] => invite[p] = g
  /\ ~Online(p) => invite[p] = NoParty

\* Where a player's pointers may be set, and what they point to.
Pointers(p) ==
  /\ ~Online(p) => group[p] = NoParty
  /\ where[p] # "loading" => loaded[p] = NoParty
  /\ p \in adrift => group[p] # NoParty \/ loaded[p] # NoParty
  /\ \A g \in Party : group[p] = g => leader[g] # NoPlayer

\* The records of a player's membership.
Membership(p) ==
  p \notin uprooted => \A g \in Party :
    /\ \A h \in Party : p \in members[g] /\ p \in members[h] => g = h
    /\ Online(p) /\ p \notin adrift => (p \in members[g] <=> group[p] = g)
    /\ p \in adrift => p \notin members[g]
    /\ invite[p] # NoParty => p \notin members[g] /\ group[p] = NoParty
    /\ where[p] = "loading" /\ p \notin adrift =>
         /\ p \in members[g] => loaded[p] = g
         /\ loaded[p] = g => p \in members[g] \/ leader[g] = NoPlayer

IInv ==
  /\ PartyTypeOK
  /\ GroupsStand
  /\ \A p \in Player : Invitation(p) /\ Pointers(p) /\ Membership(p)

LEMMA InvInit == PartyInit => IInv
<1> SUFFICES ASSUME PartyInit PROVE IInv
  OBVIOUS
<1> USE PartyAssumption DEF PartyInit
<1>1. PartyTypeOK
  BY DEF PartyTypeOK
<1>2. GroupsStand
  BY DEF GroupsStand, Stands, IsCreated
<1>3. ASSUME NEW p \in Player PROVE Invitation(p) /\ Pointers(p) /\ Membership(p)
  BY <1>3 DEF Invitation, Pointers, Membership, Online
<1> QED BY <1>1, <1>2, <1>3 DEF IInv

-----------------------------------------------------------------------------
(* What RemoveMember and Disband do, as values.                              *)

Calls == [Party -> SUBSET Player]

LEMMA OutTypes ==
  /\ Nobody \in Calls
  /\ \A g \in Party : \A S \in SUBSET Player : Out(g, S) \in Calls
  /\ \A S \in SUBSET Player : OutOfTheirs(S) \in Calls
BY DEF Calls, Nobody, Out, OutOfTheirs

LEMMA AfterTypes ==
  ASSUME PartyTypeOK, NEW out \in Calls, NEW gone \in SUBSET Party
  PROVE  /\ MembersAfter(out, gone) \in [Party -> SUBSET Player]
         /\ \A f \in LeadersAfter(out, gone) : f \in [Party -> Player \cup {NoPlayer}]
         /\ InvitesAfter(gone) \in [Player -> Party \cup {NoParty}]
         /\ InviteesAfter(gone) \in [Party -> SUBSET Player]
         /\ \A found : PointersAfter(out, gone, found) \in [Player -> Party \cup {NoParty}]
         /\ \A pointers : AdriftAfter(out, gone, pointers) \in SUBSET Player
BY DEF PartyTypeOK, Calls, MembersAfter, LeadersAfter, InvitesAfter, InviteesAfter,
       PointersAfter, AdriftAfter

LEMMA FiniteMembers ==
  ASSUME PartyTypeOK, NEW g \in Party, NEW S \in SUBSET Player
  PROVE  /\ IsFiniteSet(S) /\ Cardinality(S) \in Nat
         /\ Cardinality(S) = 0 <=> S = {}
         /\ IsFiniteSet(members[g] \ S) /\ Cardinality(members[g] \ S) \in Nat
         /\ Cardinality(members[g] \ S) <= Cardinality(members[g])
         /\ Cardinality(members[g]) \in Nat
         /\ Cardinality(members[g] \ S) = 0 <=> members[g] \ S = {}
<1>1. members[g] \in SUBSET Player
  BY DEF PartyTypeOK
<1>2. IsFiniteSet(S) /\ IsFiniteSet(members[g]) /\ IsFiniteSet(members[g] \ S)
  BY <1>1, PartyAssumption, FS_Subset
<1>3. /\ Cardinality(S) \in Nat
      /\ Cardinality(S) = 0 <=> S = {}
  BY <1>2, FS_CardinalityType, FS_EmptySet
<1>4. /\ Cardinality(members[g] \ S) \in Nat
      /\ Cardinality(members[g] \ S) = 0 <=> members[g] \ S = {}
  BY <1>2, FS_CardinalityType, FS_EmptySet
<1>5. Cardinality(members[g]) \in Nat /\ Cardinality(members[g] \ S) <= Cardinality(members[g])
  BY <1>2, FS_CardinalityType, FS_Subset
<1> QED BY <1>2, <1>3, <1>4, <1>5

\* A group that RemoveMember leaves standing keeps a leader and enough members.
LEMMA RemovalStands ==
  ASSUME PartyTypeOK, GroupsStand, NEW out \in Calls, NEW gone \in SUBSET Party,
         Disbanded(out) \subseteq gone, NEW f \in LeadersAfter(out, gone), NEW g \in Party
  PROVE  /\ g \in gone => MembersAfter(out, gone)[g] = {} /\ f[g] = NoPlayer
         /\ g \notin gone /\ IsCreated(g) =>
              /\ f[g] \in MembersAfter(out, gone)[g]
              /\ MembersAfter(out, gone)[g] # {}
              /\ ~finder[g] => Cardinality(MembersAfter(out, gone)[g]) \in 2 .. MaxSize
         /\ g \notin gone /\ ~IsCreated(g) =>
              MembersAfter(out, gone)[g] = {} /\ f[g] = leader[g]
<1> DEFINE m == MembersAfter(out, gone)[g]
<1>0. out[g] \in SUBSET Player
  BY DEF Calls
<1>1. ASSUME g \in gone PROVE m = {} /\ f[g] = NoPlayer
  BY <1>1 DEF MembersAfter, LeadersAfter
<1>2. ASSUME g \notin gone PROVE m = members[g] \ out[g]
  BY <1>2 DEF MembersAfter
<1>3. ASSUME g \notin gone, ~IsCreated(g) PROVE m = {} /\ f[g] = leader[g]
  <2>0. members[g] = {} /\ members[g] \ out[g] = {}
    BY <1>3 DEF IsCreated
  <2>1. members[g] = {} /\ Cardinality(members[g] \ out[g]) = 0
    BY <2>0, FS_EmptySet
  <2>2. out[g] = {}
    BY <1>3, <2>1 DEF Disbanded, Least
  <2> QED BY <1>2, <1>3, <2>1, <2>2 DEF LeadersAfter
<1>4. ASSUME g \notin gone, IsCreated(g)
      PROVE  f[g] \in m /\ (~finder[g] => Cardinality(m) \in 2 .. MaxSize)
  <2>1. f[g] \in m
    BY <1>2, <1>4 DEF LeadersAfter, GroupsStand, Stands, IsCreated
  <2>2. ASSUME ~finder[g] PROVE Cardinality(m) \in 2 .. MaxSize
    <3>1. Cardinality(members[g]) \in 2 .. MaxSize
      BY <1>4, <2>2 DEF GroupsStand, Stands
    <3>2. Cardinality(m) \in Nat /\ Cardinality(m) <= Cardinality(members[g])
      BY <1>0, <1>2, <1>4, FiniteMembers
    <3>3. CASE out[g] = {}
      BY <3>1, <3>3, <1>2, <1>4
    <3>4. CASE out[g] # {}
      <4>1. ~(Cardinality(m) < Least(g) + IF out[g] \subseteq members[g] THEN 0 ELSE 1)
        BY <3>4, <1>2, <1>4 DEF Disbanded
      <4>2. Cardinality(m) >= 2
        BY <4>1, <2>2, <3>2 DEF Least
      <4> QED BY <4>2, <3>1, <3>2, PartyAssumption
    <3> QED BY <3>3, <3>4
  <2> QED BY <2>1, <2>2
<1> QED BY <1>1, <1>3, <1>4

-----------------------------------------------------------------------------
(* What a step that removes members, or gives up groups, does to one group   *)
(* and to one player.                                                        *)

LEMMA GroupKept ==
  ASSUME PartyTypeOK, GroupsStand, NEW out \in Calls, NEW gone \in SUBSET Party,
         Disbanded(out) \subseteq gone, NEW f \in LeadersAfter(out, gone), NEW g \in Party,
         members'[g] = MembersAfter(out, gone)[g], leader'[g] = f[g],
         finder'[g] = (finder[g] /\ g \notin gone),
         g \in gone => invitees'[g] = {},
         leader[g] = NoPlayer => invitees'[g] = {},
         g \notin gone /\ ~IsCreated(g) /\ leader[g] \in invitees[g] => leader[g] \in invitees'[g]
  PROVE  Stands(g)'
<1>1. CASE g \in gone
  <2>1. members'[g] = {} /\ leader'[g] = NoPlayer
    BY <1>1, RemovalStands
  <2>2. finder'[g] = FALSE /\ invitees'[g] = {}
    BY <1>1
  <2> QED BY <2>1, <2>2 DEF Stands, IsCreated
<1>2. CASE g \notin gone /\ IsCreated(g)
  <2>1. /\ leader'[g] \in members'[g] /\ members'[g] # {}
        /\ ~finder[g] => Cardinality(members'[g]) \in 2 .. MaxSize
    BY <1>2, RemovalStands
  <2>2. finder'[g] = finder[g]
    BY <1>2 DEF PartyTypeOK
  <2>3. leader'[g] # NoPlayer
    BY <2>1, <1>2, PartyAssumption, AfterTypes DEF MembersAfter
  <2> QED BY <2>1, <2>2, <2>3 DEF Stands, IsCreated
<1>3. CASE g \notin gone /\ ~IsCreated(g)
  <2>1. members'[g] = {} /\ leader'[g] = leader[g]
    BY <1>3, RemovalStands
  <2>2. ~finder[g] /\ (leader[g] # NoPlayer => leader[g] \in invitees[g])
    BY <1>3 DEF GroupsStand, Stands
  <2> QED BY <1>3, <2>1, <2>2 DEF Stands, IsCreated
<1> QED BY <1>1, <1>2, <1>3

LEMMA InvitationKept ==
  ASSUME IInv, NEW gone \in SUBSET Party, NEW p \in Player,
         \A h \in Party : p \in invitees'[h] <=> h \notin gone /\ p \in invitees[h],
         invite'[p] = InvitesAfter(gone)[p],
         Online(p) => Online(p)',
         p \notin uprooted' => p \notin uprooted
  PROVE  Invitation(p)'
<1>1. Invitation(p)
  BY DEF IInv
<1>2. invite'[p] = IF \E h \in gone : p \in invitees[h] THEN NoParty ELSE invite[p]
  BY DEF InvitesAfter
<1>3. ASSUME NEW g \in Party, invite'[p] = g PROVE p \in invitees'[g]
  BY <1>1, <1>2, <1>3, PartyAssumption DEF Invitation
<1>4. ASSUME p \notin uprooted', NEW g \in Party, p \in invitees'[g] PROVE invite'[p] = g
  BY <1>1, <1>2, <1>4 DEF Invitation
<1>5. ~Online(p)' => invite'[p] = NoParty
  BY <1>1, <1>2 DEF Invitation
<1> QED BY <1>3, <1>4, <1>5 DEF Invitation

LEMMA MembershipKept ==
  ASSUME IInv, NEW out \in Calls, NEW gone \in SUBSET Party, NEW p \in Player, NEW found,
         \A h \in Party : p \in out[h] => group[p] = h \/ p \in members[h],
         \A h \in Party : p \in members'[h] <=> h \notin gone /\ p \in members[h] /\ p \notin out[h],
         group'[p] = PointersAfter(out, gone, found)[p],
         p \in adrift' <=> (p \in adrift \/ \E h \in Party \ gone : p \in out[h])
                            /\ (group'[p] # NoParty \/ loaded'[p] # NoParty),
         invite'[p] # NoParty => invite[p] # NoParty,
         where'[p] = where[p] \/ (Online(p) /\ where'[p] \in {"world", "teleport"}),
         loaded'[p] = loaded[p],
         p \notin uprooted' => p \notin uprooted,
         \A h \in Party : leader[h] # NoPlayer /\ h \notin gone => leader'[h] # NoPlayer,
         \A h \in Party : loaded[p] = h /\ (h \in gone \/ leader[h] = NoPlayer) => leader'[h] = NoPlayer
  PROVE  Pointers(p)' /\ Membership(p)'
<1>1. Pointers(p) /\ Membership(p)
  BY DEF IInv
<1>2. group[p] \in Party \cup {NoParty} /\ loaded[p] \in Party \cup {NoParty}
  BY DEF IInv, PartyTypeOK
<1>3. group'[p] = IF \/ group[p] \in gone
                     \/ p \in found /\ \E g \in Party : p \in IF g \in gone THEN members[g] ELSE out[g]
                  THEN NoParty ELSE group[p]
  BY DEF PointersAfter
<1>4. /\ Online(p)' <=> Online(p)
      /\ where'[p] = "loading" <=> where[p] = "loading"
  BY DEF Online
<1>5. Pointers(p)'
  BY <1>1, <1>2, <1>3, <1>4, PartyAssumption DEF Pointers
<1>6. ASSUME p \notin uprooted', NEW g \in Party
      PROVE  /\ \A h \in Party : p \in members'[g] /\ p \in members'[h] => g = h
             /\ p \in adrift' => p \notin members'[g]
             /\ invite'[p] # NoParty => p \notin members'[g] /\ group'[p] = NoParty
             /\ where'[p] = "loading" /\ p \notin adrift' =>
                  /\ p \in members'[g] => loaded'[p] = g
                  /\ loaded'[p] = g => p \in members'[g] \/ leader'[g] = NoPlayer
  <2> USE <1>1, <1>2, <1>6 DEF Membership, Pointers
  <2>1. \A h \in Party : p \in members'[g] /\ p \in members'[h] => g = h
    OBVIOUS
  <2>2. ASSUME p \in members'[g] PROVE p \notin adrift /\ \A h \in Party : p \notin out[h]
    <3>1. p \in members[g] /\ p \notin out[g] /\ p \notin adrift
      BY <2>2
    <3>2. group[p] # NoParty => group[p] = g
      BY <3>1
    <3> QED BY <3>1, <3>2, PartyAssumption
  <2>3. p \in adrift' => p \notin members'[g]
    BY <2>2
  <2>4. invite'[p] # NoParty => p \notin members'[g] /\ group'[p] = NoParty
    BY <1>3
  <2>5. ASSUME where'[p] = "loading", p \notin adrift', p \in members'[g] PROVE loaded'[p] = g
    BY <1>4, <2>2, <2>5
  <2>6. ASSUME where'[p] = "loading", p \notin adrift', loaded'[p] = g
        PROVE  p \in members'[g] \/ leader'[g] = NoPlayer
    <3>1. p \notin adrift /\ \A h \in Party \ gone : p \notin out[h]
      BY <2>6, PartyAssumption
    <3> QED BY <1>4, <2>6, <3>1
  <2> QED BY <2>1, <2>3, <2>4, <2>5, <2>6
<1>7. ASSUME p \notin uprooted', NEW g \in Party, Online(p)', p \notin adrift'
      PROVE  p \in members'[g] <=> group'[p] = g
  <2> USE <1>1, <1>2, <1>4, <1>7 DEF Membership, Pointers
  <2>1. ASSUME p \in members'[g] PROVE group'[p] = g
    <3>1. p \notin adrift /\ p \in members[g] /\ g \notin gone /\ p \notin out[g]
      BY <2>1
    <3>2. group[p] = g
      BY <3>1
    <3>3. \A h \in Party : p \notin IF h \in gone THEN members[h] ELSE out[h]
      BY <3>1, <3>2
    <3> QED BY <1>3, <3>1, <3>2, <3>3
  <2>2. ASSUME group'[p] = g PROVE p \in members'[g]
    <3>1. group[p] = g /\ g \notin gone
      BY <1>3, <2>2, PartyAssumption
    <3>2. p \notin adrift /\ \A h \in Party \ gone : p \notin out[h]
      BY <2>2, PartyAssumption
    <3> QED BY <3>1, <3>2
  <2> QED BY <2>1, <2>2
<1> QED BY <1>5, <1>6, <1>7 DEF Membership

-----------------------------------------------------------------------------
(* The steps that remove nobody.                                             *)

LEMMA TravelStep ==
  ASSUME IInv, NEW p \in Player, Teleport(p) \/ Arrive(p)
  PROVE  IInv'
<1> USE DEF InWorld, Online, presence, roster, invitations
<1>0. /\ UNCHANGED <<leader, members, finder, invitees, invite, loaded, group, adrift, uprooted>>
      /\ Online(p) /\ where'[p] \in {"world", "teleport"}
      /\ where' = [where EXCEPT ![p] = where'[p]]
  BY DEF Teleport, Arrive, IInv, PartyTypeOK
<1>1. PartyTypeOK'
  BY <1>0 DEF IInv, PartyTypeOK
<1>2. GroupsStand'
  BY <1>0 DEF IInv, GroupsStand, Stands, IsCreated
<1>3. ASSUME NEW q \in Player PROVE Invitation(q)' /\ Pointers(q)' /\ Membership(q)'
  <2>1. Online(q)' <=> Online(q)
    BY <1>0 DEF IInv, PartyTypeOK
  <2>2. where'[q] = "loading" <=> where[q] = "loading"
    BY <1>0 DEF IInv, PartyTypeOK
  <2>3. Invitation(q) /\ Pointers(q) /\ Membership(q)
    BY DEF IInv
  <2> HIDE DEF Online
  <2> QED BY <1>0, <2>1, <2>2, <2>3 DEF Invitation, Pointers, Membership
<1> QED BY <1>1, <1>2, <1>3 DEF IInv

LEMMA LoginStep ==
  ASSUME IInv, NEW p \in Player, Login(p)
  PROVE  IInv'
<1> USE DEF Online, roster, invitations
<1>0. PICK g \in Party \cup {NoParty} :
        /\ IF g = NoParty THEN \A h \in Party : p \notin members[h] ELSE p \in members[g]
        /\ loaded' = [loaded EXCEPT ![p] = g]
        /\ where[p] = "offline" /\ where' = [where EXCEPT ![p] = "loading"]
        /\ UNCHANGED <<leader, members, finder, invitees, invite, group, adrift, uprooted>>
  BY DEF Login
<1>1. PartyTypeOK'
  BY <1>0 DEF IInv, PartyTypeOK
<1>2. GroupsStand'
  BY <1>0 DEF IInv, GroupsStand, Stands, IsCreated
<1>3. ASSUME NEW q \in Player PROVE Invitation(q)' /\ Pointers(q)' /\ Membership(q)'
  <2>1. Invitation(q) /\ Pointers(q) /\ Membership(q) /\ PartyTypeOK
    BY DEF IInv
  <2>2. CASE q = p
    <3>1. where'[p] = "loading" /\ loaded'[p] = g /\ p \notin adrift /\ group[p] = NoParty /\ invite[p] = NoParty
      BY <1>0, <2>1, <2>2 DEF PartyTypeOK, Invitation, Pointers
    <3> QED BY <1>0, <2>1, <2>2, <3>1, PartyAssumption DEF Invitation, Pointers, Membership
  <2>3. CASE q # p
    <3>1. where'[q] = where[q] /\ loaded'[q] = loaded[q]
      BY <1>0, <2>1, <2>3 DEF PartyTypeOK
    <3> QED BY <1>0, <2>1, <3>1 DEF Invitation, Pointers, Membership
  <2> QED BY <2>2, <2>3
<1> QED BY <1>1, <1>2, <1>3 DEF IInv

LEMMA EnterWorldStep ==
  ASSUME IInv, NEW p \in Player, EnterWorld(p)
  PROVE  IInv'
<1> USE DEF Online, roster, invitations
<1> DEFINE g == loaded[p]
           found == g \in Party /\ IsCreated(g)
<1>0. /\ where[p] = "loading" /\ where' = [where EXCEPT ![p] = "world"]
      /\ group' = [group EXCEPT ![p] = IF found THEN g ELSE NoParty]
      /\ loaded' = [loaded EXCEPT ![p] = NoParty]
      /\ adrift' = IF found THEN adrift ELSE adrift \ {p}
      /\ UNCHANGED <<leader, members, finder, invitees, invite, uprooted>>
  BY DEF EnterWorld
<1>1. PartyTypeOK'
  BY <1>0 DEF IInv, PartyTypeOK
<1>2. GroupsStand'
  BY <1>0 DEF IInv, GroupsStand, Stands, IsCreated
<1>3. ASSUME NEW q \in Player PROVE Invitation(q)' /\ Pointers(q)' /\ Membership(q)'
  <2>1. Invitation(q) /\ Pointers(q) /\ Membership(q) /\ PartyTypeOK /\ GroupsStand
    BY DEF IInv
  <2>2. CASE q = p
    <3>1. /\ where'[p] = "world" /\ loaded'[p] = NoParty
          /\ group'[p] = (IF found THEN g ELSE NoParty) /\ invite'[p] = NoParty
          /\ invite[p] = NoParty
      BY <1>0, <2>1, <2>2 DEF PartyTypeOK, Invitation
    <3>2. \A h \in Party : leader[h] = NoPlayer => ~IsCreated(h)
      BY <2>1 DEF GroupsStand, Stands, IsCreated
    <3>3. \A h \in Party : p \in members[h] => IsCreated(h)
      BY DEF IsCreated
    <3>4. p \in adrift' => p \in adrift /\ found
      BY <1>0
    <3>5. Invitation(p)'
      BY <1>0, <2>1, <2>2, <3>1 DEF Invitation
    <3>6. Pointers(p)'
      BY <1>0, <3>1, <3>2, <3>4, PartyAssumption DEF Pointers
    <3>7. Membership(p)'
      BY <1>0, <2>1, <2>2, <3>1, <3>2, <3>3, <3>4, PartyAssumption DEF Membership
    <3> QED BY <2>2, <3>5, <3>6, <3>7
  <2>3. CASE q # p
    <3>1. /\ where'[q] = where[q] /\ loaded'[q] = loaded[q] /\ group'[q] = group[q]
          /\ q \in adrift' <=> q \in adrift
      BY <1>0, <2>1, <2>3 DEF PartyTypeOK
    <3> QED BY <1>0, <2>1, <3>1 DEF Invitation, Pointers, Membership
  <2> QED BY <2>2, <2>3
<1> QED BY <1>1, <1>2, <1>3 DEF IInv

LEMMA SetLeaderStep ==
  ASSUME IInv, NEW p \in Player, NEW q \in Player, SetLeader(p, q)
  PROVE  IInv'
<1> USE DEF presence, invitations
<1>0. /\ group[p] \in Party /\ q \in members[group[p]]
      /\ leader' = [leader EXCEPT ![group[p]] = q]
      /\ UNCHANGED <<members, finder, invitees, invite, where, loaded, group, adrift, uprooted>>
  BY DEF SetLeader, IInv, PartyTypeOK
<1>1. PartyTypeOK'
  BY <1>0 DEF IInv, PartyTypeOK
<1>2. \A h \in Party : leader'[h] = IF h = group[p] THEN q ELSE leader[h]
  BY <1>0 DEF IInv, PartyTypeOK
<1>3. GroupsStand'
  BY <1>0, <1>2, PartyAssumption DEF IInv, GroupsStand, Stands, IsCreated
<1>4. leader[group[p]] # NoPlayer
  BY <1>0 DEF IInv, GroupsStand, Stands
<1>5. \A h \in Party : leader'[h] = NoPlayer <=> leader[h] = NoPlayer
  BY <1>0, <1>2, <1>4, PartyAssumption
<1>6. ASSUME NEW r \in Player PROVE Invitation(r)' /\ Pointers(r)' /\ Membership(r)'
  <2>1. Invitation(r) /\ Pointers(r) /\ Membership(r)
    BY DEF IInv
  <2>2. Online(r)' <=> Online(r)
    BY <1>0 DEF Online
  <2>3. Invitation(r)'
    BY <1>0, <2>1, <2>2 DEF Invitation
  <2>4. Pointers(r)' /\ Membership(r)'
    BY <1>0, <1>5, <2>1, <2>2 DEF Pointers, Membership
  <2> QED BY <2>3, <2>4
<1> QED BY <1>1, <1>3, <1>6 DEF IInv

LEMMA AcceptFullStep ==
  ASSUME IInv, NEW p \in Player, AcceptFull(p)
  PROVE  IInv'
<1> USE DEF presence, roster
<1>0. PICK g \in Party :
        /\ invite[p] = g /\ leader[g] # p /\ IsFull(g)
        /\ invitees' = [invitees EXCEPT ![g] = @ \ {p}]
        /\ invite' = [invite EXCEPT ![p] = NoParty]
        /\ UNCHANGED <<leader, members, finder, where, loaded, group, adrift, uprooted>>
  BY DEF AcceptFull
<1>1. PartyTypeOK'
  BY <1>0 DEF IInv, PartyTypeOK
<1>2. \A h \in Party : invitees'[h] = IF h = g THEN invitees[g] \ {p} ELSE invitees[h]
  BY <1>0 DEF IInv, PartyTypeOK
<1>3. GroupsStand'
  BY <1>0, <1>2 DEF IInv, GroupsStand, Stands, IsCreated
<1>4. ASSUME NEW r \in Player PROVE Invitation(r)' /\ Pointers(r)' /\ Membership(r)'
  <2>1. Invitation(r) /\ Pointers(r) /\ Membership(r)
    BY DEF IInv
  <2>2. Online(r)' <=> Online(r)
    BY <1>0 DEF Online
  <2>3. invite'[r] = IF r = p THEN NoParty ELSE invite[r]
    BY <1>0 DEF IInv, PartyTypeOK
  <2>4. Invitation(r)'
    BY <1>0, <1>2, <2>1, <2>2, <2>3, PartyAssumption DEF Invitation
  <2>5. Pointers(r)' /\ Membership(r)'
    BY <1>0, <2>1, <2>2, <2>3 DEF Pointers, Membership
  <2> QED BY <2>4, <2>5
<1> QED BY <1>1, <1>3, <1>4 DEF IInv

\* An invitation of the players of S, who have none and no group, to g.
LEMMA InvitedKept ==
  ASSUME IInv, NEW S \in SUBSET Player, NEW g \in Party, Invited(g, S),
         \A p \in S : InWorld(p) /\ invite[p] = NoParty /\ group[p] = NoParty,
         UNCHANGED <<members, finder, where, loaded, group, adrift, uprooted>>,
         leader'[g] # NoPlayer,
         \A h \in Party : h # g => leader'[h] = leader[h],
         leader[g] # NoPlayer \/ Unused(g)
  PROVE  \A p \in Player : Invitation(p)' /\ Pointers(p)' /\ Membership(p)'
<1> SUFFICES ASSUME NEW p \in Player
             PROVE  Invitation(p)' /\ Pointers(p)' /\ Membership(p)'
  OBVIOUS
<1>1. Invitation(p) /\ Pointers(p) /\ Membership(p) /\ PartyTypeOK
  BY DEF IInv
<1>2. Online(p)' <=> Online(p)
  BY DEF Online
<1>3. /\ \A h \in Party : invitees'[h] = IF h = g THEN invitees[g] \cup S ELSE invitees[h]
      /\ invite'[p] = IF p \in S THEN g ELSE invite[p]
  BY <1>1 DEF Invited, PartyTypeOK
<1>4. p \in S => Online(p) /\ where[p] = "world"
  BY DEF Online, InWorld
<1>5. loaded[p] = g => leader[g] # NoPlayer
  BY DEF Unused
<1>6. Invitation(p)'
  BY <1>1, <1>2, <1>3, <1>4, PartyAssumption DEF Invitation
<1>7. Pointers(p)'
  BY <1>1, <1>2 DEF Pointers
<1>8. Membership(p)'
  <2>1. ASSUME p \in S, p \notin uprooted, NEW h \in Party PROVE p \notin members[h] /\ group[p] = NoParty
    BY <1>1, <1>4, <2>1, PartyAssumption DEF Membership, Pointers
  <2>2. ASSUME NEW h \in Party, loaded[p] = h, leader[h] = NoPlayer PROVE leader'[h] = NoPlayer
    BY <1>5, <2>2
  <2> QED BY <1>1, <1>2, <1>3, <2>1, <2>2 DEF Membership
<1> QED BY <1>6, <1>7, <1>8

LEMMA InviteStep ==
  ASSUME IInv, NEW p \in Player, NEW q \in Player, Invite(p, q)
  PROVE  IInv'
<1> USE DEF presence, roster
<1>0. /\ UNCHANGED <<members, finder, where, loaded, group, adrift, uprooted>>
      /\ InWorld(p) /\ InWorld(q) /\ p # q
      /\ invite[q] = NoParty /\ group[q] = NoParty
  BY DEF Invite
<1>1. CASE \E g \in Party :
             /\ group[p] = g /\ leader[g] = p
             /\ Invited(g, {q}) /\ UNCHANGED leader
  <2>1. PICK g \in Party : group[p] = g /\ leader[g] = p /\ Invited(g, {q}) /\ UNCHANGED leader
    BY <1>1
  <2>2. PartyTypeOK'
    BY <1>0, <2>1 DEF IInv, PartyTypeOK, Invited
  <2>3. \A h \in Party : invitees'[h] = IF h = g THEN invitees[g] \cup {q} ELSE invitees[h]
    BY <2>1 DEF IInv, PartyTypeOK, Invited
  <2>4. GroupsStand'
    BY <1>0, <2>1, <2>3, PartyAssumption DEF IInv, GroupsStand, Stands, IsCreated
  <2>5. leader[g] # NoPlayer
    BY <2>1, PartyAssumption
  <2>6. \A r \in Player : Invitation(r)' /\ Pointers(r)' /\ Membership(r)'
    BY <1>0, <2>1, <2>5, InvitedKept
  <2> QED BY <2>2, <2>4, <2>6 DEF IInv
<1>2. CASE \E g \in Party :
             /\ group[p] = NoParty /\ invite[p] = NoParty /\ Unused(g)
             /\ Invited(g, {p, q}) /\ leader' = [leader EXCEPT ![g] = p]
  <2>1. PICK g \in Party :
             /\ group[p] = NoParty /\ invite[p] = NoParty /\ Unused(g)
             /\ Invited(g, {p, q}) /\ leader' = [leader EXCEPT ![g] = p]
    BY <1>2
  <2>2. PartyTypeOK'
    BY <1>0, <2>1 DEF IInv, PartyTypeOK, Invited
  <2>3. \A h \in Party : /\ invitees'[h] = IF h = g THEN invitees[g] \cup {p, q} ELSE invitees[h]
                         /\ leader'[h] = IF h = g THEN p ELSE leader[h]
    BY <2>1 DEF IInv, PartyTypeOK, Invited
  <2>4. members[g] = {} /\ ~finder[g]
    BY <2>1 DEF IInv, GroupsStand, Stands, IsCreated, Unused
  <2>5. GroupsStand'
    BY <1>0, <2>3, <2>4, PartyAssumption DEF IInv, GroupsStand, Stands, IsCreated
  <2>6. \A r \in Player : Invitation(r)' /\ Pointers(r)' /\ Membership(r)'
    <3>1. leader'[g] # NoPlayer /\ \A h \in Party : h # g => leader'[h] = leader[h]
      BY <2>3, PartyAssumption
    <3>2. \A r \in {p, q} : InWorld(r) /\ invite[r] = NoParty /\ group[r] = NoParty
      BY <1>0, <2>1
    <3> QED BY <1>0, <2>1, <3>1, <3>2, InvitedKept
  <2> QED BY <2>2, <2>5, <2>6 DEF IInv
<1> QED BY <1>1, <1>2 DEF Invite

LEMMA AcceptStep ==
  ASSUME IInv, NEW q \in Player, Accept(q)
  PROVE  IInv'
<1> USE DEF presence
<1>0. PICK g \in Party :
        /\ invite[q] = g /\ leader[g] # q /\ ~IsFull(g)
        /\ AddMember(g, IF IsCreated(g) THEN {q} ELSE {leader[g], q})
        /\ UNCHANGED <<leader, finder, where, loaded, adrift, uprooted>>
  BY DEF Accept
<1> DEFINE S == IF IsCreated(g) THEN {q} ELSE {leader[g], q}
<1>1. PartyTypeOK /\ GroupsStand /\ Stands(g)
  BY DEF IInv, GroupsStand
<1>2. q \in invitees[g]
  BY <1>0 DEF IInv, Invitation
<1>3. leader[g] # NoPlayer /\ leader[g] \in Player /\ S \in SUBSET Player
  BY <1>1, <1>2 DEF Stands, PartyTypeOK
<1>4. InWorld(q) /\ Online(q)
  BY DEF Accept, InWorld, Online
<1>5. /\ members' = [members EXCEPT ![g] = @ \cup S]
      /\ invitees' = [invitees EXCEPT ![g] = @ \ {p \in S : Online(p)}]
      /\ invite' = [p \in Player |-> IF p \in S /\ Online(p) THEN NoParty ELSE invite[p]]
      /\ group' = [p \in Player |->
                     IF p \in S /\ Online(p) /\ group[p] = NoParty THEN g ELSE group[p]]
  BY <1>0 DEF AddMember
<1>6. PartyTypeOK'
  BY <1>0, <1>1, <1>3, <1>5 DEF PartyTypeOK
<1>7. \A h \in Party :
        /\ members'[h] = IF h = g THEN members[g] \cup S ELSE members[h]
        /\ invitees'[h] = IF h = g THEN invitees[g] \ {p \in S : Online(p)} ELSE invitees[h]
  BY <1>1, <1>5 DEF PartyTypeOK
<1>8. GroupsStand'
  <2>1. ASSUME NEW h \in Party, h # g PROVE Stands(h)'
    BY <1>0, <1>1, <1>7, <2>1 DEF GroupsStand, Stands, IsCreated
  <2>2. Stands(g)'
    <3>1. leader[g] \in members'[g]
      BY <1>1, <1>7 DEF Stands, IsCreated
    <3>2. ASSUME ~finder[g] PROVE Cardinality(members'[g]) \in 2 .. MaxSize
      <4>1. CASE IsCreated(g)
        <5>1. IsFiniteSet(members[g]) /\ Cardinality(members[g]) \in 2 .. MaxSize
          BY <1>1, <3>2, <4>1, PartyAssumption, FS_Subset DEF Stands, PartyTypeOK
        <5>2. Cardinality(members[g]) < MaxSize
          BY <1>0, <3>2, <5>1, PartyAssumption DEF IsFull
        <5>3. members'[g] = members[g] \cup {q}
          BY <1>7, <4>1
        <5>4. Cardinality(members[g] \cup {q}) \in {Cardinality(members[g]), Cardinality(members[g]) + 1}
          BY <5>1, FS_AddElement
        <5> HIDE DEF S
        <5> QED BY <5>1, <5>2, <5>3, <5>4, PartyAssumption
      <4>2. CASE ~IsCreated(g)
        <5>1. members'[g] = {leader[g]} \cup {q}
          BY <1>7, <4>2 DEF IsCreated
        <5>2. IsFiniteSet({leader[g]}) /\ Cardinality({leader[g]}) = 1 /\ q \notin {leader[g]}
          BY <1>0, FS_Singleton
        <5>3. Cardinality({leader[g]} \cup {q}) = 2
          BY <5>2, FS_AddElement, SMTT(30)
        <5> QED BY <5>1, <5>3, PartyAssumption
      <4> QED BY <4>1, <4>2
    <3> QED BY <1>0, <1>3, <3>1, <3>2 DEF Stands, IsCreated
  <2> QED BY <2>1, <2>2 DEF GroupsStand
<1>9. ASSUME NEW r \in Player PROVE Invitation(r)' /\ Pointers(r)' /\ Membership(r)'
  <2>1. Invitation(r) /\ Pointers(r) /\ Membership(r)
    BY DEF IInv
  <2>2. Online(r)' <=> Online(r)
    BY <1>0 DEF Online
  <2>3. /\ invite'[r] = IF r \in S /\ Online(r) THEN NoParty ELSE invite[r]
        /\ group'[r] = IF r \in S /\ Online(r) /\ group[r] = NoParty THEN g ELSE group[r]
    BY <1>5
  <2>4. ASSUME r \in S, r \notin uprooted PROVE invite[r] = g
    <3>1. CASE r = q
      BY <1>0, <3>1
    <3>2. CASE r = leader[g] /\ ~IsCreated(g)
      BY <1>1, <1>3, <2>1, <2>4, <3>2 DEF Stands, Invitation
    <3> QED BY <2>4, <3>1, <3>2
  <2>5. CASE r \notin S \/ ~Online(r)
    <3>1. r \in S => r \in uprooted
      BY <2>1, <2>4, <2>5, PartyAssumption DEF Invitation
    <3>2. invite'[r] = invite[r] /\ group'[r] = group[r]
      BY <2>3, <2>5
    <3>3. \A h \in Party : r \in invitees'[h] <=> r \in invitees[h]
      BY <1>7, <2>5
    <3>4. r \notin uprooted => \A h \in Party : r \in members'[h] <=> r \in members[h]
      BY <1>7, <3>1
    <3>5. Invitation(r)'
      BY <1>0, <2>1, <2>2, <3>2, <3>3 DEF Invitation
    <3>6. Pointers(r)' /\ Membership(r)'
      BY <1>0, <2>1, <2>2, <3>2, <3>4 DEF Pointers, Membership
    <3> QED BY <3>5, <3>6
  <2>6. CASE r \in S /\ Online(r)
    <3>1. /\ invite'[r] = NoParty
          /\ group'[r] = IF group[r] = NoParty THEN g ELSE group[r]
      BY <2>3, <2>6
    <3>2. \A h \in Party : r \in invitees'[h] <=> h # g /\ r \in invitees[h]
      BY <1>7, <2>6
    <3>3. Invitation(r)'
      BY <1>0, <2>1, <2>4, <2>6, <3>1, <3>2, PartyAssumption DEF Invitation
    <3>4. Pointers(r)'
      BY <1>0, <1>3, <2>1, <2>2, <2>6, <3>1, PartyAssumption DEF Pointers
    <3>5. ASSUME r \notin uprooted PROVE Membership(r)'
      <4>1. group[r] = NoParty /\ \A h \in Party : r \notin members[h]
        BY <2>1, <2>4, <2>6, <3>5, PartyAssumption DEF Membership
      <4>2. loaded[r] = NoParty /\ r \notin adrift /\ where[r] # "loading"
        BY <2>1, <2>6, <4>1 DEF Pointers, Online
      <4>3. group'[r] = g /\ \A h \in Party : r \in members'[h] <=> h = g
        BY <1>7, <2>6, <3>1, <4>1
      <4> QED BY <1>0, <2>2, <3>1, <4>2, <4>3 DEF Membership
    <3>6. Membership(r)'
      BY <1>0, <3>5 DEF Membership
    <3> QED BY <3>3, <3>4, <3>6
  <2> QED BY <2>5, <2>6
<1> QED BY <1>6, <1>8, <1>9 DEF IInv

-----------------------------------------------------------------------------
(* The steps that remove members or give groups up.                          *)

\* A group is free after the removal just when it was disbanded or was free before.
LEMMA LeadersKept ==
  ASSUME PartyTypeOK, GroupsStand, NEW out \in Calls, NEW gone \in SUBSET Party,
         Disbanded(out) \subseteq gone, NEW f \in LeadersAfter(out, gone), NEW g \in Party
  PROVE  f[g] = NoPlayer <=> g \in gone \/ leader[g] = NoPlayer
<1>1. CASE g \in gone
  BY <1>1, RemovalStands
<1>2. CASE g \notin gone /\ IsCreated(g)
  <2>0. f[g] \in MembersAfter(out, gone)[g]
    BY <1>2, RemovalStands
  <2>1. f[g] \in members[g]
    BY <1>2, <2>0 DEF MembersAfter
  <2>2. f[g] # NoPlayer
    BY <2>1, PartyAssumption DEF PartyTypeOK
  <2>3. leader[g] # NoPlayer
    BY <1>2 DEF GroupsStand, Stands, IsCreated
  <2> QED BY <1>2, <2>2, <2>3
<1>3. CASE g \notin gone /\ ~IsCreated(g)
  BY <1>3, RemovalStands
<1> QED BY <1>1, <1>2, <1>3

LEMMA AdriftOf ==
  ASSUME NEW out \in Calls, NEW gone \in SUBSET Party, NEW pointers, NEW p \in Player
  PROVE  p \in AdriftAfter(out, gone, pointers) <=>
           (p \in adrift \/ \E h \in Party \ gone : p \in out[h])
           /\ (pointers[p] # NoParty \/ loaded[p] # NoParty)
BY DEF AdriftAfter

LEMMA MembersOf ==
  ASSUME NEW out \in Calls, NEW gone \in SUBSET Party, NEW p \in Player, NEW g \in Party
  PROVE  p \in MembersAfter(out, gone)[g] <=> g \notin gone /\ p \in members[g] /\ p \notin out[g]
BY DEF MembersAfter

LEMMA RemoveMemberStep ==
  ASSUME IInv, NEW out \in Calls, NEW found, RemoveMember(out, found),
         UNCHANGED <<loaded, uprooted>>,
         \A p \in Player, h \in Party : p \in out[h] => group[p] = h \/ p \in members[h],
         where' \in [Player -> {"offline", "loading", "world", "teleport"}],
         \A p \in Player : where'[p] = where[p] \/ (Online(p) /\ where'[p] \in {"world", "teleport"})
  PROVE  IInv'
<1> DEFINE gone == Disbanded(out)
<1>0. gone \in SUBSET Party /\ Disbanded(out) \subseteq gone
  BY DEF Disbanded
<1>1. PartyTypeOK /\ GroupsStand
  BY DEF IInv
<1> DEFINE pointers == PointersAfter(out, gone, found)
<1>2. /\ members' = MembersAfter(out, gone)
      /\ leader' \in LeadersAfter(out, gone)
      /\ finder' = [g \in Party |-> finder[g] /\ g \notin gone]
      /\ invitees' = InviteesAfter(gone)
      /\ invite' = InvitesAfter(gone)
      /\ group' = pointers
      /\ adrift' = AdriftAfter(out, gone, pointers)
  BY DEF RemoveMember
<1> HIDE DEF gone, pointers
<1>3. group' = PointersAfter(out, gone, found)
  BY <1>2 DEF pointers
<1>4. PartyTypeOK'
  BY <1>0, <1>1, <1>2, <1>3, AfterTypes DEF PartyTypeOK
<1>5. \A h \in Party : invitees'[h] = IF h \in gone THEN {} ELSE invitees[h]
  BY <1>2 DEF InviteesAfter
<1>6. ASSUME NEW g \in Party PROVE Stands(g)'
  <2>1. leader[g] = NoPlayer => invitees'[g] = {}
    BY <1>1, <1>5 DEF GroupsStand, Stands
  <2>2. finder'[g] = (finder[g] /\ g \notin gone)
    BY <1>2
  <2> QED BY <1>0, <1>1, <1>2, <1>5, <2>1, <2>2, GroupKept
<1>7. ASSUME NEW p \in Player PROVE Invitation(p)' /\ Pointers(p)' /\ Membership(p)'
  <2>1. Online(p) => Online(p)'
    BY DEF Online
  <2>2. Invitation(p)'
    BY <1>0, <1>2, <1>5, <2>1, InvitationKept
  <2>3. \A h \in Party : p \in members'[h] <=> h \notin gone /\ p \in members[h] /\ p \notin out[h]
    BY <1>0, <1>2, MembersOf
  <2>4. p \in adrift' <=> (p \in adrift \/ \E h \in Party \ gone : p \in out[h])
                            /\ (group'[p] # NoParty \/ loaded'[p] # NoParty)
    BY <1>0, <1>2, AdriftOf
  <2>5. invite'[p] # NoParty => invite[p] # NoParty
    BY <1>2 DEF InvitesAfter
  <2>6. \A h \in Party : leader'[h] = NoPlayer <=> h \in gone \/ leader[h] = NoPlayer
    BY <1>0, <1>1, <1>2, LeadersKept
  <2> QED BY <1>0, <1>3, <2>2, <2>3, <2>4, <2>5, <2>6, MembershipKept
<1> QED BY <1>4, <1>6, <1>7 DEF IInv, GroupsStand

LEMMA TheirsAreTheirs ==
  ASSUME NEW S \in SUBSET Player, NEW p \in Player, NEW h \in Party
  PROVE  p \in OutOfTheirs(S)[h] <=> p \in S /\ group[p] = h
BY DEF OutOfTheirs

LEMMA LeaveStep ==
  ASSUME IInv, NEW p \in Player, Leave(p)
  PROVE  IInv'
<1>1. PICK inside \in BOOLEAN :
        /\ where' = [where EXCEPT ![p] = IF inside THEN "teleport" ELSE @]
        /\ RemoveMember(OutOfTheirs({p}), {x \in Player : where'[x] = "world"})
        /\ UNCHANGED <<loaded, uprooted>> /\ InWorld(p)
  BY DEF Leave
<1>2. where' \in [Player -> {"offline", "loading", "world", "teleport"}]
  BY <1>1 DEF IInv, PartyTypeOK
<1>3. \A x \in Player : where'[x] = where[x] \/ (Online(x) /\ where'[x] \in {"world", "teleport"})
  <2>1. where \in [Player -> {"offline", "loading", "world", "teleport"}] /\ where[p] = "world"
    BY <1>1 DEF IInv, PartyTypeOK, InWorld
  <2>2. TAKE x \in Player
  <2>3. CASE x = p
    BY <1>1, <2>1, <2>3 DEF Online
  <2>4. CASE x # p
    BY <1>1, <2>1, <2>4
  <2> QED BY <2>3, <2>4
<1>4. \A x \in Player, h \in Party : x \in OutOfTheirs({p})[h] => group[x] = h
  BY TheirsAreTheirs
<1>5. OutOfTheirs({p}) \in Calls
  BY OutTypes
<1> QED BY <1>1, <1>2, <1>3, <1>4, <1>5, RemoveMemberStep

\* No group is given up but those of one member or none.
LEMMA UninvitedKept ==
  ASSUME IInv, NEW p \in Player, NEW gone \in SUBSET Party, GivenUp(p) \subseteq gone,
         Uninvited(p, gone), uprooted' = uprooted
  PROVE  /\ \A r \in Player : r # p /\ (Online(r) => Online(r)') => Invitation(r)'
         /\ Invitation(p)' /\ invite'[p] = NoParty
         /\ \A r \in Player : invite'[r] # NoParty => invite[r] # NoParty
         /\ invitees' \in [Party -> SUBSET Player]
         /\ invite' \in [Player -> Party \cup {NoParty}]
         /\ \A g \in Party :
              /\ g \in gone => invitees'[g] = {}
              /\ leader[g] = NoPlayer => invitees'[g] = {}
              /\ g \notin gone /\ ~IsCreated(g) /\ leader[g] \in invitees[g] => leader[g] \in invitees'[g]
<1>0. PartyTypeOK /\ GroupsStand
  BY DEF IInv
<1>1. /\ \A h \in Party : invitees'[h] = (IF h \in gone THEN {} ELSE invitees[h]) \
                                         (IF h = invite[p] THEN {p} ELSE {})
      /\ invite' = [InvitesAfter(gone) EXCEPT ![p] = NoParty]
  BY DEF Uninvited, InviteesAfter
<1>2. invitees' \in [Party -> SUBSET Player]
  BY <1>0 DEF Uninvited, InviteesAfter, PartyTypeOK
<1>3. InvitesAfter(gone) \in [Player -> Party \cup {NoParty}]
  BY <1>0 DEF InvitesAfter, PartyTypeOK
<1>4. invite'[p] = NoParty /\ \A r \in Player \ {p} : invite'[r] = InvitesAfter(gone)[r]
  BY <1>1, <1>3
<1>5. ASSUME NEW r \in Player, r # p, Online(r) => Online(r)' PROVE Invitation(r)'
  <2>1. \A h \in Party : r \in invitees'[h] <=> h \notin gone /\ r \in invitees[h]
    BY <1>1, <1>5
  <2> QED BY <1>4, <1>5, <2>1, InvitationKept
<1>6. Invitation(p)'
  <2>1. Invitation(p)
    BY DEF IInv
  <2>2. ASSUME p \notin uprooted', NEW h \in Party PROVE p \notin invitees'[h]
    BY <1>1, <2>1, <2>2 DEF Invitation
  <2> QED BY <1>4, <2>2, PartyAssumption DEF Invitation
<1>7. \A r \in Player : invite'[r] # NoParty => invite[r] # NoParty
  BY <1>4 DEF InvitesAfter
<1>8. invite' \in [Player -> Party \cup {NoParty}]
  BY <1>1, <1>3
<1>9. ASSUME NEW g \in Party
      PROVE  /\ g \in gone => invitees'[g] = {}
             /\ leader[g] = NoPlayer => invitees'[g] = {}
             /\ g \notin gone /\ ~IsCreated(g) /\ leader[g] \in invitees[g] => leader[g] \in invitees'[g]
  <2>1. leader[g] = NoPlayer => invitees[g] = {}
    BY <1>0 DEF GroupsStand, Stands
  <2>2. ASSUME g \notin gone, ~IsCreated(g) PROVE g # invite[p]
    <3>1. Cardinality(members[g]) = 0
      BY <2>2, FS_EmptySet DEF IsCreated
    <3> QED BY <2>2, <3>1 DEF GivenUp
  <2> QED BY <1>1, <2>1, <2>2
<1> QED BY <1>2, <1>4, <1>5, <1>6, <1>7, <1>8, <1>9

LEMMA UninviteStep ==
  ASSUME IInv, NEW p \in Player, UninviteFromGroup(p)
  PROVE  IInv'
<1> DEFINE gone == GivenUp(p)
<1> DEFINE found == {x \in Player : InWorld(x)}
<1>0. gone \in SUBSET Party /\ Disbanded(Nobody) \subseteq gone /\ Nobody \in Calls
  BY OutTypes DEF GivenUp, Disbanded, Nobody, Out
<1>1. PartyTypeOK /\ GroupsStand
  BY DEF IInv
<1>2. /\ Uninvited(p, gone)
      /\ members' = MembersAfter(Nobody, gone)
      /\ leader' \in LeadersAfter(Nobody, gone)
      /\ finder' = [g \in Party |-> finder[g] /\ g \notin gone]
      /\ group' = PointersAfter(Nobody, gone, found)
      /\ adrift' = AdriftAfter(Nobody, gone, group')
      /\ UNCHANGED <<where, loaded, uprooted>>
  BY DEF UninviteFromGroup, presence
<1>3. GivenUp(p) \subseteq gone
  OBVIOUS
<1> HIDE DEF gone, found
<1>4. PartyTypeOK'
  BY <1>0, <1>1, <1>2, <1>3, AfterTypes, UninvitedKept DEF PartyTypeOK
<1>5. ASSUME NEW g \in Party PROVE Stands(g)'
  <2>1. finder'[g] = (finder[g] /\ g \notin gone)
    BY <1>2
  <2> QED BY <1>0, <1>1, <1>2, <1>3, <2>1, UninvitedKept, GroupKept
<1>6. ASSUME NEW r \in Player PROVE Invitation(r)' /\ Pointers(r)' /\ Membership(r)'
  <2>1. Online(r) => Online(r)'
    BY <1>2 DEF Online
  <2>2. Invitation(r)' /\ (invite'[r] # NoParty => invite[r] # NoParty)
    BY <1>0, <1>2, <1>3, <2>1, UninvitedKept
  <2>3. \A h \in Party : r \in members'[h] <=> h \notin gone /\ r \in members[h] /\ r \notin Nobody[h]
    BY <1>0, <1>2, MembersOf
  <2>4. r \in adrift' <=> (r \in adrift \/ \E h \in Party \ gone : r \in Nobody[h])
                            /\ (group'[r] # NoParty \/ loaded'[r] # NoParty)
    BY <1>0, <1>2, AdriftOf
  <2>5. \A h \in Party : leader'[h] = NoPlayer <=> h \in gone \/ leader[h] = NoPlayer
    BY <1>0, <1>1, <1>2, LeadersKept
  <2>6. \A h \in Party : r \notin Nobody[h]
    BY DEF Nobody, Out
  <2>7. Pointers(r)' /\ Membership(r)'
    BY <1>0, <1>2, <2>2, <2>3, <2>4, <2>5, <2>6, MembershipKept
  <2> QED BY <2>2, <2>7
<1> QED BY <1>4, <1>5, <1>6 DEF IInv, GroupsStand

LEMMA KickStep ==
  ASSUME IInv, NEW p \in Player, NEW q \in Player, Kick(p, q)
  PROVE  IInv'
<1>1. CASE UninviteFromGroup(q)
  BY <1>1, UninviteStep
<1>2. CASE /\ q \in members[group[p]]
           /\ RemoveMember(Out(group[p], {q}), {x \in Player : InWorld(x)})
           /\ UNCHANGED <<presence, uprooted>>
  <2>1. group[p] \in Party
    BY DEF Kick, IInv, PartyTypeOK
  <2>2. Out(group[p], {q}) \in Calls
    BY <2>1, OutTypes
  <2>3. \A x \in Player, h \in Party : x \in Out(group[p], {q})[h] => x \in members[h]
    BY <1>2 DEF Out
  <2>4. UNCHANGED <<where, loaded, uprooted>> /\ where' \in [Player -> {"offline", "loading", "world", "teleport"}]
    BY <1>2 DEF presence, IInv, PartyTypeOK
  <2> QED BY <1>2, <2>2, <2>3, <2>4, RemoveMemberStep
<1> QED BY <1>1, <1>2 DEF Kick

LEMMA LogoutStep ==
  ASSUME IInv, NEW p \in Player, NEW asked \in BOOLEAN, Logout(p, asked)
  PROVE  IInv'
<1> DEFINE out == LoggedOut(p, asked)
           gone == GivenUp(p) \cup Disbanded(out)
           found == {x \in Player : InWorld(x)}
<1>0. out \in Calls /\ gone \in SUBSET Party /\ Disbanded(out) \subseteq gone
  BY OutTypes DEF LoggedOut, GivenUp, Disbanded
<1>1. PartyTypeOK /\ GroupsStand
  BY DEF IInv
<1>2. /\ Uninvited(p, gone)
      /\ members' = MembersAfter(out, gone)
      /\ leader' \in LeadersAfter(out, gone)
      /\ finder' = [g \in Party |-> finder[g] /\ g \notin gone]
      /\ group' = [PointersAfter(out, gone, found) EXCEPT ![p] = NoParty]
      /\ adrift' = AdriftAfter(out, gone, group')
      /\ where[p] = "world" /\ where' = [where EXCEPT ![p] = "offline"]
      /\ UNCHANGED <<loaded, uprooted>>
  BY DEF Logout, InWorld
<1>3. GivenUp(p) \subseteq gone
  OBVIOUS
<1>4. \A r \in Player, h \in Party : r \in out[h] => group[r] = h
  BY DEF LoggedOut, OutOfTheirs, Nobody, Out
<1> HIDE DEF out, gone, found
<1>5. PointersAfter(out, gone, found) \in [Player -> Party \cup {NoParty}]
  BY <1>0, <1>1, AfterTypes
<1>a. adrift' = AdriftAfter(out, gone, group') /\ loaded' = loaded /\ uprooted' = uprooted
  BY <1>2
<1>6. PartyTypeOK'
  BY <1>0, <1>1, <1>2, <1>3, <1>5, AfterTypes, UninvitedKept DEF PartyTypeOK
<1>7. ASSUME NEW g \in Party PROVE Stands(g)'
  <2>1. finder'[g] = (finder[g] /\ g \notin gone)
    BY <1>2
  <2> QED BY <1>0, <1>1, <1>2, <1>3, <2>1, UninvitedKept, GroupKept
<1>8. ASSUME NEW r \in Player PROVE Invitation(r)' /\ Pointers(r)' /\ Membership(r)'
  <2>1. \A h \in Party : r \in members'[h] <=> h \notin gone /\ r \in members[h] /\ r \notin out[h]
    BY <1>0, <1>2, MembersOf
  <2>2. r \in adrift' <=> (r \in adrift \/ \E h \in Party \ gone : r \in out[h])
                            /\ (group'[r] # NoParty \/ loaded'[r] # NoParty)
    BY <1>0, <1>a, AdriftOf
  <2>3. \A h \in Party : leader'[h] = NoPlayer <=> h \in gone \/ leader[h] = NoPlayer
    BY <1>0, <1>1, <1>2, LeadersKept
  <2>4. CASE r # p
    <3>1. where'[r] = where[r] /\ group'[r] = PointersAfter(out, gone, found)[r]
      BY <1>1, <1>2, <1>5, <2>4 DEF PartyTypeOK
    <3>2. Online(r) => Online(r)'
      BY <3>1 DEF Online
    <3>3. Invitation(r)' /\ (invite'[r] # NoParty => invite[r] # NoParty)
      BY <1>0, <1>2, <1>3, <2>4, <3>2, UninvitedKept
    <3>4. Pointers(r)' /\ Membership(r)'
      <4>1. \A h \in Party : r \in out[h] => group[r] = h \/ r \in members[h]
        BY <1>4
      <4>2. \A h \in Party : leader[h] # NoPlayer /\ h \notin gone => leader'[h] # NoPlayer
        BY <2>3
      <4>3. \A h \in Party : loaded[r] = h /\ (h \in gone \/ leader[h] = NoPlayer) => leader'[h] = NoPlayer
        BY <2>3
      <4>4. loaded'[r] = loaded[r] /\ (r \notin uprooted' => r \notin uprooted)
        BY <1>a
      <4>5. where'[r] = where[r] \/ (Online(r) /\ where'[r] \in {"world", "teleport"})
        BY <3>1
      <4>6. group'[r] = PointersAfter(out, gone, found)[r] /\ (invite'[r] # NoParty => invite[r] # NoParty)
        BY <3>1, <3>3
      <4> QED BY <1>0, <2>1, <2>2, <4>1, <4>2, <4>3, <4>4, <4>5, <4>6, MembershipKept
    <3> QED BY <3>3, <3>4
  <2>5. CASE r = p
    <3>1. where'[p] = "offline" /\ group'[p] = NoParty /\ loaded'[p] = NoParty /\ invite'[p] = NoParty
      <4>1. loaded[p] = NoParty
        BY <1>2 DEF IInv, Pointers
      <4> QED BY <1>0, <1>1, <1>2, <1>3, <1>5, <4>1, UninvitedKept DEF PartyTypeOK
    <3>2. Invitation(p)'
      BY <1>0, <1>2, <1>3, UninvitedKept
    <3>3. Pointers(p)'
      BY <2>2, <2>5, <3>1, PartyAssumption DEF Pointers, Online
    <3>4. Membership(p)'
      <4>1. Membership(p) /\ p \notin adrift'
        BY <2>2, <2>5, <3>1 DEF IInv
      <4> QED BY <1>2, <2>1, <2>5, <3>1, <4>1 DEF Membership, Online
    <3> QED BY <2>5, <3>2, <3>3, <3>4
  <2> QED BY <2>4, <2>5
<1> QED BY <1>6, <1>7, <1>8 DEF IInv, GroupsStand

-----------------------------------------------------------------------------
(* The dungeon finder's steps.                                               *)

\* One whom the finder puts into g, out of the group it points to.
LEMMA TakenIn ==
  ASSUME IInv, NEW out \in Calls, NEW gone \in SUBSET Party, NEW p \in Player, NEW g \in Party,
         where[p] = "world", where'[p] = where[p], loaded'[p] = loaded[p],
         \A h \in Party : group[p] = h => p \in out[h],
         \A h \in Party : p \in invitees'[h] => h \notin gone /\ p \in invitees[h] /\ h # g,
         \A h \in Party : p \in members'[h] <=> h = g \/ (h \notin gone /\ p \in members[h] /\ p \notin out[h]),
         p \notin uprooted' => p \notin uprooted /\ InvitesAfter(gone)[p] \in {NoParty, g},
         invite'[p] = NoParty, group'[p] = g, p \notin adrift', leader'[g] # NoPlayer
  PROVE  Invitation(p)' /\ Pointers(p)' /\ Membership(p)'
<1>1. Invitation(p) /\ Pointers(p) /\ Membership(p)
  BY DEF IInv
<1>2. Online(p) /\ Online(p)' /\ where'[p] # "loading" /\ loaded'[p] = NoParty
  BY <1>1 DEF Pointers, Online
<1>3. Invitation(p)'
  <2>1. ASSUME p \notin uprooted', NEW h \in Party, p \in invitees'[h] PROVE FALSE
    <3>1. p \in invitees[h] /\ h \notin gone /\ h # g /\ invite[p] = h
      BY <1>1, <2>1 DEF Invitation
    <3>2. \A k \in gone : p \notin invitees[k]
      BY <1>1, <2>1, <3>1 DEF Invitation
    <3>3. InvitesAfter(gone)[p] = h
      BY <3>1, <3>2 DEF InvitesAfter
    <3> QED BY <2>1, <3>1, <3>3, PartyAssumption
  <2> QED BY <1>2, <2>1, PartyAssumption DEF Invitation
<1>4. Pointers(p)'
  BY <1>2 DEF Pointers
<1>5. ASSUME p \notin uprooted', NEW h \in Party PROVE p \in members'[h] <=> h = g
  <2>1. ASSUME p \in members[h] PROVE group[p] = h
    BY <1>1, <1>2, <1>5, <2>1 DEF Membership
  <2> QED BY <2>1
<1>6. Membership(p)'
  BY <1>2, <1>5 DEF Membership
<1> QED BY <1>3, <1>4, <1>6

LEMMA FormStep ==
  ASSUME IInv, NEW g \in Party, NEW S \in SUBSET Player, NEW l \in Player, FormDungeonGroup(g, S, l)
  PROVE  IInv'
<1> DEFINE out == OutOfTheirs(S)
           gone == Disbanded(out)
           found == {x \in Player : InWorld(x)}
<1>0. out \in Calls /\ gone \in SUBSET Party /\ Disbanded(out) \subseteq gone
  BY OutTypes DEF Disbanded
<1>1. PartyTypeOK /\ GroupsStand
  BY DEF IInv
<1>2. \A r \in Player, h \in Party : r \in out[h] <=> r \in S /\ group[r] = h
  BY TheirsAreTheirs
<1>3. /\ leader[g] = NoPlayer /\ \A r \in Player : loaded[r] # g
      /\ members[g] = {} /\ invitees[g] = {} /\ g \notin gone
  <2>1. leader[g] = NoPlayer /\ \A r \in Player : loaded[r] # g
    BY DEF FormDungeonGroup, Unused
  <2>2. \A r \in Player : group[r] # g
    BY <2>1 DEF IInv, Pointers
  <2>3. out[g] = {}
    BY <1>0, <1>2, <2>2 DEF Calls
  <2>4. g \notin gone
    BY <2>3 DEF Disbanded
  <2> QED BY <1>1, <2>1, <2>4 DEF GroupsStand, Stands
<1>4. PICK f \in LeadersAfter(out, gone) : leader' = [f EXCEPT ![g] = l]
  BY DEF FormDungeonGroup
<1>5. /\ \A r \in S : where[r] = "world"
      /\ l \in S
      /\ members' = [MembersAfter(out, gone) EXCEPT ![g] = S]
      /\ finder' = [h \in Party |-> (finder[h] /\ h \notin gone) \/ h = g]
      /\ invitees' = InviteesAfter(gone)
      /\ invite' = [r \in Player |-> IF r \in S THEN NoParty ELSE InvitesAfter(gone)[r]]
      /\ group' = [r \in Player |-> IF r \in S THEN g ELSE PointersAfter(out, gone, found)[r]]
      /\ adrift' = AdriftAfter(out, gone, group') \ S
      /\ uprooted' = uprooted \cup {r \in S : InvitesAfter(gone)[r] # NoParty}
      /\ UNCHANGED <<where, loaded>>
  BY DEF FormDungeonGroup, InWorld, presence
<1> HIDE DEF out, gone, found
<1>6. /\ MembersAfter(out, gone) \in [Party -> SUBSET Player]
      /\ f \in [Party -> Player \cup {NoPlayer}]
      /\ InvitesAfter(gone) \in [Player -> Party \cup {NoParty}]
      /\ InviteesAfter(gone) \in [Party -> SUBSET Player]
      /\ PointersAfter(out, gone, found) \in [Player -> Party \cup {NoParty}]
      /\ AdriftAfter(out, gone, group') \in SUBSET Player
  BY <1>0, <1>1, AfterTypes
<1>7. PartyTypeOK'
  BY <1>1, <1>4, <1>5, <1>6 DEF PartyTypeOK
<1>8. /\ members'[g] = S /\ leader'[g] = l
      /\ \A h \in Party \ {g} : members'[h] = MembersAfter(out, gone)[h] /\ leader'[h] = f[h]
  BY <1>4, <1>5, <1>6
<1>9. \A h \in Party : invitees'[h] = IF h \in gone THEN {} ELSE invitees[h]
  BY <1>5 DEF InviteesAfter
<1>10. ASSUME NEW h \in Party PROVE Stands(h)'
  <2>1. CASE h = g
    <3>1. finder'[g] /\ l \in members'[g] /\ leader'[g] = l /\ l # NoPlayer
      BY <1>5, <1>8, PartyAssumption
    <3> QED BY <2>1, <3>1 DEF Stands, IsCreated
  <2>2. CASE h # g
    <3>1. finder'[h] = (finder[h] /\ h \notin gone)
      BY <1>1, <1>5, <2>2 DEF PartyTypeOK
    <3>2. leader[h] = NoPlayer => invitees'[h] = {}
      BY <1>1, <1>9 DEF GroupsStand, Stands
    <3> QED BY <1>0, <1>1, <1>8, <1>9, <2>2, <3>1, <3>2, GroupKept
  <2> QED BY <2>1, <2>2
<1>11. ASSUME NEW r \in Player PROVE Invitation(r)' /\ Pointers(r)' /\ Membership(r)'
  <2>1. \A h \in Party : r \in invitees'[h] <=> h \notin gone /\ r \in invitees[h]
    BY <1>9
  <2>2. where'[r] = where[r] /\ loaded'[r] = loaded[r]
    BY <1>5
  <2>3. CASE r \notin S
    <3>1. invite'[r] = InvitesAfter(gone)[r] /\ group'[r] = PointersAfter(out, gone, found)[r]
      BY <1>5, <2>3
    <3>2. r \notin uprooted' => r \notin uprooted
      BY <1>5
    <3>3. Online(r) => Online(r)'
      BY <2>2 DEF Online
    <3>4. Invitation(r)'
      BY <1>0, <2>1, <3>1, <3>2, <3>3, InvitationKept
    <3>5. \A h \in Party : r \in members'[h] <=> h \notin gone /\ r \in members[h] /\ r \notin out[h]
      BY <1>0, <1>3, <1>8, <2>3, MembersOf
    <3>6. r \in adrift' <=> (r \in adrift \/ \E h \in Party \ gone : r \in out[h])
                              /\ (group'[r] # NoParty \/ loaded'[r] # NoParty)
      <4>1. r \in adrift' <=> r \in AdriftAfter(out, gone, group')
        BY <1>5, <2>3
      <4> QED BY <1>0, <2>2, <4>1, AdriftOf
    <3>7. \A h \in Party : h # g => (leader'[h] = NoPlayer <=> h \in gone \/ leader[h] = NoPlayer)
      BY <1>0, <1>1, <1>8, LeadersKept
    <3>8. invite'[r] # NoParty => invite[r] # NoParty
      BY <3>1 DEF InvitesAfter
    <3>9. /\ \A h \in Party : leader[h] # NoPlayer /\ h \notin gone => leader'[h] # NoPlayer
          /\ \A h \in Party : loaded[r] = h /\ (h \in gone \/ leader[h] = NoPlayer) => leader'[h] = NoPlayer
          /\ \A h \in Party : r \in out[h] => group[r] = h \/ r \in members[h]
      BY <1>2, <1>3, <3>7
    <3>10. Pointers(r)' /\ Membership(r)'
      BY <1>0, <2>2, <3>1, <3>2, <3>5, <3>6, <3>8, <3>9, MembershipKept
    <3> QED BY <3>4, <3>10
  <2>4. CASE r \in S
    <3>1. /\ where[r] = "world" /\ invite'[r] = NoParty /\ group'[r] = g /\ r \notin adrift'
          /\ r \notin uprooted' => r \notin uprooted /\ InvitesAfter(gone)[r] \in {NoParty, g}
      BY <1>5, <2>4
    <3>2. leader'[g] # NoPlayer
      BY <1>8, PartyAssumption
    <3>3. \A h \in Party : r \in members'[h] <=> h = g \/ (h \notin gone /\ r \in members[h] /\ r \notin out[h])
      BY <1>0, <1>8, <2>4, MembersOf
    <3>4. \A h \in Party : r \in invitees'[h] => h \notin gone /\ r \in invitees[h] /\ h # g
      BY <1>3, <2>1
    <3>5. \A h \in Party : group[r] = h => r \in out[h]
      BY <1>2, <2>4
    <3> QED BY <1>0, <2>2, <3>1, <3>2, <3>3, <3>4, <3>5, TakenIn
  <2> QED BY <2>3, <2>4
<1> QED BY <1>7, <1>10, <1>11 DEF IInv, GroupsStand

LEMMA JoinStep ==
  ASSUME IInv, NEW g \in Party, NEW p \in Player, JoinDungeonGroup(g, p)
  PROVE  IInv'
<1> DEFINE out == OutOfTheirs({p})
           gone == Disbanded(out)
           found == {x \in Player : InWorld(x)}
<1>0. out \in Calls /\ gone \in SUBSET Party /\ Disbanded(out) \subseteq gone
  BY OutTypes DEF Disbanded
<1>1. PartyTypeOK /\ GroupsStand
  BY DEF IInv
<1>2. \A r \in Player, h \in Party : r \in out[h] <=> r = p /\ group[r] = h
  BY TheirsAreTheirs
<1>3. finder[g] /\ IsCreated(g) /\ where[p] = "world" /\ g \notin gone /\ leader[g] # NoPlayer
  <2>1. finder[g] /\ IsCreated(g) /\ where[p] = "world" /\ group[p] # g
    BY DEF JoinDungeonGroup, InWorld
  <2>2. out[g] = {}
    BY <1>0, <1>2, <2>1 DEF Calls
  <2>3. g \notin gone
    BY <2>2 DEF Disbanded
  <2> QED BY <1>1, <2>1, <2>3 DEF GroupsStand, Stands, IsCreated
<1>5. /\ members' = [MembersAfter(out, gone) EXCEPT ![g] = @ \cup {p}]
      /\ leader' \in LeadersAfter(out, gone)
      /\ finder' = [h \in Party |-> finder[h] /\ h \notin gone]
      /\ invitees' = [InviteesAfter(gone) EXCEPT ![g] = @ \ {p}]
      /\ invite' = [InvitesAfter(gone) EXCEPT ![p] = NoParty]
      /\ group' = [PointersAfter(out, gone, found) EXCEPT ![p] = g]
      /\ adrift' = AdriftAfter(out, gone, group') \ {p}
      /\ uprooted' = uprooted \cup {x \in {p} : InvitesAfter(gone)[p] \notin {NoParty, g}}
      /\ UNCHANGED <<where, loaded>>
  BY DEF JoinDungeonGroup, presence
<1> HIDE DEF out, gone, found
<1>6. /\ MembersAfter(out, gone) \in [Party -> SUBSET Player]
      /\ leader' \in [Party -> Player \cup {NoPlayer}]
      /\ InvitesAfter(gone) \in [Player -> Party \cup {NoParty}]
      /\ InviteesAfter(gone) \in [Party -> SUBSET Player]
      /\ PointersAfter(out, gone, found) \in [Player -> Party \cup {NoParty}]
      /\ AdriftAfter(out, gone, group') \in SUBSET Player
  BY <1>0, <1>1, <1>5, AfterTypes
<1>7. PartyTypeOK'
  BY <1>1, <1>5, <1>6 DEF PartyTypeOK
<1>8. /\ members'[g] = MembersAfter(out, gone)[g] \cup {p}
      /\ \A h \in Party \ {g} : members'[h] = MembersAfter(out, gone)[h]
  BY <1>5, <1>6
<1>9. \A h \in Party : invitees'[h] = (IF h \in gone THEN {} ELSE invitees[h]) \ (IF h = g THEN {p} ELSE {})
  BY <1>5, <1>6 DEF InviteesAfter
<1>10. \A h \in Party : leader'[h] = NoPlayer <=> h \in gone \/ leader[h] = NoPlayer
  BY <1>0, <1>1, <1>5, LeadersKept
<1>11. ASSUME NEW h \in Party PROVE Stands(h)'
  <2>1. finder'[h] = (finder[h] /\ h \notin gone)
    BY <1>5
  <2>2. CASE h = g
    <3>1. leader'[g] \in members'[g]
      BY <1>0, <1>1, <1>3, <1>5, <1>8, RemovalStands
    <3>2. finder'[g] /\ leader'[g] # NoPlayer
      BY <1>3, <1>10, <2>1, <2>2
    <3> QED BY <2>2, <3>1, <3>2 DEF Stands, IsCreated
  <2>3. CASE h # g
    <3>1. leader[h] = NoPlayer => invitees'[h] = {}
      BY <1>1, <1>9 DEF GroupsStand, Stands
    <3> QED BY <1>0, <1>1, <1>5, <1>8, <1>9, <2>1, <2>3, <3>1, GroupKept
  <2> QED BY <2>2, <2>3
<1>12. ASSUME NEW r \in Player PROVE Invitation(r)' /\ Pointers(r)' /\ Membership(r)'
  <2>1. where'[r] = where[r] /\ loaded'[r] = loaded[r]
    BY <1>5
  <2>2. CASE r # p
    <3>1. invite'[r] = InvitesAfter(gone)[r] /\ group'[r] = PointersAfter(out, gone, found)[r]
      BY <1>5, <1>6, <2>2
    <3>2. r \notin uprooted' => r \notin uprooted
      BY <1>5
    <3>3. Online(r) => Online(r)'
      BY <2>1 DEF Online
    <3>4. \A h \in Party : r \in invitees'[h] <=> h \notin gone /\ r \in invitees[h]
      BY <1>9, <2>2
    <3>5. Invitation(r)'
      BY <1>0, <3>1, <3>2, <3>3, <3>4, InvitationKept
    <3>6. \A h \in Party : r \in members'[h] <=> h \notin gone /\ r \in members[h] /\ r \notin out[h]
      BY <1>0, <1>8, <2>2, MembersOf
    <3>7. r \in adrift' <=> (r \in adrift \/ \E h \in Party \ gone : r \in out[h])
                              /\ (group'[r] # NoParty \/ loaded'[r] # NoParty)
      <4>1. r \in adrift' <=> r \in AdriftAfter(out, gone, group')
        BY <1>5, <2>2
      <4> QED BY <1>0, <2>1, <4>1, AdriftOf
    <3>8. invite'[r] # NoParty => invite[r] # NoParty
      BY <3>1 DEF InvitesAfter
    <3>9. /\ \A h \in Party : leader[h] # NoPlayer /\ h \notin gone => leader'[h] # NoPlayer
          /\ \A h \in Party : loaded[r] = h /\ (h \in gone \/ leader[h] = NoPlayer) => leader'[h] = NoPlayer
          /\ \A h \in Party : r \in out[h] => group[r] = h \/ r \in members[h]
      BY <1>2, <1>10
    <3>10. Pointers(r)' /\ Membership(r)'
      BY <1>0, <2>1, <3>1, <3>2, <3>6, <3>7, <3>8, <3>9, MembershipKept
    <3> QED BY <3>5, <3>10
  <2>3. CASE r = p
    <3>1. /\ where[r] = "world" /\ invite'[r] = NoParty /\ group'[r] = g /\ r \notin adrift'
          /\ r \notin uprooted' => r \notin uprooted /\ InvitesAfter(gone)[r] \in {NoParty, g}
      BY <1>3, <1>5, <1>6, <2>3
    <3>2. leader'[g] # NoPlayer
      BY <1>3, <1>10
    <3>3. \A h \in Party : r \in members'[h] <=> h = g \/ (h \notin gone /\ r \in members[h] /\ r \notin out[h])
      BY <1>0, <1>8, <2>3, MembersOf
    <3>4. \A h \in Party : r \in invitees'[h] => h \notin gone /\ r \in invitees[h] /\ h # g
      BY <1>9, <2>3
    <3>5. \A h \in Party : group[r] = h => r \in out[h]
      BY <1>2, <2>3
    <3> QED BY <1>0, <2>1, <3>1, <3>2, <3>3, <3>4, <3>5, TakenIn
  <2> QED BY <2>2, <2>3
<1> QED BY <1>7, <1>11, <1>12 DEF IInv, GroupsStand

-----------------------------------------------------------------------------
(* The invariant and what follows from it.                                   *)

LEMMA InvStutter ==
  ASSUME IInv, UNCHANGED partyVars
  PROVE  IInv'
<1> USE DEF partyVars, roster, invitations, presence
<1>1. PartyTypeOK'
  BY DEF IInv, PartyTypeOK
<1>2. GroupsStand'
  BY DEF IInv, GroupsStand, Stands, IsCreated
<1>3. ASSUME NEW p \in Player PROVE Invitation(p)' /\ Pointers(p)' /\ Membership(p)'
  BY DEF IInv, Invitation, Pointers, Membership, Online
<1> QED BY <1>1, <1>2, <1>3 DEF IInv

LEMMA InvStep ==
  ASSUME IInv, [PartyNext]_partyVars
  PROVE  IInv'
<1>1. ASSUME NEW p \in Player, Accept(p) PROVE IInv'
  BY <1>1, AcceptStep
<1>2. ASSUME NEW p \in Player, AcceptFull(p) PROVE IInv'
  BY <1>2, AcceptFullStep
<1>3. ASSUME NEW p \in Player, Decline(p) PROVE IInv'
  BY <1>3, UninviteStep DEF Decline
<1>4. ASSUME NEW p \in Player, Leave(p) PROVE IInv'
  BY <1>4, LeaveStep
<1>5. ASSUME NEW p \in Player, Teleport(p) \/ Arrive(p) PROVE IInv'
  BY <1>5, TravelStep
<1>6. ASSUME NEW p \in Player, Login(p) PROVE IInv'
  BY <1>6, LoginStep
<1>7. ASSUME NEW p \in Player, EnterWorld(p) PROVE IInv'
  BY <1>7, EnterWorldStep
<1>8. ASSUME NEW p \in Player, NEW asked \in BOOLEAN, Logout(p, asked) PROVE IInv'
  BY <1>8, LogoutStep
<1>9. ASSUME NEW p \in Player, NEW q \in Player, Invite(p, q) PROVE IInv'
  BY <1>9, InviteStep
<1>10. ASSUME NEW p \in Player, NEW q \in Player, Kick(p, q) PROVE IInv'
  BY <1>10, KickStep
<1>11. ASSUME NEW p \in Player, NEW q \in Player, SetLeader(p, q) PROVE IInv'
  BY <1>11, SetLeaderStep
<1>12. ASSUME NEW p \in Player, NEW g \in Party, JoinDungeonGroup(g, p) PROVE IInv'
  BY <1>12, JoinStep
<1>13. ASSUME NEW g \in Party, NEW S \in SUBSET Player, NEW l \in Player, FormDungeonGroup(g, S, l)
       PROVE  IInv'
  BY <1>13, FormStep
<1>14. CASE UNCHANGED partyVars
  BY <1>14, InvStutter
<1> QED BY <1>1, <1>2, <1>3, <1>4, <1>5, <1>6, <1>7, <1>8, <1>9, <1>10, <1>11, <1>12, <1>13,
           <1>14 DEF PartyNext

LEMMA InvAlways == PartySpec => []IInv
<1>1. PartyInit => IInv
  BY InvInit
<1>2. IInv /\ [PartyNext]_partyVars => IInv'
  BY InvStep
<1> QED BY <1>1, <1>2, PTL DEF PartySpec

\* The variables of Group keep their types, whatever the handlers of WorldHandlers and
\* Player do.
THEOREM PartyTypesCorrect == PartySpec => []PartyTypeOK
<1>1. IInv => PartyTypeOK
  BY DEF IInv
<1> QED BY <1>1, InvAlways, PTL

\* GroupMemberState.cpp, _addMember: Group::m_invitees and Player::m_groupInvite name
\* each other for every player the finder has not taken out of an invitation.
THEOREM InvitationsAgreeAlways == PartySpec => []InvitesAgree
<1>1. IInv => InvitesAgree
  BY DEF IInv, Invitation, InvitesAgree
<1> QED BY <1>1, InvAlways, PTL

\* Group.cpp, RemoveMember and Disband: a player in the game points to the group that
\* holds its slot and to no other, and has no slot in a second one.
THEOREM MembershipsAgreeAlways == PartySpec => []MembershipAgrees
<1>1. ASSUME IInv, NEW p \in Player \ uprooted, NEW g \in Party
      PROVE  /\ p \in members[g] => \A h \in Party \ {g} : p \notin members[h]
             /\ Online(p) /\ p \notin adrift => (p \in members[g] <=> group[p] = g)
  BY <1>1 DEF IInv, Membership
<1>2. IInv => MembershipAgrees
  BY <1>1 DEF MembershipAgrees
<1> QED BY <1>2, InvAlways, PTL

\* Group.cpp, RemoveMember, Disband and UninviteFromGroup: no handler leaves a group
\* without a leader of its own, too small to live on, or over its size.
THEOREM GroupsStandAlways == PartySpec => []GroupsStand
<1>1. IInv => GroupsStand
  BY DEF IInv
<1> QED BY <1>1, InvAlways, PTL

-----------------------------------------------------------------------------
(* The rolls of GroupLoot. A roll that blocks its item counts its voters;    *)
(* one that does not block it has at most one voter and can give nothing.    *)

Counted(r) ==
  /\ r.total = Cardinality(r.voters)
  /\ r.need = Cardinality(Voted(r, "need"))
  /\ r.greed = Cardinality(Voted(r, "greed"))
  /\ r.pass = Cardinality(Voted(r, "pass"))
  /\ r.voters \subseteq members[r.party] \cup r.guests

Alone(r) ==
  /\ \E p \in Player : r.voters \subseteq {p}
  /\ r.voters = {} \/ (r.need = 0 /\ r.greed = 0)

\* What is true of one source, its item and its roll.
SourceInv(o) ==
  /\ given[o] = IF item[o] = "looted" THEN 1 ELSE 0
  /\ item[o] = "none" => ~Rolling(o) /\ timer[o] = NoParty /\ o \notin stuck
  /\ item[o] = "blocked" /\ o \notin stuck => Rolling(o) /\ timer[o] = roll[o].party
  /\ Rolling(o) => /\ IsCreated(roll[o].party)
                   /\ timer[o] = roll[o].party => item[o] = "blocked"
                   /\ IF item[o] = "blocked" THEN Counted(roll[o]) ELSE Alone(roll[o])

LootTypes ==
  /\ item \in [Source -> ItemState]
  /\ roll \in [Source -> Roll \cup {NoRoll}]
  /\ timer \in [Source -> Party \cup {NoParty}]
  /\ given \in [Source -> Nat]

LootInv ==
  /\ IInv
  /\ LootTypes
  /\ \A o \in Source : SourceInv(o)

LEMMA LootInit == Init => LootInv
<1> SUFFICES ASSUME Init PROVE LootInv
  OBVIOUS
<1>1. IInv
  BY InvInit DEF Init
<1>2. LootTypes
  BY DEF Init, LootTypes, ItemState
<1>3. ASSUME NEW o \in Source PROVE SourceInv(o)
  BY <1>3 DEF Init, SourceInv, Rolling
<1> QED BY <1>1, <1>2, <1>3 DEF LootInv

-----------------------------------------------------------------------------
(* Counting votes.                                                           *)

LEMMA RollFields ==
  ASSUME NEW r \in Roll
  PROVE  /\ r.party \in Party
         /\ r.voters \in SUBSET Player /\ r.guests \in SUBSET Player
         /\ r.vote \in [Player -> Choice \cup {"none"}]
         /\ r.total \in Byte /\ r.need \in Byte /\ r.greed \in Byte /\ r.pass \in Byte
BY DEF Roll

LEMMA LessIs ==
  ASSUME NEW T \in SUBSET Player, NEW S \in SUBSET Player, NEW n \in Byte, n = Cardinality(T)
  PROVE  Less(n, T \cap S) = Cardinality(T \ S)
<1>1. IsFiniteSet(T) /\ IsFiniteSet(T \ S) /\ IsFiniteSet(T \cap S)
  BY PartyAssumption, FS_Subset
<1>2. Cardinality(T \ S) = Cardinality(T) - Cardinality(T \cap S)
  BY <1>1, FS_Difference
<1>3. Cardinality(T \ S) \in Nat /\ Cardinality(T \cap S) \in Nat
  BY <1>1, FS_CardinalityType
<1>4. n - Cardinality(T \cap S) \in 0 .. 255
  BY <1>2, <1>3, SMTT(30) DEF Byte
<1> QED BY <1>2, <1>4 DEF Less

LEMMA LessType == \A n \in Byte, S \in SUBSET Player : Less(n, S) \in Byte
<1> SUFFICES ASSUME NEW n \in Byte, NEW S \in SUBSET Player PROVE Less(n, S) \in Byte
  OBVIOUS
<1>1. Cardinality(S) \in Nat
  BY PartyAssumption, FS_Subset, FS_CardinalityType
<1> QED BY <1>1 DEF Less, Byte

\* Whoever leaves takes its votes along; those who stay are still counted.
LEMMA WithoutVotesIs ==
  ASSUME NEW r \in Roll, NEW S \in SUBSET Player
  PROVE  LET w == WithoutVotes(r, S) IN
         /\ w \in Roll /\ w.party = r.party /\ w.guests = r.guests
         /\ w.voters = r.voters \ S
         /\ w.total = Less(r.total, r.voters \cap S)
         /\ w.need = Less(r.need, Voted(r, "need") \cap S)
         /\ w.greed = Less(r.greed, Voted(r, "greed") \cap S)
         /\ w.pass = Less(r.pass, Voted(r, "pass") \cap S)
         /\ \A k \in Choice : Voted(w, k) = Voted(r, k) \ S
<1> DEFINE w == WithoutVotes(r, S)
<1>0. \A k : Voted(r, k) \in SUBSET Player
  BY RollFields DEF Voted
<1>1. /\ w.party = r.party /\ w.guests = r.guests
      /\ w.voters = r.voters \ S
      /\ w.vote = [p \in Player |-> IF p \in S THEN "none" ELSE r.vote[p]]
      /\ w.total = Less(r.total, r.voters \cap S)
      /\ w.need = Less(r.need, Voted(r, "need") \cap S)
      /\ w.greed = Less(r.greed, Voted(r, "greed") \cap S)
      /\ w.pass = Less(r.pass, Voted(r, "pass") \cap S)
  BY DEF WithoutVotes, Roll
<1>2. w \in Roll
  <2>1. /\ Less(r.total, r.voters \cap S) \in Byte
        /\ Less(r.need, Voted(r, "need") \cap S) \in Byte
        /\ Less(r.greed, Voted(r, "greed") \cap S) \in Byte
        /\ Less(r.pass, Voted(r, "pass") \cap S) \in Byte
    <3>1. r.voters \cap S \in SUBSET Player /\ \A k : Voted(r, k) \cap S \in SUBSET Player
      BY <1>0
    <3> QED BY <3>1, RollFields, LessType
  <2>2. [p \in Player |-> IF p \in S THEN "none" ELSE r.vote[p]] \in [Player -> Choice \cup {"none"}]
    BY RollFields
  <2> QED BY <2>1, <2>2 DEF WithoutVotes, Roll
<1>3. ASSUME NEW k \in Choice PROVE Voted(w, k) = Voted(r, k) \ S
  <2>1. r.voters \in SUBSET Player
    BY RollFields
  <2>2. Voted(w, k) = {p \in w.voters : w.vote[p] = k}
    BY DEF Voted
  <2>3. \A p \in w.voters : w.vote[p] = r.vote[p] /\ p \in r.voters /\ p \notin S
    BY <1>1, <2>1
  <2>4. \A p \in r.voters \ S : p \in w.voters
    BY <1>1
  <2> HIDE DEF w
  <2> QED BY <2>2, <2>3, <2>4 DEF Voted
<1> QED BY <1>1, <1>2, <1>3

LEMMA WithoutVotesCounted ==
  ASSUME NEW r \in Roll, NEW S \in SUBSET Player, Counted(r),
         members[r.party] \ S \subseteq members'[r.party]
  PROVE  LET w == WithoutVotes(r, S) IN
         /\ w.total = Cardinality(w.voters)
         /\ w.need = Cardinality(Voted(w, "need"))
         /\ w.greed = Cardinality(Voted(w, "greed"))
         /\ w.pass = Cardinality(Voted(w, "pass"))
         /\ w.voters \subseteq members'[w.party] \cup w.guests
<1>1. /\ r.voters \in SUBSET Player
      /\ \A k : Voted(r, k) \in SUBSET Player
  BY RollFields DEF Voted
<1>2. /\ Less(r.total, r.voters \cap S) = Cardinality(r.voters \ S)
      /\ Less(r.need, Voted(r, "need") \cap S) = Cardinality(Voted(r, "need") \ S)
      /\ Less(r.greed, Voted(r, "greed") \cap S) = Cardinality(Voted(r, "greed") \ S)
      /\ Less(r.pass, Voted(r, "pass") \cap S) = Cardinality(Voted(r, "pass") \ S)
  BY <1>1, RollFields, LessIs DEF Counted
<1>3. r.voters \ S \subseteq members'[r.party] \cup r.guests
  BY DEF Counted
<1> QED BY <1>2, <1>3, WithoutVotesIs, ZenonT(30) DEF Choice

LEMMA WithoutVotesAlone ==
  ASSUME NEW r \in Roll, NEW S \in SUBSET Player, Alone(r)
  PROVE  Alone(WithoutVotes(r, S))
<1> DEFINE w == WithoutVotes(r, S)
<1>1. /\ w.voters = r.voters \ S
      /\ w.need = Less(r.need, Voted(r, "need") \cap S)
      /\ w.greed = Less(r.greed, Voted(r, "greed") \cap S)
  BY WithoutVotesIs
<1> HIDE DEF w
<1>2. PICK p \in Player : r.voters \subseteq {p}
  BY DEF Alone
<1>3. Alone(w)
  <2>1. CASE p \in S
    BY <1>1, <1>2, <2>1 DEF Alone
  <2>2. CASE p \notin S
    <3>1. Voted(r, "need") \cap S = {} /\ Voted(r, "greed") \cap S = {}
      BY <1>2, <2>2 DEF Voted
    <3>2. Cardinality({}) = 0
      BY FS_EmptySet
    <3>3. Less(0, {}) = 0
      BY <3>2 DEF Less
    <3>4. r.need = 0 /\ r.greed = 0 => w.need = 0 /\ w.greed = 0
      BY <1>1, <3>1, <3>3
    <3> QED BY <1>1, <1>2, <3>4 DEF Alone
  <2> QED BY <2>1, <2>2
<1> QED BY <1>3 DEF w

-----------------------------------------------------------------------------
(* The end of rolls.                                                         *)

\* What CountTheRoll does to one source: the roll is gone, and the item is given, free,
\* or nothing happens to it. One that was not blocked is not given.
LEMMA ResultsAre ==
  ASSUME NEW o, NEW r
  PROVE  /\ Results(o, r) \subseteq {"given", "lost", Freed(o)}
         /\ r.need = 0 /\ r.greed = 0 => Results(o, r) = {Freed(o)}
         /\ r.voters = {} => Results(o, r) \subseteq {"lost", Freed(o)}
<1> DEFINE k == IF r.need > 0 THEN "need" ELSE "greed"
           U == UNION {IF InWorld(p) THEN {"given", Freed(o)} ELSE {"lost"} : p \in Winners(r, k)}
           V == IF r.voters = {} THEN {"lost"} ELSE {}
<1>1. CASE r.need = 0 /\ r.greed = 0
  BY <1>1 DEF Results
<1>2. CASE ~(r.need = 0 /\ r.greed = 0)
  <2>1. Results(o, r) = U \cup V
    BY <1>2 DEF Results
  <2>2. r.voters = {} => Winners(r, k) = {}
    BY DEF Winners, Voted
  <2> HIDE DEF k
  <2>3. \A x \in U : x \in {"given", "lost", Freed(o)} /\ Winners(r, k) # {}
    OBVIOUS
  <2>4. \A x \in V : x = "lost"
    OBVIOUS
  <2> HIDE DEF U, V
  <2> QED BY <1>2, <2>1, <2>2, <2>3, <2>4
<1> QED BY <1>1, <1>2

LEMMA CountedSource ==
  ASSUME LootInv, NEW rs, NEW cleared \in SUBSET Source, CountRolls(rs, cleared),
         NEW o \in Source, o \in DOMAIN rs /\ item[o] # "blocked" => Alone(rs[o])
  PROVE  /\ o \in cleared => /\ item'[o] = "none" /\ given'[o] = 0
                             /\ roll'[o] = NoRoll /\ o \notin stuck'
         /\ o \in DOMAIN rs \ cleared =>
              /\ roll'[o] = NoRoll
              /\ \/ item[o] = "blocked" /\ item'[o] = "looted" /\ given'[o] = given[o] + 1
                 \/ item[o] = "blocked" /\ item'[o] = "free" /\ given'[o] = given[o]
                 \/ /\ item'[o] = item[o] /\ given'[o] = given[o]
                    /\ item[o] = "blocked" => o \in stuck'
              /\ o \in stuck => o \in stuck'
              /\ o \in stuck' /\ o \notin stuck => item[o] = "blocked"
         /\ o \notin DOMAIN rs \cup cleared =>
              /\ item'[o] = item[o] /\ given'[o] = given[o] /\ roll'[o] = roll[o]
              /\ o \in stuck' <=> o \in stuck
<1>1. PICK res \in [DOMAIN rs -> {"given", "lost"} \cup ItemState] :
        /\ \A x \in DOMAIN rs : res[x] \in Results(x, rs[x])
        /\ item' = [x \in Source |->
                      CASE x \in cleared -> "none"
                        [] x \in DOMAIN rs \ cleared /\ res[x] = "given" -> "looted"
                        [] x \in DOMAIN rs \ cleared /\ res[x] \in ItemState -> res[x]
                        [] OTHER -> item[x]]
        /\ given' = [x \in Source |->
                       CASE x \in cleared -> 0
                         [] x \in DOMAIN rs \ cleared /\ res[x] = "given" -> given[x] + 1
                         [] OTHER -> given[x]]
        /\ roll' = [x \in Source |-> IF x \in DOMAIN rs \cup cleared THEN NoRoll ELSE roll[x]]
        /\ stuck' = (stuck \cup {x \in DOMAIN rs : res[x] = "lost" /\ item[x] = "blocked"}) \ cleared
  BY DEF CountRolls
<1>2. item[o] \in ItemState
  BY DEF LootInv, LootTypes
<1>3. CASE o \in cleared
  BY <1>1, <1>3
<1>4. CASE o \in DOMAIN rs \ cleared
  <2>1. res[o] \in {"given", "lost", Freed(o)}
    <3>1. res[o] \in Results(o, rs[o])
      BY <1>1, <1>4
    <3> QED BY <3>1, ResultsAre
  <2>2. item[o] # "blocked" => res[o] # "given"
    <3> SUFFICES ASSUME item[o] # "blocked" PROVE res[o] # "given"
      OBVIOUS
    <3>1. res[o] \in Results(o, rs[o]) /\ Alone(rs[o])
      BY <1>1, <1>4
    <3>2. Freed(o) \in ItemState
      BY <1>2 DEF Freed, ItemState
    <3>3. res[o] \in {"lost", Freed(o)}
      BY <3>1, ResultsAre DEF Alone
    <3> QED BY <3>2, <3>3 DEF ItemState
  <2>3. Freed(o) = IF item[o] = "blocked" THEN "free" ELSE item[o]
    BY DEF Freed
  <2>4. /\ item'[o] = IF res[o] = "given" THEN "looted" ELSE IF res[o] # "lost" THEN res[o] ELSE item[o]
        /\ given'[o] = IF res[o] = "given" THEN given[o] + 1 ELSE given[o]
        /\ roll'[o] = NoRoll
        /\ o \in stuck' <=> o \in stuck \/ (res[o] = "lost" /\ item[o] = "blocked")
    <3>1. item'[o] = CASE o \in cleared -> "none"
                       [] o \in DOMAIN rs \ cleared /\ res[o] = "given" -> "looted"
                       [] o \in DOMAIN rs \ cleared /\ res[o] \in ItemState -> res[o]
                       [] OTHER -> item[o]
      BY <1>1
    <3>2. given'[o] = CASE o \in cleared -> 0
                        [] o \in DOMAIN rs \ cleared /\ res[o] = "given" -> given[o] + 1
                        [] OTHER -> given[o]
      BY <1>1
    <3>3. /\ roll'[o] = IF o \in DOMAIN rs \cup cleared THEN NoRoll ELSE roll[o]
          /\ o \in stuck' <=> o \notin cleared /\ (o \in stuck \/
                                 (o \in DOMAIN rs /\ res[o] = "lost" /\ item[o] = "blocked"))
      BY <1>1
    <3>4. item'[o] = IF res[o] = "given" THEN "looted" ELSE IF res[o] # "lost" THEN res[o] ELSE item[o]
      <4>1. CASE res[o] = "given"
        BY <1>4, <3>1, <4>1 DEF ItemState
      <4>2. CASE res[o] = "lost"
        BY <1>4, <3>1, <4>2 DEF ItemState
      <4>3. CASE res[o] # "given" /\ res[o] # "lost"
        <5>1. res[o] \in ItemState
          BY <1>1, <1>4, <4>3
        <5> QED BY <1>4, <3>1, <4>3, <5>1
      <4> QED BY <4>1, <4>2, <4>3
    <3>5. given'[o] = IF res[o] = "given" THEN given[o] + 1 ELSE given[o]
      BY <1>4, <3>2
    <3> QED BY <1>4, <3>3, <3>4, <3>5
  <2>5. CASE res[o] = "given"
    BY <1>4, <2>2, <2>4, <2>5
  <2>6. CASE res[o] = "lost"
    BY <1>4, <2>4, <2>6
  <2>7. CASE res[o] = Freed(o) /\ res[o] # "given" /\ res[o] # "lost"
    <3>1. item'[o] = Freed(o) /\ given'[o] = given[o] /\ roll'[o] = NoRoll /\ (o \in stuck' <=> o \in stuck)
      BY <2>4, <2>7
    <3> QED BY <1>4, <2>3, <3>1
  <2> QED BY <2>1, <2>5, <2>6, <2>7
<1>5. CASE o \notin DOMAIN rs \cup cleared
  BY <1>1, <1>5
<1> QED BY <1>3, <1>4, <1>5

LEMMA CountedTypes ==
  ASSUME LootTypes, NEW rs, DOMAIN rs \subseteq Source, NEW cleared \in SUBSET Source,
         CountRolls(rs, cleared)
  PROVE  /\ item' \in [Source -> ItemState]
         /\ roll' \in [Source -> Roll \cup {NoRoll}]
         /\ given' \in [Source -> Nat]
<1>1. PICK res \in [DOMAIN rs -> {"given", "lost"} \cup ItemState] :
        /\ item' = [x \in Source |->
                      CASE x \in cleared -> "none"
                        [] x \in DOMAIN rs \ cleared /\ res[x] = "given" -> "looted"
                        [] x \in DOMAIN rs \ cleared /\ res[x] \in ItemState -> res[x]
                        [] OTHER -> item[x]]
        /\ given' = [x \in Source |->
                       CASE x \in cleared -> 0
                         [] x \in DOMAIN rs \ cleared /\ res[x] = "given" -> given[x] + 1
                         [] OTHER -> given[x]]
        /\ roll' = [x \in Source |-> IF x \in DOMAIN rs \cup cleared THEN NoRoll ELSE roll[x]]
  BY DEF CountRolls
<1>2. ASSUME NEW x \in Source
      PROVE  /\ (CASE x \in cleared -> "none"
                   [] x \in DOMAIN rs \ cleared /\ res[x] = "given" -> "looted"
                   [] x \in DOMAIN rs \ cleared /\ res[x] \in ItemState -> res[x]
                   [] OTHER -> item[x]) \in ItemState
             /\ (CASE x \in cleared -> 0
                   [] x \in DOMAIN rs \ cleared /\ res[x] = "given" -> given[x] + 1
                   [] OTHER -> given[x]) \in Nat
  <2>1. item[x] \in ItemState /\ given[x] \in Nat
    BY DEF LootTypes
  <2>2. x \in DOMAIN rs => res[x] \in {"given", "lost"} \cup ItemState
    OBVIOUS
  <2>3. "none" \in ItemState /\ "looted" \in ItemState
    BY DEF ItemState
  <2>4. CASE x \in cleared
    BY <2>3, <2>4
  <2>5. CASE x \in DOMAIN rs \ cleared
    <3>1. CASE res[x] = "given"
      <4>1. given[x] + 1 \in Nat
        BY <2>1
      <4> QED BY <2>3, <2>5, <3>1, <4>1 DEF ItemState
    <3>2. CASE res[x] = "lost"
      BY <2>1, <2>5, <3>2 DEF ItemState
    <3>3. CASE res[x] # "given" /\ res[x] # "lost"
      BY <2>1, <2>2, <2>5, <3>3
    <3> QED BY <3>1, <3>2, <3>3
  <2>6. CASE x \notin DOMAIN rs \cup cleared
    BY <2>1, <2>6
  <2> QED BY <2>4, <2>5, <2>6
<1>3. item' \in [Source -> ItemState] /\ given' \in [Source -> Nat]
  BY <1>1, <1>2
<1>4. roll' \in [Source -> Roll \cup {NoRoll}]
  BY <1>1 DEF LootTypes
<1> QED BY <1>3, <1>4

LEMMA CreatedSame ==
  ASSUME UNCHANGED partyVars
  PROVE  /\ \A g : IsCreated(g)' <=> IsCreated(g)
         /\ \A r : Counted(r)' <=> Counted(r)
         /\ \A p : InWorld(p)' <=> InWorld(p)
BY DEF partyVars, roster, invitations, presence, IsCreated, Counted, Voted, InWorld

\* One source of which a step changes nothing.
LEMMA SourceSame ==
  ASSUME NEW o \in Source, SourceInv(o), UNCHANGED partyVars,
         item'[o] = item[o], given'[o] = given[o], timer'[o] = timer[o], roll'[o] = roll[o],
         o \in stuck' <=> o \in stuck
  PROVE  SourceInv(o)'
<1>1. Rolling(o)' <=> Rolling(o)
  BY DEF Rolling
<1>2. Alone(roll[o])' <=> Alone(roll[o])
  BY DEF Alone
<1> QED BY <1>1, <1>2, CreatedSame DEF SourceInv

\* Rolls that end: those of a source's timer, or one that is complete.
LEMMA EndKeeps ==
  ASSUME LootInv, UNCHANGED partyVars, NEW rs, DOMAIN rs \subseteq Source,
         NEW cleared \in SUBSET Source, CountRolls(rs, cleared),
         \A o \in DOMAIN rs : Rolling(o) /\ (item[o] # "blocked" => Alone(rs[o])),
         timer' \in [Source -> Party \cup {NoParty}],
         \A o \in Source :
           \/ timer'[o] = timer[o] /\ o \notin cleared
           \/ /\ timer'[o] = NoParty
              /\ item[o] = "blocked" /\ o \notin stuck => o \in DOMAIN rs \cup cleared
  PROVE  LootInv'
<1>1. IInv'
  BY InvStutter DEF LootInv
<1>2. LootTypes'
  BY CountedTypes DEF LootInv, LootTypes
<1>3. ASSUME NEW o \in Source PROVE SourceInv(o)'
  <2>0. /\ SourceInv(o) /\ item[o] \in ItemState /\ given[o] \in Nat
        /\ roll[o] \in Roll \cup {NoRoll}
    BY DEF LootInv, LootTypes
  <2>1. CASE o \in cleared
    <3>1. item'[o] = "none" /\ given'[o] = 0 /\ roll'[o] = NoRoll /\ o \notin stuck' /\ timer'[o] = NoParty
      BY <2>1, CountedSource
    <3> QED BY <3>1 DEF SourceInv, Rolling
  <2>2. CASE o \in DOMAIN rs \ cleared
    <3>1. /\ roll'[o] = NoRoll
          /\ \/ item[o] = "blocked" /\ item'[o] = "looted" /\ given'[o] = given[o] + 1
             \/ item[o] = "blocked" /\ item'[o] = "free" /\ given'[o] = given[o]
             \/ /\ item'[o] = item[o] /\ given'[o] = given[o]
                /\ item[o] = "blocked" => o \in stuck'
          /\ Rolling(o)
      BY <2>2, CountedSource
    <3> QED BY <2>0, <3>1 DEF SourceInv, Rolling
  <2>3. CASE o \notin DOMAIN rs \cup cleared
    <3>1. /\ item'[o] = item[o] /\ given'[o] = given[o] /\ roll'[o] = roll[o]
          /\ o \in stuck' <=> o \in stuck
      BY <2>3, CountedSource
    <3>2. CASE timer'[o] = timer[o]
      BY <2>0, <3>1, <3>2, SourceSame
    <3>3. CASE timer'[o] = NoParty /\ ~(item[o] = "blocked" /\ o \notin stuck)
      <4>1. Rolling(o) => roll[o].party # NoParty
        BY <2>0, RollFields, PartyAssumption DEF Rolling
      <4>2. /\ Rolling(o)' <=> Rolling(o)
            /\ Alone(roll[o])' <=> Alone(roll[o])
        BY <3>1 DEF Rolling, Alone
      <4> QED BY <2>0, <3>1, <3>3, <4>1, <4>2, CreatedSame DEF SourceInv
    <3> QED BY <2>3, <3>2, <3>3
  <2> QED BY <2>1, <2>2, <2>3
<1> QED BY <1>1, <1>2, <1>3 DEF LootInv

LEMMA ExpireStep ==
  ASSUME LootInv, NEW o \in Source, Expire(o)
  PROVE  LootInv'
<1> DEFINE rs == RollsEndedBy(o)
<1>1. /\ timer[o] # NoParty /\ CountRolls(rs, {}) /\ UNCHANGED partyVars
      /\ timer' = [timer EXCEPT ![o] = NoParty]
  BY DEF Expire
<1>2. /\ timer \in [Source -> Party \cup {NoParty}]
      /\ \A x \in Source : SourceInv(x)
  BY DEF LootInv, LootTypes
<1>3. /\ DOMAIN rs = {x \in Source : Rolling(x) /\ roll[x].party = timer[o]}
      /\ \A x \in DOMAIN rs : rs[x] = roll[x]
  BY DEF RollsEndedBy
<1> HIDE DEF rs
<1>4. timer' \in [Source -> Party \cup {NoParty}]
  BY <1>1, <1>2
<1>5. \A x \in DOMAIN rs : Rolling(x) /\ (item[x] # "blocked" => Alone(rs[x]))
  BY <1>2, <1>3 DEF SourceInv
<1>6. ASSUME NEW x \in Source
      PROVE  \/ timer'[x] = timer[x]
             \/ /\ timer'[x] = NoParty
                /\ item[x] = "blocked" /\ x \notin stuck => x \in DOMAIN rs
  BY <1>1, <1>2, <1>3 DEF SourceInv
<1>7. {} \in SUBSET Source /\ DOMAIN rs \subseteq Source
  BY <1>3
<1> QED BY <1>1, <1>4, <1>5, <1>6, <1>7, EndKeeps

LEMMA DecayStep ==
  ASSUME LootInv, NEW o \in Source, Decay(o)
  PROVE  LootInv'
<1> DEFINE rs == RollsEndedBy(o)
<1>1. /\ CountRolls(rs, {o}) /\ UNCHANGED partyVars
      /\ timer' = [timer EXCEPT ![o] = NoParty]
  BY DEF Decay
<1>2. /\ timer \in [Source -> Party \cup {NoParty}]
      /\ \A x \in Source : SourceInv(x)
  BY DEF LootInv, LootTypes
<1>3. /\ DOMAIN rs = {x \in Source : Rolling(x) /\ roll[x].party = timer[o]}
      /\ \A x \in DOMAIN rs : rs[x] = roll[x]
  BY DEF RollsEndedBy
<1> HIDE DEF rs
<1>4. timer' \in [Source -> Party \cup {NoParty}]
  BY <1>1, <1>2
<1>5. \A x \in DOMAIN rs : Rolling(x) /\ (item[x] # "blocked" => Alone(rs[x]))
  BY <1>2, <1>3 DEF SourceInv
<1>6. ASSUME NEW x \in Source
      PROVE  \/ timer'[x] = timer[x] /\ x \notin {o}
             \/ timer'[x] = NoParty /\ x \in DOMAIN rs \cup {o}
  BY <1>1, <1>2
<1>7. {o} \in SUBSET Source /\ DOMAIN rs \subseteq Source
  BY <1>3
<1> QED BY <1>1, <1>4, <1>5, <1>6, <1>7, EndKeeps

LEMMA TakeStep ==
  ASSUME LootInv, NEW p \in Player, NEW o \in Source, Take(p, o)
  PROVE  LootInv'
<1>1. /\ item[o] = "free" /\ UNCHANGED <<roll, timer, stuck>> /\ UNCHANGED partyVars
      /\ item' = [item EXCEPT ![o] = "looted"]
      /\ given' = [given EXCEPT ![o] = @ + 1]
  BY DEF Take
<1>2. IInv'
  BY <1>1, InvStutter DEF LootInv
<1>3. LootTypes'
  BY <1>1 DEF LootInv, LootTypes, ItemState
<1>4. ASSUME NEW x \in Source PROVE SourceInv(x)'
  <2>1. SourceInv(x) /\ item[x] \in ItemState
    BY DEF LootInv, LootTypes
  <2>2. CASE x # o
    <3>1. item'[x] = item[x] /\ given'[x] = given[x]
      BY <1>1, <2>2 DEF LootInv, LootTypes
    <3> QED BY <1>1, <2>1, <3>1, SourceSame
  <2>3. CASE x = o
    <3>1. item'[x] = "looted" /\ given'[x] = given[x] + 1 /\ item[x] = "free"
      BY <1>1, <2>3 DEF LootInv, LootTypes
    <3>2. /\ Rolling(x)' <=> Rolling(x)
          /\ Alone(roll[x])' <=> Alone(roll[x])
      BY <1>1 DEF Rolling, Alone
    <3> QED BY <1>1, <2>1, <3>1, <3>2, CreatedSame DEF SourceInv
  <2> QED BY <2>2, <2>3
<1> QED BY <1>2, <1>3, <1>4 DEF LootInv

LEMMA OpenStep ==
  ASSUME LootInv, NEW o \in Source, NEW g \in Party, NEW S \in SUBSET Player, Open(o, g, S)
  PROVE  LootInv'
<1> DEFINE alone == Cardinality(S) = 1
           r == [party |-> g, voters |-> S, guests |-> S \ members[g],
                 vote |-> [p \in Player |-> IF alone /\ p \in S THEN "need" ELSE "none"],
                 total |-> Cardinality(S), need |-> 0, greed |-> 0, pass |-> 0]
<1>1. /\ item[o] = "none" /\ IsCreated(g) /\ Cardinality(S) \in Byte
      /\ roll' = [roll EXCEPT ![o] = IF S = {} THEN NoRoll ELSE r]
      /\ item' = [item EXCEPT ![o] = IF alone \/ S = {} THEN "free" ELSE "blocked"]
      /\ timer' = [timer EXCEPT ![o] = IF alone \/ S = {} THEN @ ELSE g]
      /\ UNCHANGED partyVars /\ UNCHANGED <<given, stuck>>
  BY DEF Open
<1>2. LootTypes /\ \A x \in Source : SourceInv(x)
  BY DEF LootInv
<1>3. r \in Roll
  <2>1. [p \in Player |-> IF alone /\ p \in S THEN "need" ELSE "none"] \in [Player -> Choice \cup {"none"}]
    BY DEF Choice
  <2>2. 0 \in Byte
    BY DEF Byte
  <2>3. S \ members[g] \in SUBSET Player
    OBVIOUS
  <2> QED BY <1>1, <2>1, <2>2, <2>3 DEF Roll
<1>4. /\ r.party = g /\ r.voters = S /\ r.guests = S \ members[g] /\ r.total = Cardinality(S)
      /\ r.need = 0 /\ r.greed = 0 /\ r.pass = 0
      /\ ~alone => r.vote = [p \in Player |-> "none"]
  OBVIOUS
<1>5. IInv'
  BY <1>1, InvStutter DEF LootInv
<1>6. LootTypes'
  <2>1. item' \in [Source -> ItemState]
    BY <1>1, <1>2 DEF LootTypes, ItemState
  <2>2. timer' \in [Source -> Party \cup {NoParty}]
    BY <1>1, <1>2 DEF LootTypes
  <2> HIDE DEF r
  <2>3. roll' \in [Source -> Roll \cup {NoRoll}]
    BY <1>1, <1>2, <1>3 DEF LootTypes
  <2> QED BY <1>1, <1>2, <2>1, <2>2, <2>3 DEF LootTypes
<1>7. alone => \E p \in Player : S \subseteq {p}
  <2> SUFFICES ASSUME alone PROVE \E p \in Player : S \subseteq {p}
    OBVIOUS
  <2>1. IsFiniteSet(S)
    BY PartyAssumption, FS_Subset
  <2>2. PICK p : S = {p}
    BY <2>1, FS_Singleton
  <2> QED BY <2>2
<1>8. ~alone => Counted(r)
  <2> SUFFICES ASSUME ~alone PROVE Counted(r)
    OBVIOUS
  <2>1. \A k \in Choice : Voted(r, k) = {}
    BY <1>4 DEF Voted, Choice
  <2> HIDE DEF r
  <2> QED BY <1>4, <2>1, FS_EmptySet DEF Counted, Choice
<1>9. ASSUME NEW x \in Source PROVE SourceInv(x)'
  <2>1. CASE x # o
    <3>1. item'[x] = item[x] /\ timer'[x] = timer[x] /\ roll'[x] = roll[x]
      BY <1>1, <1>2, <2>1 DEF LootTypes
    <3> QED BY <1>1, <1>2, <3>1, SourceSame
  <2>2. CASE x = o
    <3>1. timer[o] = NoParty /\ o \notin stuck /\ given'[o] = 0 /\ o \notin stuck'
      BY <1>1, <1>2 DEF SourceInv
    <3>2. /\ item'[o] = IF alone \/ S = {} THEN "free" ELSE "blocked"
          /\ timer'[o] = IF alone \/ S = {} THEN NoParty ELSE g
          /\ roll'[o] = IF S = {} THEN NoRoll ELSE r
      BY <1>1, <1>2, <3>1 DEF LootTypes
    <3>3. IsCreated(g)' /\ r # NoRoll /\ g # NoParty
      BY <1>1, <1>3, CreatedSame, LootAssumption, PartyAssumption
    <3> HIDE DEF r, alone
    <3>4. CASE S = {}
      BY <2>2, <3>1, <3>2, <3>4 DEF SourceInv, Rolling
    <3>5. CASE S # {} /\ alone
      <4>1. roll'[o] = r /\ item'[o] = "free" /\ timer'[o] = NoParty
        BY <3>2, <3>5
      <4>2. Alone(roll[o])'
        BY <1>4, <1>7, <3>5, <4>1 DEF Alone
      <4> QED BY <1>4, <2>2, <3>1, <3>3, <4>1, <4>2 DEF SourceInv, Rolling
    <3>6. CASE S # {} /\ ~alone
      <4>1. roll'[o] = r /\ item'[o] = "blocked" /\ timer'[o] = g
        BY <3>2, <3>6
      <4>2. Counted(roll[o])'
        <5>1. members' = members
          BY <1>1 DEF partyVars, roster
        <5> QED BY <1>8, <3>6, <4>1, <5>1 DEF Counted, Voted
      <4> QED BY <1>4, <2>2, <3>1, <3>3, <3>6, <4>1, <4>2 DEF SourceInv, Rolling
    <3> QED BY <3>4, <3>5, <3>6
  <2> QED BY <2>1, <2>2
<1> QED BY <1>5, <1>6, <1>9 DEF LootInv

\* A vote of one who had none is counted for its choice and for no other.
LEMMA VoteCounted ==
  ASSUME NEW q \in Roll, Counted(q), NEW p \in q.voters, q.vote[p] = "none", NEW k \in Choice
  PROVE  LET r == WithVote(q, p, k) IN
         r \in Roll /\ Counted(r) /\ r.party = q.party
<1> DEFINE r == WithVote(q, p, k)
<1>1. /\ r.party = q.party /\ r.voters = q.voters /\ r.guests = q.guests /\ r.total = q.total
      /\ r.vote = [q.vote EXCEPT ![p] = k]
      /\ r.need = IF k = "need" THEN q.need + 1 ELSE q.need
      /\ r.greed = IF k = "greed" THEN q.greed + 1 ELSE q.greed
      /\ r.pass = IF k = "pass" THEN q.pass + 1 ELSE q.pass
  BY DEF Roll, WithVote
<1> HIDE DEF r
<1>2. /\ p \in Player /\ q.voters \in SUBSET Player /\ q.vote \in [Player -> Choice \cup {"none"}]
      /\ q.guests \in SUBSET Player /\ q.party \in Party /\ q.total \in Byte
      /\ q.need \in Byte /\ q.greed \in Byte /\ q.pass \in Byte
  BY RollFields
<1>3. \A j \in Choice : Voted(r, j) = IF j = k THEN Voted(q, j) \cup {p} ELSE Voted(q, j)
  BY <1>1, <1>2 DEF Voted, Choice
<1>4. p \notin Voted(q, k) /\ IsFiniteSet(Voted(q, k)) /\ IsFiniteSet(q.voters)
  BY <1>2, PartyAssumption, FS_Subset DEF Voted, Choice
<1>5. Cardinality(Voted(r, k)) = Cardinality(Voted(q, k)) + 1
  BY <1>3, <1>4, FS_AddElement
<1>6. Cardinality(Voted(r, k)) \in Byte
  <2>1. Voted(r, k) \subseteq q.voters
    BY <1>3 DEF Voted
  <2>2. Cardinality(Voted(r, k)) <= Cardinality(q.voters) /\ Cardinality(Voted(q, k)) \in Nat
    BY <1>4, <2>1, FS_Subset, FS_CardinalityType
  <2> QED BY <1>2, <1>5, <2>2 DEF Counted, Byte
<1>7. /\ r.need = Cardinality(Voted(r, "need"))
      /\ r.greed = Cardinality(Voted(r, "greed"))
      /\ r.pass = Cardinality(Voted(r, "pass"))
  BY <1>1, <1>3, <1>5 DEF Counted, Choice
<1>8. r.need \in Byte /\ r.greed \in Byte /\ r.pass \in Byte
  BY <1>1, <1>2, <1>6, <1>7 DEF Choice
<1>9. Counted(r)
  BY <1>1, <1>7 DEF Counted
<1>10. r.vote \in [Player -> Choice \cup {"none"}]
  BY <1>1, <1>2
<1>11. r \in Roll
  <2>1. \A n \in Byte, t \in Byte, u \in Byte, v \in [Player -> Choice \cup {"none"}] :
          [q EXCEPT !.vote = v, !.need = n, !.greed = t, !.pass = u] \in Roll
    BY DEF Roll
  <2>2. r = [q EXCEPT !.vote = r.vote, !.need = r.need, !.greed = r.greed, !.pass = r.pass]
    BY <1>1 DEF r, WithVote, Roll
  <2>3. [q EXCEPT !.vote = r.vote, !.need = r.need, !.greed = r.greed, !.pass = r.pass] \in Roll
    BY <1>8, <1>10, <2>1
  <2> QED BY <2>2, <2>3
<1> QED BY <1>1, <1>9, <1>11 DEF r

LEMMA VoteStep ==
  ASSUME LootInv, NEW p \in Player, NEW o \in Source, NEW k \in Choice, Vote(p, o, k)
  PROVE  LootInv'
<1> DEFINE r == WithVote(roll[o], p, k)
<1>1. /\ Rolling(o) /\ item[o] = "blocked" /\ UNCHANGED partyVars /\ UNCHANGED timer
      /\ p \in roll[o].voters /\ roll[o].vote[p] = "none"
      /\ \/ CountRolls([x \in {o} |-> r], {})
         \/ roll' = [roll EXCEPT ![o] = r] /\ UNCHANGED <<item, given, stuck>>
  BY DEF Vote
<1>2. LootTypes /\ \A x \in Source : SourceInv(x)
  BY DEF LootInv
<1>3. roll[o] \in Roll /\ Counted(roll[o])
  BY <1>1, <1>2 DEF LootTypes, SourceInv, Rolling
<1>5. r \in Roll /\ Counted(r) /\ r.party = roll[o].party
  BY <1>1, <1>3, VoteCounted
<1> HIDE DEF r
<1>6. CASE CountRolls([x \in {o} |-> r], {})
  <2> DEFINE rs == [x \in {o} |-> r]
  <2>1. DOMAIN rs = {o} /\ \A x \in DOMAIN rs : Rolling(x) /\ item[x] = "blocked"
    BY <1>1
  <2>2. /\ timer' \in [Source -> Party \cup {NoParty}]
        /\ \A x \in Source : timer'[x] = timer[x] /\ x \notin {}
        /\ {} \in SUBSET Source
    BY <1>1, <1>2 DEF LootTypes
  <2>3. CountRolls(rs, {})
    BY <1>6
  <2> HIDE DEF rs
  <2> QED BY <1>1, <2>1, <2>2, <2>3, EndKeeps
<1>7. CASE roll' = [roll EXCEPT ![o] = r] /\ UNCHANGED <<item, given, stuck>>
  <2>1. IInv'
    BY <1>1, InvStutter DEF LootInv
  <2>2. LootTypes'
    BY <1>1, <1>2, <1>5, <1>7 DEF LootTypes
  <2>3. ASSUME NEW x \in Source PROVE SourceInv(x)'
    <3>1. CASE x # o
      <4>1. roll'[x] = roll[x]
        BY <1>2, <1>7, <3>1 DEF LootTypes
      <4> QED BY <1>1, <1>2, <1>7, <4>1, SourceSame
    <3>2. CASE x = o
      <4>1. roll'[o] = r /\ members' = members
        BY <1>1, <1>2, <1>7 DEF LootTypes, partyVars, roster
      <4>2. Counted(roll[o])'
        BY <1>5, <4>1 DEF Counted, Voted
      <4>3. Rolling(o)' /\ roll'[o].party = roll[o].party
        BY <1>5, <4>1, LootAssumption DEF Rolling
      <4>4. IsCreated(roll[o].party)'
        <5>1. IsCreated(roll[o].party)
          BY <1>1, <1>2 DEF SourceInv
        <5> QED BY <1>1, <4>1, <4>3, <5>1 DEF IsCreated, partyVars, roster
      <4>5. /\ item[o] = "blocked" /\ item'[o] = item[o] /\ given'[o] = given[o]
            /\ timer'[o] = timer[o] /\ (o \in stuck' <=> o \in stuck)
        BY <1>1, <1>7
      <4> QED BY <1>1, <1>2, <3>2, <4>2, <4>3, <4>4, <4>5 DEF SourceInv
    <3> QED BY <3>1, <3>2
  <2> QED BY <2>1, <2>2, <2>3 DEF LootInv
<1> QED BY <1>1, <1>6, <1>7

-----------------------------------------------------------------------------
(* Members come and go under the rolls.                                      *)

\* RollsFollow keeps the rolls right when a step takes only those of out from a group
\* that lives on.
LEMMA RollsFollowKeeps ==
  ASSUME LootInv, NEW out \in Calls, RollsFollow(out),
         \A g \in Party : IsCreated(g) /\ members'[g] # {} => members[g] \ out[g] \subseteq members'[g]
  PROVE  LootTypes' /\ \A o \in Source : SourceInv(o)'
<1> DEFINE gone == {g \in Party : IsCreated(g) /\ members'[g] = {}}
           over == {o \in Source : Rolling(o) /\ roll[o].party \in gone}
<1>1. /\ roll' = [o \in Source |->
                    IF o \in over \/ ~Rolling(o) THEN NoRoll
                    ELSE WithoutVotes(roll[o], out[roll[o].party])]
      /\ stuck' = stuck \cup {o \in over : item[o] = "blocked"}
      /\ UNCHANGED <<item, timer, given>>
  BY DEF RollsFollow
<1>2. LootTypes /\ \A o \in Source : SourceInv(o)
  BY DEF LootInv
<1>3. ASSUME NEW o \in Source, Rolling(o)
      PROVE  /\ roll[o] \in Roll /\ roll[o].party \in Party
             /\ out[roll[o].party] \in SUBSET Player
             /\ WithoutVotes(roll[o], out[roll[o].party]) \in Roll
  <2>1. roll[o] \in Roll
    BY <1>2, <1>3 DEF LootTypes, Rolling
  <2>2. roll[o].party \in Party
    BY <2>1, RollFields
  <2>3. out[roll[o].party] \in SUBSET Player
    BY <2>2 DEF Calls
  <2> QED BY <2>1, <2>2, <2>3, WithoutVotesIs
<1>4. LootTypes'
  BY <1>1, <1>2, <1>3 DEF LootTypes
<1>5. ASSUME NEW o \in Source PROVE SourceInv(o)'
  <2>1. CASE o \in over \/ ~Rolling(o)
    <3>1. roll'[o] = NoRoll
      BY <1>1, <2>1
    <3>2. /\ o \in stuck' <=> o \in stuck \/ (o \in over /\ item[o] = "blocked")
          /\ o \in over => Rolling(o)
      BY <1>1
    <3> QED BY <1>1, <1>2, <2>1, <3>1, <3>2 DEF SourceInv, Rolling
  <2>2. CASE o \notin over /\ Rolling(o)
    <3> DEFINE q == roll[o]
               S == out[q.party]
               w == WithoutVotes(q, S)
    <3>1. q \in Roll /\ q.party \in Party /\ S \in SUBSET Player /\ w \in Roll
      BY <1>3, <2>2
    <3>2. IsCreated(q.party) /\ members'[q.party] # {}
      BY <1>2, <2>2, <3>1 DEF SourceInv
    <3>3. members[q.party] \ S \subseteq members'[q.party]
      BY <3>1, <3>2
    <3>4. roll'[o] = w /\ (o \in stuck' <=> o \in stuck)
      BY <1>1, <2>2
    <3>5. w.party = q.party
      BY <3>1, WithoutVotesIs
    <3>6. IsCreated(roll[o].party)' /\ Rolling(o)'
      BY <3>1, <3>2, <3>4, <3>5, LootAssumption DEF IsCreated, Rolling
    <3>7. item[o] = "blocked" => Counted(roll[o])'
      <4> SUFFICES ASSUME item[o] = "blocked" PROVE Counted(roll[o])'
        OBVIOUS
      <4>1. Counted(q)
        BY <1>2, <2>2 DEF SourceInv
      <4>2. /\ w.total = Cardinality(w.voters)
            /\ w.need = Cardinality(Voted(w, "need"))
            /\ w.greed = Cardinality(Voted(w, "greed"))
            /\ w.pass = Cardinality(Voted(w, "pass"))
            /\ w.voters \subseteq members'[w.party] \cup w.guests
        BY <3>1, <3>3, <4>1, WithoutVotesCounted
      <4> HIDE DEF w
      <4> QED BY <3>4, <4>2 DEF Counted, Voted
    <3>8. item[o] # "blocked" => Alone(roll[o])'
      <4> SUFFICES ASSUME item[o] # "blocked" PROVE Alone(roll[o])'
        OBVIOUS
      <4>1. Alone(q)
        BY <1>2, <2>2 DEF SourceInv
      <4>2. Alone(w)
        BY <3>1, <4>1, WithoutVotesAlone
      <4> HIDE DEF w
      <4> QED BY <3>4, <4>2 DEF Alone
    <3>9. roll'[o].party = roll[o].party
      BY <3>4, <3>5
    <3>10. item'[o] = item[o] /\ timer'[o] = timer[o] /\ given'[o] = given[o]
      BY <1>1
    <3>11. SourceInv(o)
      BY <1>2
    <3> HIDE DEF q, S, w
    <3> QED BY <2>2, <3>4, <3>6, <3>7, <3>8, <3>9, <3>10, <3>11 DEF SourceInv
  <2> QED BY <2>1, <2>2
<1> QED BY <1>4, <1>5

\* Who a step of RemoveMember takes from a group that lives on.
LEMMA RemovedAre ==
  ASSUME PartyTypeOK, NEW out \in Calls, NEW gone \in SUBSET Party,
         members' = MembersAfter(out, gone), NEW g \in Party, members'[g] # {}
  PROVE  members[g] \ out[g] = members'[g]
BY DEF MembersAfter

LEMMA RegroupStep ==
  ASSUME LootInv, Regroup
  PROVE  LootInv' /\ PartyNext
<1>1. IInv /\ PartyTypeOK
  BY DEF LootInv, IInv
<1>2. PartyNext
  BY DEF Regroup, PartyNext
<1>3. IInv'
  BY <1>1, <1>2, InvStep
<1>4. \A out \in Calls, gone \in SUBSET Party : members' = MembersAfter(out, gone) =>
        \A g \in Party : members'[g] # {} => members[g] \ out[g] \subseteq members'[g]
  BY <1>1, RemovedAre
<1>5. \E out \in Calls :
        /\ RollsFollow(out)
        /\ \A g \in Party : IsCreated(g) /\ members'[g] # {} => members[g] \ out[g] \subseteq members'[g]
  <2> DEFINE Fits(out) == \A g \in Party :
               IsCreated(g) /\ members'[g] # {} => members[g] \ out[g] \subseteq members'[g]
  <2>0. /\ Nobody \in Calls
        /\ \A g \in Party : Nobody[g] = {}
    BY OutTypes DEF Nobody, Out
  <2>1. ASSUME NEW p \in Player, Accept(p), RollsFollow(Nobody) PROVE Fits(Nobody)
    <3>1. PICK g \in Party : \E S \in {{p}, {leader[g], p}} : members' = [members EXCEPT ![g] = @ \cup S]
      BY <2>1 DEF Accept, AddMember
    <3> QED BY <1>1, <3>1 DEF PartyTypeOK
  <2>2. ASSUME members' = members PROVE Fits(Nobody)
    BY <2>2
  <2>3. ASSUME NEW p \in Player,
               \/ AcceptFull(p) \/ Teleport(p) \/ Arrive(p) \/ Login(p) \/ EnterWorld(p)
               \/ \E q \in Player : Invite(p, q) \/ SetLeader(p, q)
        PROVE  members' = members
    BY <2>3 DEF AcceptFull, Teleport, Arrive, Login, EnterWorld, Invite, SetLeader, roster
  <2>4. ASSUME NEW p \in Player, UninviteFromGroup(p) PROVE Fits(Nobody)
    <3>1. GivenUp(p) \in SUBSET Party /\ members' = MembersAfter(Nobody, GivenUp(p))
      BY <2>4 DEF UninviteFromGroup, GivenUp
    <3> QED BY <1>4, <2>0, <3>1
  <2>5. ASSUME NEW out \in Calls, NEW found, RemoveMember(out, found) PROVE Fits(out)
    <3>1. Disbanded(out) \in SUBSET Party /\ members' = MembersAfter(out, Disbanded(out))
      BY <2>5 DEF RemoveMember, Disbanded
    <3> QED BY <1>4, <3>1
  <2>6. ASSUME NEW p \in Player, Leave(p) PROVE OutOfTheirs({p}) \in Calls /\ Fits(OutOfTheirs({p}))
    <3>1. OutOfTheirs({p}) \in Calls
      BY OutTypes
    <3>2. \E found : RemoveMember(OutOfTheirs({p}), found)
      BY <2>6 DEF Leave
    <3> QED BY <2>5, <3>1, <3>2
  <2>7. ASSUME NEW p \in Player, NEW q \in Player, Kick(p, q)
        PROVE  LET out == Out(group[p], {q} \cap members[group[p]]) IN out \in Calls /\ Fits(out)
    <3> DEFINE out == Out(group[p], {q} \cap members[group[p]])
    <3>1. group[p] \in Party
      BY <1>1, <2>7 DEF Kick, PartyTypeOK
    <3>2. out \in Calls
      BY <3>1, OutTypes
    <3>3. CASE q \in members[group[p]] /\ RemoveMember(Out(group[p], {q}), {x \in Player : InWorld(x)})
      <4>1. out = Out(group[p], {q})
        <5>1. {q} \cap members[group[p]] = {q}
          BY <3>3
        <5> QED BY <5>1
      <4> QED BY <2>5, <3>2, <3>3, <4>1
    <3>4. CASE q \notin members[group[p]] /\ UninviteFromGroup(q)
      <4>1. \A g \in Party : out[g] = Nobody[g]
        BY <2>0, <3>4 DEF Out
      <4> QED BY <2>4, <3>2, <3>4, <4>1
    <3> QED BY <2>7, <3>3, <3>4 DEF Kick
  <2>8. ASSUME NEW p \in Player, NEW asked \in BOOLEAN, Logout(p, asked)
        PROVE  LoggedOut(p, asked) \in Calls /\ Fits(LoggedOut(p, asked))
    <3> DEFINE gone == GivenUp(p) \cup Disbanded(LoggedOut(p, asked))
    <3>1. LoggedOut(p, asked) \in Calls
      BY OutTypes DEF LoggedOut
    <3>2. gone \in SUBSET Party
      BY DEF GivenUp, Disbanded
    <3>3. members' = MembersAfter(LoggedOut(p, asked), gone)
      BY <2>8 DEF Logout
    <3> QED BY <1>4, <3>1, <3>2, <3>3
  <2>9. ASSUME NEW p \in Player, NEW g \in Party, JoinDungeonGroup(g, p)
        PROVE  OutOfTheirs({p}) \in Calls /\ Fits(OutOfTheirs({p}))
    <3> DEFINE out == OutOfTheirs({p})
               gone == Disbanded(out)
    <3>1. out \in Calls /\ gone \in SUBSET Party
      BY OutTypes DEF Disbanded
    <3>2. /\ members' = [MembersAfter(out, gone) EXCEPT ![g] = @ \cup {p}]
          /\ group[p] # g
      BY <2>9 DEF JoinDungeonGroup
    <3>3. g \notin gone
      BY <3>2 DEF Disbanded, OutOfTheirs
    <3> HIDE DEF out, gone
    <3>4. MembersAfter(out, gone)[g] = members[g] \ out[g]
      BY <3>3 DEF MembersAfter
    <3>5. ASSUME NEW h \in Party, members'[h] # {} PROVE members[h] \ out[h] \subseteq members'[h]
      BY <3>1, <3>2, <3>4, <3>5 DEF MembersAfter
    <3> QED BY <3>1, <3>5 DEF out
  <2>10. ASSUME NEW g \in Party, NEW S \in SUBSET Player, NEW l \in Player, FormDungeonGroup(g, S, l)
         PROVE  OutOfTheirs(S) \in Calls /\ Fits(OutOfTheirs(S))
    <3> DEFINE out == OutOfTheirs(S)
               gone == Disbanded(out)
    <3>1. out \in Calls /\ gone \in SUBSET Party
      BY OutTypes DEF Disbanded
    <3>2. members' = [MembersAfter(out, gone) EXCEPT ![g] = S] /\ leader[g] = NoPlayer
      BY <2>10 DEF FormDungeonGroup, Unused
    <3>3. ~IsCreated(g)
      BY <1>1, <3>2 DEF IInv, GroupsStand, Stands
    <3> HIDE DEF out, gone
    <3>4. ASSUME NEW h \in Party, IsCreated(h), members'[h] # {} PROVE members[h] \ out[h] \subseteq members'[h]
      BY <3>1, <3>2, <3>3, <3>4 DEF MembersAfter
    <3> QED BY <3>1, <3>4 DEF out
  <2> HIDE DEF Fits
  <2>11. ASSUME NEW p \in Player, RollsFollow(Nobody),
                \/ Accept(p) \/ AcceptFull(p) \/ Decline(p)
                \/ Teleport(p) \/ Arrive(p) \/ Login(p) \/ EnterWorld(p)
                \/ \E q \in Player : Invite(p, q) \/ SetLeader(p, q)
         PROVE  Nobody \in Calls /\ Fits(Nobody)
    BY <2>0, <2>1, <2>2, <2>3, <2>4, <2>11 DEF Decline
  <2>12. \E out \in Calls : RollsFollow(out) /\ Fits(out)
    <3>1. ASSUME NEW p \in Player, NEW q \in Player, Kick(p, q),
                 RollsFollow(Out(group[p], {q} \cap members[group[p]]))
          PROVE  \E out \in Calls : RollsFollow(out) /\ Fits(out)
      BY <2>7, <3>1
    <3>2. ASSUME NEW p \in Player, NEW asked \in BOOLEAN, Logout(p, asked), RollsFollow(LoggedOut(p, asked))
          PROVE  \E out \in Calls : RollsFollow(out) /\ Fits(out)
      BY <2>8, <3>2
    <3>3. ASSUME NEW p \in Player, RollsFollow(OutOfTheirs({p})),
                 Leave(p) \/ \E g \in Party : JoinDungeonGroup(g, p)
          PROVE  \E out \in Calls : RollsFollow(out) /\ Fits(out)
      BY <2>6, <2>9, <3>3
    <3>4. ASSUME NEW g \in Party, NEW S \in SUBSET Player, NEW l \in Player,
                 FormDungeonGroup(g, S, l), RollsFollow(OutOfTheirs(S))
          PROVE  \E out \in Calls : RollsFollow(out) /\ Fits(out)
      BY <2>10, <3>4
    <3> QED BY <2>11, <3>1, <3>2, <3>3, <3>4 DEF Regroup
  <2> QED BY <2>12 DEF Fits
<1>6. LootTypes' /\ \A o \in Source : SourceInv(o)'
  BY <1>5, RollsFollowKeeps
<1> QED BY <1>2, <1>3, <1>6 DEF LootInv

LEMMA LootStep ==
  ASSUME LootInv, [Next]_vars
  PROVE  LootInv' /\ [PartyNext]_partyVars
<1>1. CASE Regroup
  BY <1>1, RegroupStep
<1>2. ASSUME NEW o \in Source, Expire(o) PROVE LootInv' /\ UNCHANGED partyVars
  BY <1>2, ExpireStep DEF Expire
<1>3. ASSUME NEW o \in Source, Decay(o) PROVE LootInv' /\ UNCHANGED partyVars
  BY <1>3, DecayStep DEF Decay
<1>4. ASSUME NEW o \in Source, NEW g \in Party, NEW S \in SUBSET Player, Open(o, g, S)
      PROVE  LootInv' /\ UNCHANGED partyVars
  BY <1>4, OpenStep DEF Open
<1>5. ASSUME NEW o \in Source, NEW p \in Player, Take(p, o) PROVE LootInv' /\ UNCHANGED partyVars
  BY <1>5, TakeStep DEF Take
<1>6. ASSUME NEW o \in Source, NEW p \in Player, NEW k \in Choice, Vote(p, o, k)
      PROVE  LootInv' /\ UNCHANGED partyVars
  BY <1>6, VoteStep DEF Vote
<1>7. CASE UNCHANGED vars
  <2>1. UNCHANGED partyVars /\ UNCHANGED <<item, roll, timer, given, stuck>>
    BY <1>7 DEF vars, lootVars
  <2>2. IInv'
    BY <2>1, InvStutter DEF LootInv
  <2>3. LootTypes'
    BY <2>1 DEF LootInv, LootTypes
  <2>4. ASSUME NEW o \in Source PROVE SourceInv(o)'
    BY <2>1, SourceSame DEF LootInv
  <2> QED BY <2>1, <2>2, <2>3, <2>4 DEF LootInv
<1> QED BY <1>1, <1>2, <1>3, <1>4, <1>5, <1>6, <1>7 DEF Next

LEMMA LootAlways == Spec => []LootInv
<1>1. Init => LootInv
  BY LootInit
<1>2. LootInv /\ [Next]_vars => LootInv'
  BY LootStep
<1> QED BY <1>1, <1>2, PTL DEF Spec

\* Looting leaves the groups alone: whatever the handlers of loot and rolls do, the
\* groups under them behave as Group says, so what is proved of PartySpec is true here.
THEOREM LootKeepsParties == Spec => PartySpec
<1>1. Init => PartyInit
  BY DEF Init
<1>2. LootInv /\ [Next]_vars => [PartyNext]_partyVars
  BY LootStep
<1> QED BY <1>1, <1>2, LootAlways, PTL DEF Spec, PartySpec

\* StartLootRoll, CountTheRoll, EndRoll and Creature::StopGroupLoot: a blocked item has
\* its roll where the timer finds it, and no item is given out twice.
THEOREM RollHoldsItemAlways == Spec => []RollHoldsItem
<1>1. LootInv => RollHoldsItem
  <2> SUFFICES ASSUME LootInv, NEW o \in Source
               PROVE  /\ item[o] = "blocked" /\ o \notin stuck =>
                           Rolling(o) /\ timer[o] = roll[o].party /\ IsCreated(timer[o])
                      /\ Rolling(o) /\ timer[o] = roll[o].party => item[o] = "blocked"
                      /\ given[o] = IF item[o] = "looted" THEN 1 ELSE 0
    BY DEF RollHoldsItem
  <2> QED BY DEF LootInv, SourceInv
<1> QED BY <1>1, LootAlways, PTL

\* CountRollVote and _removeRolls: the totals of an announced roll are the votes of those
\* who are still in it, whoever left meanwhile, so no byte of them wraps around.
THEOREM RollCountsItsVotersAlways == Spec => []RollCountsItsVoters
<1>1. LootInv => RollCountsItsVoters
  <2> SUFFICES ASSUME LootInv, NEW o \in Source, Rolling(o), item[o] = "blocked"
               PROVE  roll[o] \in Roll /\ Counted(roll[o])
    BY DEF RollCountsItsVoters, Counted
  <2> QED BY DEF LootInv, LootTypes, SourceInv, Rolling
<1> QED BY <1>1, LootAlways, PTL

===============================================================================
