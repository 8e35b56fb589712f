----------------------------- MODULE MCGroupLoot ------------------------------
(* GroupLoot for TLC: characters, groups and sources are interchangeable.     *)
EXTENDS GroupLoot, TLC

Symmetry == Permutations(Player) \cup Permutations(Party) \cup Permutations(Source)

\* Behaviours are followed until a player has a slot in two groups or a Player object
\* is freed that a group still points to.
PointersAreSound ==
  \A g \in Party :
    /\ \A h \in Party \ {g} : members[g] \cap members[h] = {}
    /\ \A p \in invitees[g] : Online(p)

Strays == adrift \cup uprooted
Away == {p \in Player : where[p] \in {"teleport", "loading"}}
Idle == {p \in Player : where[p] = "offline" /\ \A g \in Party : p \notin members[g]}
Opened == {s \in Source : item[s] # "none"}

\* At most one player at a time changes maps or waits for its login's queries, and at
\* most one is an exception of the properties. Sources are opened while at most all but
\* one play, and the second one while these are in one group, not away and not invited.
FewAtOnce ==
  /\ Cardinality(Away) <= 1
  /\ Cardinality(Strays) <= 1
  /\ Opened # {} => Idle # {} /\ Cardinality(Strays \cup Away) <= 1
  /\ Opened # {} /\ adrift # {} =>
       (\A p \in Player : invite[p] = NoParty) /\ (\A g \in Party : ~finder[g])
  /\ Cardinality(Opened) > 1 =>
       /\ Strays = {}
       /\ Cardinality({g \in Party : leader[g] # NoPlayer}) <= 1
       /\ \A p \in Player \ Idle : InWorld(p) /\ invite[p] = NoParty
===============================================================================
