--------------------------- MODULE MCCharacterLogin ---------------------------
(* CharacterLogin for TLC: the account p1 has characters, c1 and c2 at least. *)
EXTENDS CharacterLogin, TLC

CONSTANTS p1, p2, c1, c2, d1

SessSymmetry == Permutations(Sess)

OwnerTable == [c \in Char |-> IF c = d1 THEN p2 ELSE p1]
==============================================================================
