-------------------------------- MODULE MCMail --------------------------------
(* Mail for TLC: characters are interchangeable.                              *)
EXTENDS Mail, TLC

CharSymmetry == Permutations(Char)

\* Bound: once a hazard voids the balance, only what may still happen to items is
\* explored, and that only until the last mail is sent.
Explored == ItemsSafe /\ (MoneySafe \/ nextId <= MaxMail)
===============================================================================
