----------------------------- MODULE MCLoginQueue -----------------------------
(* LoginQueue for TLC: session objects and the players' accounts are          *)
(* interchangeable.                                                           *)
EXTENDS LoginQueue, TLC

SessSymmetry == Permutations(Sess) \union Permutations(Account \ Staff)

\* ".server plimit": no limit, limits below and above the initial one, and a
\* negative one, which admits nobody from the queue.
LimitsAfterStart == {-1, 0, 1, 2}
==============================================================================
