-------------------------- MODULE MCHClientPool --------------------------
(* Instances of HClientPool for TLC: the clients split over two hosts, and  *)
(* symmetry among goroutines and among the clients of one host.             *)
EXTENDS HClientPool, TLC

CONSTANTS c1, c2, c3, c4, a, b

MCKeyOf == [c \in Client |-> IF c \in {c1, c2, c3} THEN a ELSE b]

Symm == Permutations(Session) \cup Permutations({c1, c2, c3} \cap Client)
=============================================================================
