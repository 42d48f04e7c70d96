------------------------- MODULE MCServiceHandler -------------------------
(* Symmetry for ServiceHandler: requests and handlers are interchangeable.  *)
EXTENDS ServiceHandler, TLC

Symm == Permutations(Request) \cup Permutations(Handler)
=============================================================================
