---------------------------- MODULE MCVHostList ----------------------------
(* Versions of two virtual hosts.  In the fixed configuration all versions  *)
(* have the same server name; in the moving one blog2 moves to a server     *)
(* name of its own and shop2 to the one of blog1.                           *)
EXTENDS VHostList

CONSTANTS blog1, blog2, shop1, shop2, Blog, Shop, srvA, srvB, srvC

MCNameOf == [v \in VHost |-> IF v \in {blog1, blog2} THEN Blog ELSE Shop]

FixedServerOf  == [v \in VHost |-> IF v \in {blog1, blog2} THEN srvA ELSE srvB]
MovingServerOf == [v \in VHost |-> IF v \in {blog1, shop2} THEN srvA
                                   ELSE IF v = blog2 THEN srvC ELSE srvB]
=============================================================================
