------------------------- MODULE MCRedisSession -------------------------
(* Two Redis virtual hosts, each of which may be stored again; as many      *)
(* addresses as can be referenced at a time, and one to allocate.           *)
EXTENDS RedisSession, TLC

CONSTANTS cache, queue, Cache, Queue

MCNameOf == [v \in VHost |-> IF v = queue THEN Queue ELSE Cache]

Symm == Permutations(Admin) \cup Permutations(Ptr)
=============================================================================
