--------------------------- MODULE VHostRegistry ---------------------------
(***************************************************************************)
(* What a listener's virtual host list promises to the requests it routes: *)
(* at any time a set of virtual hosts is live, at most one per name, and   *)
(* each operation binds one virtual host or unbinds one name.              *)
(***************************************************************************)
CONSTANTS VHost, NameOf

VARIABLE live

OfName(n) == {v \in live : NameOf[v] = n}

Init == live = {}

Bind(v)   == live' = (live \ OfName(NameOf[v])) \cup {v}
Unbind(n) == live' = live \ OfName(n)

Next == \E v \in VHost : Bind(v) \/ Unbind(NameOf[v])

Spec == Init /\ [][Next]_live
=============================================================================
