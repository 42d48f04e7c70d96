--------------------------- MODULE ClientCustody ---------------------------
(***************************************************************************)
(* What the client pool promises, without counters, locks or channels:     *)
(* every client is with one transaction, being drained, idle, or nowhere;  *)
(* a client reaches the idle set only from a transaction, through a drain; *)
(* and the clients kept plus the drains that failed stay under Limit.      *)
(***************************************************************************)
EXTENDS Integers, FiniteSets

CONSTANTS Session, Client, Limit

VARIABLES
  leased,    \* leased[s]: clients in the hands of transaction s
  draining,  \* clients whose last response is being thrown away
  idle,      \* clients ready to be leased again
  failed     \* drains that failed: capacity that is gone

vars == <<leased, draining, idle, failed>>

Leased == UNION {leased[s] : s \in Session}
Kept   == Cardinality(draining) + Cardinality(idle) + failed

Init ==
  /\ leased = [s \in Session |-> {}]
  /\ draining = {} /\ idle = {} /\ failed = 0

(* An idle client, or one nobody has.                                       *)
Lease(s, c) ==
  /\ c \notin Leased \cup draining
  /\ leased' = [leased EXCEPT ![s] = @ \cup {c}]
  /\ idle' = idle \ {c}
  /\ UNCHANGED <<draining, failed>>

Return(s, c) ==
  /\ c \in leased[s]
  /\ Kept < Limit
  /\ leased' = [leased EXCEPT ![s] = @ \ {c}]
  /\ draining' = draining \cup {c}
  /\ UNCHANGED <<idle, failed>>

Forget(s, C) ==
  /\ C \subseteq leased[s]
  /\ leased' = [leased EXCEPT ![s] = @ \ C]
  /\ UNCHANGED <<draining, idle, failed>>

Drained(c) ==
  /\ c \in draining
  /\ draining' = draining \ {c}
  /\ idle' = idle \cup {c}
  /\ UNCHANGED <<leased, failed>>

DrainFailed(c) ==
  /\ c \in draining
  /\ draining' = draining \ {c}
  /\ failed' = failed + 1
  /\ UNCHANGED <<leased, idle>>

Next ==
  \/ \E s \in Session :
       \/ \E c \in Client : Lease(s, c) \/ Return(s, c)
       \/ \E C \in SUBSET leased[s] : Forget(s, C)
  \/ \E c \in Client : Drained(c) \/ DrainFailed(c)

Spec == Init /\ [][Next]_vars
=============================================================================
