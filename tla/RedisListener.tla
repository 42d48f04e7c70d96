--------------------------- MODULE RedisListener ---------------------------
(***************************************************************************)
(* The one virtual host slot of a Redis listener (redis/listener.go): an   *)
(* atomic pointer that administrators set and clear without a lock while   *)
(* every connection callback (onAccept, onEvent, onClose) loads it anew.   *)
(*                                                                         *)
(* AddVHost loads, compares the name, then stores; RemoveVHost loads,      *)
(* compares the name, then compares-and-swaps and starts over when the     *)
(* slot changed.  A call that stores takes the address of its argument, so *)
(* two stores of the same virtual host are different pointers.             *)
(***************************************************************************)
EXTENDS FiniteSets

CONSTANTS
  Admin,   \* goroutines that add, update and remove
  VHost,   \* virtual host objects
  Name,    \* their names
  NameOf,  \* VHost.Name()
  Ptr,     \* addresses of the arguments that were stored
  Nil      \* the nil pointer

ASSUME RedisAssumption == Nil \notin Ptr \cup Name /\ NameOf \in [VHost -> Name]

VARIABLES
  slot,    \* listener.vhost
  at,      \* at[p]: the virtual host behind p
  pc,      \* pc[t]: what the administrator does next
  arg,     \* arg[t]: the virtual host to add, or the name to remove
  seen,    \* seen[t]: the pointer its last load returned
  cleared  \* history: since t's call began, the slot did not hold its name

vars == <<slot, at, pc, arg, seen, cleared>>

AdminPC   == {"idle", "add", "remove", "swap", "removed", "panic"}

Fresh == Ptr \ ({slot} \cup {seen[t] : t \in Admin})

NameAt(p) == IF p = Nil THEN Nil ELSE NameOf[at[p]]

Removing(t) == pc[t] \in {"remove", "swap"}

Init ==
  /\ slot = Nil
  /\ \E v \in VHost : at = [p \in Ptr |-> v]
  /\ pc = [t \in Admin |-> "idle"]
  /\ arg = [t \in Admin |-> Nil]
  /\ seen = [t \in Admin |-> Nil]
  /\ cleared = [t \in Admin |-> FALSE]

(* An atomic store of a new pointer to v.  Removers in progress take note   *)
(* when the slot then holds another name than theirs.                       *)
Store(v) ==
  \E p \in Fresh :
    /\ slot' = p
    /\ at' = [at EXCEPT ![p] = v]
    /\ cleared' = [t \in Admin |-> cleared[t] \/ (Removing(t) /\ NameOf[v] # arg[t])]

(* AddVHost: the load and the comparison with the name.                     *)
AddLoad(t, v) ==
  /\ pc[t] = "idle"
  /\ NameAt(slot) # NameOf[v]
  /\ pc' = [pc EXCEPT ![t] = "add"]
  /\ arg' = [arg EXCEPT ![t] = v]
  /\ UNCHANGED <<slot, at, seen, cleared>>

AddStore(t) ==
  /\ pc[t] = "add"
  /\ Store(arg[t])
  /\ pc' = [pc EXCEPT ![t] = "idle"]
  /\ arg' = [arg EXCEPT ![t] = Nil]
  /\ UNCHANGED seen

UpdateVHost(t, v) ==
  /\ pc[t] = "idle"
  /\ Store(v)
  /\ UNCHANGED <<pc, arg, seen>>

RemoveVHost(t, n) ==
  /\ pc[t] = "idle"
  /\ pc' = [pc EXCEPT ![t] = "remove"]
  /\ arg' = [arg EXCEPT ![t] = n]
  /\ cleared' = [cleared EXCEPT ![t] = NameAt(slot) # n]
  /\ UNCHANGED <<slot, at, seen>>

(* The loop's load: a nil slot is dereferenced, another name ends the call. *)
RemoveLoad(t) ==
  /\ pc[t] = "remove"
  /\ IF slot = Nil
     THEN /\ pc' = [pc EXCEPT ![t] = "panic"]
          /\ UNCHANGED seen
     ELSE IF NameAt(slot) = arg[t]
     THEN /\ pc' = [pc EXCEPT ![t] = "swap"]
          /\ seen' = [seen EXCEPT ![t] = slot]
     ELSE /\ pc' = [pc EXCEPT ![t] = "removed"]
          /\ UNCHANGED seen
  /\ UNCHANGED <<slot, at, arg, cleared>>

(* Faults: the call gives up when the slot changed; it clears the slot      *)
(* whatever it holds now.                                                   *)
RemoveSwapOnce(t) ==
  /\ pc[t] = "swap"
  /\ IF slot = seen[t]
     THEN /\ slot' = Nil
          /\ cleared' = [u \in Admin |-> cleared[u] \/ Removing(u)]
     ELSE UNCHANGED <<slot, cleared>>
  /\ pc' = [pc EXCEPT ![t] = "removed"]
  /\ seen' = [seen EXCEPT ![t] = Nil]
  /\ UNCHANGED <<at, arg>>

RemoveSwapBlind(t) ==
  /\ pc[t] = "swap"
  /\ slot' = Nil
  /\ cleared' = [u \in Admin |-> cleared[u] \/ Removing(u)]
  /\ pc' = [pc EXCEPT ![t] = "removed"]
  /\ seen' = [seen EXCEPT ![t] = Nil]
  /\ UNCHANGED <<at, arg>>

(* CompareAndSwap, and the next round of the loop when it fails.            *)
RemoveSwap(t) ==
  /\ pc[t] = "swap"
  /\ IF slot = seen[t]
     THEN /\ slot' = Nil
          /\ cleared' = [u \in Admin |-> cleared[u] \/ Removing(u)]
          /\ pc' = [pc EXCEPT ![t] = "removed"]
     ELSE /\ pc' = [pc EXCEPT ![t] = "remove"]
          /\ UNCHANGED <<slot, cleared>>
  /\ seen' = [seen EXCEPT ![t] = Nil]
  /\ UNCHANGED <<at, arg>>

(* The call is over; after a panic the caller recovered.                    *)
Return(t) ==
  /\ pc[t] \in {"removed", "panic"}
  /\ pc' = [pc EXCEPT ![t] = "idle"]
  /\ arg' = [arg EXCEPT ![t] = Nil]
  /\ cleared' = [cleared EXCEPT ![t] = FALSE]
  /\ UNCHANGED <<slot, at, seen>>

Next ==
  \E t \in Admin :
     \/ \E v \in VHost : AddLoad(t, v) \/ UpdateVHost(t, v)
     \/ \E n \in Name : RemoveVHost(t, n)
     \/ AddStore(t) \/ RemoveLoad(t) \/ RemoveSwap(t) \/ Return(t)

Spec == Init /\ [][Next]_vars

----------------------------------------------------------------------------
(* Ranges of the variables.                                                 *)
TypeOK ==
  /\ slot \in Ptr \cup {Nil}
  /\ at \in [Ptr -> VHost]
  /\ pc \in [Admin -> AdminPC]
  /\ arg \in [Admin -> VHost \cup Name \cup {Nil}]
  /\ seen \in [Admin -> Ptr \cup {Nil}]
  /\ cleared \in [Admin -> BOOLEAN]

(* RemoveVHost never takes away a virtual host of another name, although    *)
(* the name was compared in an earlier load: an update that slipped in      *)
(* makes the swap fail.                                                     *)
RemoveOnlyNamed ==
  [][slot # Nil /\ slot' = Nil =>
       \E t \in Admin : pc[t] = "swap" /\ arg[t] = NameAt(slot)]_vars

(* When RemoveVHost returns, there was a moment during the call at which    *)
(* the listener did not serve the name: it is not fooled by a concurrent    *)
(* update into doing nothing.                                               *)
RemoveTookEffect == \A t \in Admin : pc[t] = "removed" => cleared[t]

=============================================================================
