----------------------------- MODULE ServerRun -----------------------------
(***************************************************************************)
(* Server.Run (server/server.go): one goroutine per listener, and a        *)
(* WaitGroup that is waited for.                                           *)
(*                                                                         *)
(* The goroutines close over the loop variable vv.  The module's go.mod    *)
(* asks for Go 1.16, where a loop has one such variable: a goroutine runs  *)
(* whatever listener vv holds when the goroutine reads it, which the loop  *)
(* may have changed since.  The read races with the assignment; it is      *)
(* modelled as returning the value of the moment.  Running a listener that *)
(* already listens fails, because its address is in use.                   *)
(***************************************************************************)
EXTENDS Integers, FiniteSets

CONSTANT N  \* len(s.listener)

ASSUME ServerAssumption == N \in Nat \ {0}

Listener  == 1..N
Goroutine == 1..N  \* the goroutine started in the i-th round

VARIABLES
  next,     \* rounds of the loop that are done
  vv,       \* the loop variable
  wg,       \* counter of s.wg
  go,       \* go[g]: the state of goroutine g
  runs,     \* runs[g]: the listener g called Run on, 0 before
  returned  \* Run has returned

vars == <<next, vv, wg, go, runs, returned>>

GoState == {"absent", "ready", "serving", "ended"}

Serving == {g \in Goroutine : go[g] = "serving"}

Init ==
  /\ next = 0 /\ vv = 0
  /\ wg = N  \* s.wg.Add(len(s.listener))
  /\ go = [g \in Goroutine |-> "absent"]
  /\ runs = [g \in Goroutine |-> 0]
  /\ returned = FALSE

(* One round: assign vv, start a goroutine.                                 *)
Assign ==
  /\ next < N /\ vv = next
  /\ vv' = next + 1
  /\ UNCHANGED <<next, wg, go, runs, returned>>

Go ==
  /\ vv = next + 1
  /\ next' = next + 1
  /\ go' = [go EXCEPT ![vv] = "ready"]
  /\ UNCHANGED <<vv, wg, runs, returned>>

Taken(l) == \E g \in Serving : runs[g] = l

(* vv.Run() in a goroutine: it listens, or fails because the listener       *)
(* already does or the environment refuses the address.                     *)
RunListener(g) ==
  /\ go[g] = "ready"
  /\ runs' = [runs EXCEPT ![g] = vv]
  /\ \/ ~Taken(vv) /\ go' = [go EXCEPT ![g] = "serving"] /\ UNCHANGED wg
     \/ go' = [go EXCEPT ![g] = "ended"] /\ wg' = wg - 1
  /\ UNCHANGED <<next, vv, returned>>

(* A fault: Done is not called when Run returns an error.                   *)
ListenerFailsUndone(g) ==
  /\ go[g] = "serving"
  /\ go' = [go EXCEPT ![g] = "ended"]
  /\ UNCHANGED <<next, vv, wg, runs, returned>>

(* A serving listener fails later (the deferred s.wg.Done runs).            *)
ListenerFails(g) ==
  /\ go[g] = "serving"
  /\ go' = [go EXCEPT ![g] = "ended"]
  /\ wg' = wg - 1
  /\ UNCHANGED <<next, vv, runs, returned>>

(* s.wg.Wait                                                                *)
Wait ==
  /\ next = N /\ wg = 0 /\ ~returned
  /\ returned' = TRUE
  /\ UNCHANGED <<next, vv, wg, go, runs>>

Next ==
  \/ Assign \/ Go \/ Wait
  \/ \E g \in Goroutine : RunListener(g) \/ ListenerFails(g)

Spec == Init /\ [][Next]_vars

Fairness == WF_vars(Assign \/ Go \/ Wait) /\ \A g \in Goroutine : WF_vars(RunListener(g))
FairSpec == Spec /\ Fairness

----------------------------------------------------------------------------
(* Ranges of the variables.                                                 *)
TypeOK ==
  /\ next \in 0..N /\ vv \in 0..N /\ wg \in 0..N
  /\ go \in [Goroutine -> GoState] /\ runs \in [Goroutine -> 0..N]
  /\ returned \in BOOLEAN

(* Run does not return while a listener serves, and does not go on waiting  *)
(* for goroutines that are gone: the WaitGroup counts exactly those that    *)
(* have not ended, started or not.                                          *)
WaitsForAll ==
  /\ wg = Cardinality({g \in Goroutine : go[g] # "ended"})
  /\ returned => Serving = {}

(* "run all the listener": every listener's Run is called.                  *)
RunAll == <>(\A l \in Listener : \E g \in Goroutine : runs[g] = l)
=============================================================================
