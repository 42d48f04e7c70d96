---------------------------- MODULE HClientPool ----------------------------
(***************************************************************************)
(* The upstream HTTP client pool of one virtual host (util/hclient.go) and *)
(* the request goroutines that use it through serviceHandler.GetHttpClient *)
(* and serviceHandler.finish (http/vhost/service_handler.go).              *)
(*                                                                         *)
(* A request goroutine (a session) takes clients, issues one HTTP request  *)
(* with each, may consume or close the response bodies from its script,    *)
(* and at the end of the transaction Puts every client.  Put checks the    *)
(* capacity in one critical section, counts the client as draining in a    *)
(* second one, and then blocks on an unbuffered channel until the single   *)
(* drainer goroutine receives the client.  The drainer throws the rest of  *)
(* the body away and moves the client back into the pool.                  *)
(*                                                                         *)
(* Abstractions.  A client is an identity with a fixed cache key; the      *)
(* identity of a client the program dropped is recycled by tryCreate.  The *)
(* bucket of a key is a set (the code pops its last element).  reuseSize   *)
(* and newSize, counters nobody reads but Stats, are left out;             *)
(* drainProduce and drainConsume are kept as their difference, backlog.    *)
(***************************************************************************)
EXTENDS Integers, Sequences, FiniteSets

CONSTANTS
  Session,      \* request goroutines of the virtual host
  Client,       \* identities of *http.Client objects
  Key,          \* cache keys, "scheme:host"
  KeyOf,        \* KeyOf[c] is the cache key of the URL c was created for
  MaxPoolSize,  \* HClientPool.maxPoolSize
  MaxActive,    \* bound: clients one transaction may hold
  NoClient      \* the zero HClient

ASSUME SessionAssumption == IsFiniteSet(Session)
ASSUME ClientAssumption  == NoClient \notin Client
ASSUME KeyAssumption     == KeyOf \in [Client -> Key]
ASSUME SizeAssumption    == MaxPoolSize \in Nat /\ MaxActive \in Nat

VARIABLES
  pc,         \* pc[s]: what the goroutine does next
  active,     \* active[s]: serviceHandler.activeHttpClient
  cur,        \* cur[s]: the argument of the Put in progress
  idle,       \* idle[k]: HClientPool.p[k]
  size,       \* HClientPool.size
  drainSize,  \* HClientPool.drainSize
  backlog,    \* HClientPool.drainProduce - HClientPool.drainConsume
  sendq,      \* goroutines blocked in "h.drain <- c", oldest first
  dpc, dcur,  \* the drainer goroutine and its local variable x
  resp,       \* resp[c]: HClient.resp and the state of its body
  lost        \* history: drains that failed since the pool was made

vars == <<pc, active, cur, idle, size, drainSize, backlog, sendq, dpc, dcur,
          resp, lost>>

(* "open": the body may still be read; "empty": http.NoBody, which reads    *)
(* EOF and ignores Close; "closed": Close was called, reading is an error.  *)
RespState  == {"none", "open", "empty", "closed"}
SessionPC  == {"run", "do", "put", "count", "send", "wait"}
DrainerPC  == {"recv", "count", "copy", "back"}

Idle     == UNION {idle[k] : k \in Key}
Counting == {s \in Session : pc[s] = "count"}
InFlight == {s \in Session : pc[s] \in {"send", "wait"}}

Owned(c) ==
  \/ c \in Idle
  \/ \E s \in Session : c \in active[s] \/ c = cur[s]
  \/ c = dcur

Closed(r) == IF r = "open" THEN "closed" ELSE r

Init ==
  /\ pc = [s \in Session |-> "run"]
  /\ active = [s \in Session |-> {}]
  /\ cur = [s \in Session |-> NoClient]
  /\ idle = [k \in Key |-> {}]
  /\ size = 0 /\ drainSize = 0 /\ backlog = 0
  /\ sendq = <<>>
  /\ dpc = "recv" /\ dcur = NoClient
  /\ resp = [c \in Client |-> "none"]
  /\ lost = 0

----------------------------------------------------------------------------
(* Request goroutines.                                                      *)

CanGet(s) == pc[s] = "run" /\ Cardinality(active[s]) < MaxActive

(* A fault: the bucket keeps the client it hands out.                       *)
GetReuseKept(s, k) ==
  /\ CanGet(s)
  /\ size # 0
  /\ \E c \in idle[k] :
       /\ active' = [active EXCEPT ![s] = @ \cup {c}]
       /\ cur' = [cur EXCEPT ![s] = c]
  /\ size' = size - 1
  /\ pc' = [pc EXCEPT ![s] = "do"]
  /\ UNCHANGED <<idle, drainSize, backlog, sendq, dpc, dcur, resp, lost>>

(* A fault: size is not decremented.                                        *)
GetReuseUncounted(s, k) ==
  /\ CanGet(s)
  /\ size # 0
  /\ \E c \in idle[k] :
       /\ idle' = [idle EXCEPT ![k] = @ \ {c}]
       /\ active' = [active EXCEPT ![s] = @ \cup {c}]
       /\ cur' = [cur EXCEPT ![s] = c]
  /\ pc' = [pc EXCEPT ![s] = "do"]
  /\ UNCHANGED <<size, drainSize, backlog, sendq, dpc, dcur, resp, lost>>

(* HClientPool.Get when tryGet finds an idle client for the URL.            *)
GetReuse(s, k) ==
  /\ CanGet(s)
  /\ size # 0
  /\ \E c \in idle[k] :
       /\ idle' = [idle EXCEPT ![k] = @ \ {c}]
       /\ active' = [active EXCEPT ![s] = @ \cup {c}]
       /\ cur' = [cur EXCEPT ![s] = c]
  /\ size' = size - 1
  /\ pc' = [pc EXCEPT ![s] = "do"]
  /\ UNCHANGED <<drainSize, backlog, sendq, dpc, dcur, resp, lost>>

(* HClientPool.Get when tryGet misses: tryCreate's own critical section     *)
(* only counts newSize, which no code reads, so the miss decides.           *)
GetNew(s, k) ==
  /\ CanGet(s)
  /\ size = 0 \/ idle[k] = {}
  /\ \E c \in Client :
       /\ ~Owned(c) /\ KeyOf[c] = k
       /\ resp' = [resp EXCEPT ![c] = "none"]
       /\ active' = [active EXCEPT ![s] = @ \cup {c}]
       /\ cur' = [cur EXCEPT ![s] = c]
  /\ pc' = [pc EXCEPT ![s] = "do"]
  /\ UNCHANGED <<idle, size, drainSize, backlog, sendq, dpc, dcur, lost>>

(* HClient.Do answered: the response replaces whatever resp held.           *)
DoOk(s) ==
  /\ pc[s] = "do"
  /\ \E r \in {"open", "empty"} : resp' = [resp EXCEPT ![cur[s]] = r]
  /\ pc' = [pc EXCEPT ![s] = "run"]
  /\ cur' = [cur EXCEPT ![s] = NoClient]
  /\ UNCHANGED <<active, idle, size, drainSize, backlog, sendq, dpc, dcur, lost>>

(* HClient.Do failed: err is set, the response of an earlier use stays.     *)
DoErr(s) ==
  /\ pc[s] = "do"
  /\ pc' = [pc EXCEPT ![s] = "run"]
  /\ cur' = [cur EXCEPT ![s] = NoClient]
  /\ UNCHANGED <<active, idle, size, drainSize, backlog, sendq, dpc, dcur, resp,
                 lost>>

(* The script consumes a body as a string or closes it: ReadableStream      *)
(* closes the underlying response body.                                     *)
CloseBody(s, c) ==
  /\ pc[s] = "run" /\ c \in active[s] /\ resp[c] = "open"
  /\ resp' = [resp EXCEPT ![c] = Closed(@)]
  /\ UNCHANGED <<pc, active, cur, idle, size, drainSize, backlog, sendq, dpc,
                 dcur, lost>>

(* serviceHandler.finish enters its loop over activeHttpClient.             *)
Finish(s) ==
  /\ pc[s] = "run" /\ active[s] # {}
  /\ pc' = [pc EXCEPT ![s] = "put"]
  /\ UNCHANGED <<active, cur, idle, size, drainSize, backlog, sendq, dpc, dcur,
                 resp, lost>>

(* A panic in the deferred function of main, before finish: the transaction *)
(* ends without any Put and its clients are garbage.                        *)
Abandon(s) ==
  /\ pc[s] = "run" /\ active[s] # {}
  /\ resp' = [c \in Client |-> IF c \in active[s] THEN "none" ELSE resp[c]]
  /\ active' = [active EXCEPT ![s] = {}]
  /\ UNCHANGED <<pc, cur, idle, size, drainSize, backlog, sendq, dpc, dcur, lost>>

(* Faults: the clients being drained are not counted; the bound is one off. *)
HasRoomIdleOnly == size + 1 < MaxPoolSize
HasRoomOneOff   == size + drainSize + 1 <= MaxPoolSize

HasRoom == size + drainSize + 1 < MaxPoolSize

(* A fault: the transaction keeps the client it puts.                       *)
ShouldPutKept(s) ==
  /\ pc[s] = "put"
  /\ HasRoom
  /\ \E c \in active[s] :
       /\ resp[c] # "none"
       /\ cur' = [cur EXCEPT ![s] = c]
  /\ pc' = [pc EXCEPT ![s] = "count"]
  /\ UNCHANGED <<active, idle, size, drainSize, backlog, sendq, dpc, dcur, resp, lost>>

(* Put, first critical section (shouldPut), accepted, and tryDrain's test   *)
(* of resp: the client goes on to be counted.                               *)
ShouldPut(s) ==
  /\ pc[s] = "put"
  /\ HasRoom
  /\ \E c \in active[s] :
       /\ resp[c] # "none"
       /\ active' = [active EXCEPT ![s] = @ \ {c}]
       /\ cur' = [cur EXCEPT ![s] = c]
  /\ pc' = [pc EXCEPT ![s] = "count"]
  /\ UNCHANGED <<idle, size, drainSize, backlog, sendq, dpc, dcur, resp, lost>>

(* Put returns without keeping the client: no room, or it has no response.  *)
Discard(s) ==
  /\ pc[s] = "put"
  /\ \E c \in active[s] :
       /\ ~HasRoom \/ resp[c] = "none"
       /\ active' = [active EXCEPT ![s] = @ \ {c}]
       /\ resp' = [resp EXCEPT ![c] = "none"]
  /\ UNCHANGED <<pc, cur, idle, size, drainSize, backlog, sendq, dpc, dcur, lost>>

(* finish has handled every client: activeHttpClient = nil.                 *)
Finished(s) ==
  /\ pc[s] = "put" /\ active[s] = {}
  /\ pc' = [pc EXCEPT ![s] = "run"]
  /\ UNCHANGED <<active, cur, idle, size, drainSize, backlog, sendq, dpc, dcur,
                 resp, lost>>

(* tryDrain, its critical section.                                          *)
CountDrain(s) ==
  /\ pc[s] = "count"
  /\ drainSize' = drainSize + 1
  /\ backlog' = backlog + 1
  /\ pc' = [pc EXCEPT ![s] = "send"]
  /\ UNCHANGED <<active, cur, idle, size, sendq, dpc, dcur, resp, lost>>

(* tryDrain, "h.drain <- c": the goroutine joins the channel's wait queue.  *)
Send(s) ==
  /\ pc[s] = "send"
  /\ sendq' = Append(sendq, s)
  /\ pc' = [pc EXCEPT ![s] = "wait"]
  /\ UNCHANGED <<active, cur, idle, size, drainSize, backlog, dpc, dcur, resp,
                 lost>>

----------------------------------------------------------------------------
(* The drainer goroutine, doDrain.                                          *)

(* A fault: the newest sender is served first.                              *)
RecvNewest ==
  /\ dpc = "recv" /\ sendq # <<>>
  /\ LET s == sendq[Len(sendq)] IN
       /\ dcur' = cur[s]
       /\ cur' = [cur EXCEPT ![s] = NoClient]
       /\ pc' = [pc EXCEPT ![s] = "put"]
  /\ sendq' = SubSeq(sendq, 1, Len(sendq) - 1)
  /\ dpc' = "count"
  /\ UNCHANGED <<active, idle, size, drainSize, backlog, resp, lost>>

(* "x := <-h.drain" takes the oldest sender's client and releases it.       *)
Recv ==
  /\ dpc = "recv" /\ sendq # <<>>
  /\ dcur' = cur[Head(sendq)]
  /\ cur' = [cur EXCEPT ![Head(sendq)] = NoClient]
  /\ pc' = [pc EXCEPT ![Head(sendq)] = "put"]
  /\ sendq' = Tail(sendq)
  /\ dpc' = "count"
  /\ UNCHANGED <<active, idle, size, drainSize, backlog, resp, lost>>

(* A fault: drainConsume is not incremented.                                *)
CountConsumeMissed ==
  /\ dpc = "count"
  /\ dpc' = IF resp[dcur] = "none" THEN "recv" ELSE "copy"
  /\ dcur' = IF resp[dcur] = "none" THEN NoClient ELSE dcur
  /\ UNCHANGED <<pc, active, cur, idle, size, drainSize, backlog, sendq, resp, lost>>

(* drainConsume++, then the test of x.resp.                                 *)
CountConsume ==
  /\ dpc = "count"
  /\ backlog' = backlog - 1
  /\ dpc' = IF resp[dcur] = "none" THEN "recv" ELSE "copy"
  /\ dcur' = IF resp[dcur] = "none" THEN NoClient ELSE dcur
  /\ UNCHANGED <<pc, active, cur, idle, size, drainSize, sendq, resp, lost>>

(* A fault: the drained body is not closed.                                 *)
CopyOkUnclosed ==
  /\ dpc = "copy" /\ resp[dcur] \in {"open", "empty"}
  /\ dpc' = "back"
  /\ UNCHANGED <<pc, active, cur, idle, size, drainSize, backlog, sendq, dcur,
                 resp, lost>>

(* io.CopyN reached its limit or EOF, and the body is closed.               *)
CopyOk ==
  /\ dpc = "copy" /\ resp[dcur] \in {"open", "empty"}
  /\ resp' = [resp EXCEPT ![dcur] = Closed(@)]
  /\ dpc' = "back"
  /\ UNCHANGED <<pc, active, cur, idle, size, drainSize, backlog, sendq, dcur, lost>>

(* io.CopyN failed: the upstream broke or timed out, or the script had      *)
(* already closed the body.  "continue" drops the client and nothing gives  *)
(* its share of drainSize back.                                             *)
CopyErr ==
  /\ dpc = "copy" /\ resp[dcur] \in {"open", "closed"}
  /\ resp' = [resp EXCEPT ![dcur] = "none"]
  /\ dpc' = "recv" /\ dcur' = NoClient
  /\ lost' = lost + 1
  /\ UNCHANGED <<pc, active, cur, idle, size, drainSize, backlog, sendq>>

(* Faults: x is cleared before it is appended; drainSize is not decremented. *)
PutBackCleared ==
  /\ dpc = "back"
  /\ drainSize' = drainSize - 1
  /\ size' = size + 1
  /\ idle' = [idle EXCEPT ![KeyOf[dcur]] = @ \cup {NoClient}]
  /\ dpc' = "recv" /\ dcur' = NoClient
  /\ UNCHANGED <<pc, active, cur, backlog, sendq, resp, lost>>

PutBackUncounted ==
  /\ dpc = "back"
  /\ size' = size + 1
  /\ idle' = [idle EXCEPT ![KeyOf[dcur]] = @ \cup {dcur}]
  /\ dpc' = "recv" /\ dcur' = NoClient
  /\ UNCHANGED <<pc, active, cur, drainSize, backlog, sendq, resp, lost>>

PutBack ==
  /\ dpc = "back"
  /\ drainSize' = drainSize - 1
  /\ size' = size + 1
  /\ idle' = [idle EXCEPT ![KeyOf[dcur]] = @ \cup {dcur}]
  /\ dpc' = "recv" /\ dcur' = NoClient
  /\ UNCHANGED <<pc, active, cur, backlog, sendq, resp, lost>>

----------------------------------------------------------------------------
Put(s)     == ShouldPut(s) \/ Discard(s) \/ Finished(s) \/ CountDrain(s) \/ Send(s)
Do(s)      == DoOk(s) \/ DoErr(s)
doDrain    == Recv \/ CountConsume \/ CopyOk \/ CopyErr \/ PutBack

Next ==
  \/ \E s \in Session :
       \/ \E k \in Key : GetReuse(s, k) \/ GetNew(s, k)
       \/ \E c \in Client : CloseBody(s, c)
       \/ Do(s) \/ Finish(s) \/ Abandon(s) \/ Put(s)
  \/ doDrain

Spec == Init /\ [][Next]_vars

(* Goroutines that can run do run, and the drainer's copy ends: it reads at *)
(* most maxDrainSize bytes under the http.Client timeout.                   *)
Fairness == WF_vars(doDrain) /\ \A s \in Session : WF_vars(Put(s))

FairSpec == Spec /\ Fairness

----------------------------------------------------------------------------
(* Every variable ranges over what the Go types and the control flow allow. *)
TypeOK ==
  /\ pc \in [Session -> SessionPC]
  /\ active \in [Session -> SUBSET Client]
  /\ cur \in [Session -> Client \cup {NoClient}]
  /\ idle \in [Key -> SUBSET Client]
  /\ size \in Int /\ drainSize \in Int /\ backlog \in Int /\ lost \in Nat
  /\ sendq \in Seq(Session)
  /\ dpc \in DrainerPC
  /\ dcur \in Client \cup {NoClient}
  /\ resp \in [Client -> RespState]

(* A client is used by one goroutine at a time: a pooled client is in no    *)
(* transaction and not with the drainer, no two transactions hold the same  *)
(* client, and a client handed to the drainer has left its transaction.     *)
(* HClient is copied by value and Put is called on a copy while             *)
(* activeHttpClient still points at the original, so this is where a double *)
(* Put or a late use would show.                                            *)
Held(s)   == IF pc[s] = "do" THEN active[s] ELSE active[s] \cup ({cur[s]} \ {NoClient})
SoleOwner ==
  /\ \A s \in Session :
       /\ Held(s) \cap Idle = {}
       /\ dcur \notin Held(s)
       /\ pc[s] # "do" => cur[s] \notin active[s]
  /\ dcur \notin Idle
  /\ \A s, t \in Session : s # t => Held(s) \cap Held(t) = {}

(* An idle client waits under the key of its own URL, with its body spent:  *)
(* whoever gets it for a URL talks to that host, and no unread body of an   *)
(* earlier transaction keeps its connection busy.                           *)
IdleReady ==
  \A k \in Key : \A c \in idle[k] : KeyOf[c] = k /\ resp[c] \in {"closed", "empty"}

(* The counter size, which decides both Get's fast path and shouldPut, is   *)
(* exactly the number of pooled clients although it is kept by hand in two  *)
(* critical sections of different goroutines.                               *)
SizeExact == size = Cardinality(Idle)

(* Where drainSize is: in senders, in the drainer, or in drains that failed *)
(* and were never given back.                                               *)
DrainAccount ==
  drainSize = lost + Cardinality(InFlight) + (IF dpc = "recv" THEN 0 ELSE 1)

(* drainProduce - drainConsume counts the clients announced to the drainer  *)
(* that it has not acknowledged.                                            *)
BacklogExact ==
  backlog = Cardinality(InFlight) + (IF dpc = "count" THEN 1 ELSE 0)

(* shouldPut and the increment are separate critical sections, so the limit *)
(* is not strict: it can be overshot, but by at most one client for every   *)
(* goroutine that passed the check meanwhile.                               *)
CapacityLimit ==
  IF MaxPoolSize >= 2 THEN MaxPoolSize - 2 + Cardinality(Session) ELSE 0
CapacityBound == size + drainSize + Cardinality(Counting) <= CapacityLimit

(* Once MaxPoolSize - 1 drains have failed the pool is dead for good: no    *)
(* client is ever accepted again, whatever is taken out of it.              *)
DeadPool == lost + 1 >= MaxPoolSize
DeadForever == [][DeadPool => DeadPool' /\ Counting' \subseteq Counting]_vars

(* The pool keeps the promise of ClientCustody.                             *)
Draining == {c \in Client :
               \/ c = dcur
               \/ \E s \in Session : pc[s] \in {"count", "send", "wait"} /\ cur[s] = c}

Custody == INSTANCE ClientCustody
             WITH leased <- active, draining <- Draining, idle <- Idle,
                  failed <- lost, Limit <- CapacityLimit
KeepsCustody == Custody!Spec

(* A transaction that began to return its clients gets through finish: Put  *)
(* blocks on the drain channel but not forever.                             *)
FinishReturns == \A s \in Session : pc[s] = "put" ~> pc[s] = "run"
=============================================================================
