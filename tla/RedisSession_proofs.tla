------------------------- MODULE RedisSession_proofs -------------------------
(***************************************************************************)
(* Proofs about RedisListener and about RedisSession, which adds the       *)
(* connections, for any number of connections, administrators, virtual     *)
(* hosts and addresses.                                                    *)
(***************************************************************************)
EXTENDS RedisSession, TLAPS

----------------------------------------------------------------------------
(* The listener alone: Spec.                                                 *)

(* What an administrator in the middle of a call knows: its argument, that  *)
(* the pointer it saw still has the name it compared, because the address   *)
(* of a pointer somebody holds is not reused, and that a slot with another  *)
(* name has been noted.                                                     *)
Knows ==
  /\ TypeOK
  /\ \A t \in Admin :
       /\ pc[t] = "add" => arg[t] \in VHost
       /\ pc[t] = "swap" => seen[t] \in Ptr /\ NameOf[at[seen[t]]] = arg[t]
       /\ Removing(t) => arg[t] \in Name
       /\ Removing(t) /\ NameAt(slot) # arg[t] => cleared[t]
       /\ pc[t] = "removed" => cleared[t]

(* A store of a new pointer, whoever does it.                               *)
LEMMA StoreKnown ==
  ASSUME Knows, NEW v \in VHost, Store(v)
  PROVE  /\ slot' \in Ptr /\ at' \in [Ptr -> VHost] /\ cleared' \in [Admin -> BOOLEAN]
         /\ NameAt(slot)' = NameOf[v]
         /\ \A t \in Admin :
              /\ seen[t] \in Ptr => at'[seen[t]] = at[seen[t]]
              /\ cleared[t] => cleared'[t]
              /\ Removing(t) /\ NameOf[v] # arg[t] => cleared'[t]
<1> USE RedisAssumption DEF Knows, TypeOK, Fresh
<1>1. PICK p \in Fresh : slot' = p /\ at' = [at EXCEPT ![p] = v]
  BY DEF Store
<1>2. cleared' = [t \in Admin |-> cleared[t] \/ (Removing(t) /\ NameOf[v] # arg[t])]
  BY DEF Store
<1>3. slot' \in Ptr /\ at' \in [Ptr -> VHost] /\ at'[slot'] = v
  BY <1>1
<1>4. NameAt(slot)' = NameOf[v]
  BY <1>3 DEF NameAt
<1>5. \A t \in Admin : seen[t] \in Ptr => at'[seen[t]] = at[seen[t]]
  BY <1>1
<1>6. cleared' \in [Admin -> BOOLEAN]
  BY <1>2
<1>7. \A t \in Admin : /\ cleared[t] => cleared'[t]
                       /\ Removing(t) /\ NameOf[v] # arg[t] => cleared'[t]
  BY <1>2
<1> QED  BY <1>3, <1>4, <1>5, <1>6, <1>7

LEMMA KnowsInvariant == Spec => []Knows
<1> USE RedisAssumption DEF AdminPC, Removing, NameAt
<1>1. Init => Knows
  BY DEF Init, Knows, TypeOK
<1>2. Knows /\ [Next]_vars => Knows'
  <2> SUFFICES ASSUME Knows, [Next]_vars PROVE Knows'
    OBVIOUS
  <2> USE DEF Knows, TypeOK
  <2>1. ASSUME NEW t \in Admin, NEW v \in VHost, AddLoad(t, v) PROVE Knows'
    BY <2>1 DEF AddLoad
  <2>2. ASSUME NEW t \in Admin, NEW v \in VHost, UpdateVHost(t, v) PROVE Knows'
    <3>1. UNCHANGED <<pc, arg, seen>> /\ Store(v)
      BY <2>2 DEF UpdateVHost
    <3> HIDE DEF NameAt
    <3> QED  BY <3>1, StoreKnown
  <2>3. ASSUME NEW t \in Admin, NEW n \in Name, RemoveVHost(t, n) PROVE Knows'
    BY <2>3 DEF RemoveVHost
  <2>4. ASSUME NEW t \in Admin, AddStore(t) PROVE Knows'
    <3>1. /\ Store(arg[t]) /\ arg[t] \in VHost /\ UNCHANGED seen
          /\ pc' = [pc EXCEPT ![t] = "idle"] /\ arg' = [arg EXCEPT ![t] = Nil]
          /\ pc[t] = "add"
      BY <2>4 DEF AddStore
    <3> HIDE DEF NameAt
    <3> QED  BY <3>1, StoreKnown
  <2>5. ASSUME NEW t \in Admin, RemoveLoad(t) PROVE Knows'
    BY <2>5 DEF RemoveLoad
  <2>6. ASSUME NEW t \in Admin, RemoveSwap(t) PROVE Knows'
    <3>1. CASE slot = seen[t]
      <4>1. /\ slot' = Nil /\ pc' = [pc EXCEPT ![t] = "removed"]
            /\ seen' = [seen EXCEPT ![t] = Nil] /\ UNCHANGED <<at, arg>> /\ pc[t] = "swap"
        BY <2>6, <3>1 DEF RemoveSwap
      <4>2. /\ cleared' \in [Admin -> BOOLEAN]
            /\ \A u \in Admin : (Removing(u) \/ cleared[u]) => cleared'[u]
        <5>1. cleared' = [u \in Admin |-> cleared[u] \/ Removing(u)]
          BY <2>6, <3>1 DEF RemoveSwap
        <5>2. \A u \in Admin : cleared[u] \in BOOLEAN /\ Removing(u) \in BOOLEAN
          OBVIOUS
        <5> HIDE DEF Removing, Knows
        <5> QED  BY <5>1, <5>2, Zenon
      <4> QED  BY <4>1, <4>2
    <3>2. CASE slot # seen[t]
      <4>1. /\ pc' = [pc EXCEPT ![t] = "remove"] /\ pc[t] = "swap"
            /\ seen' = [seen EXCEPT ![t] = Nil] /\ UNCHANGED <<slot, at, arg, cleared>>
        BY <2>6, <3>2 DEF RemoveSwap
      <4>2. NameAt(slot)' = NameAt(slot)
        BY <4>1
      <4> HIDE DEF NameAt
      <4> QED  BY <4>1, <4>2
    <3> QED  BY <3>1, <3>2
  <2>7. ASSUME NEW t \in Admin, Return(t) PROVE Knows'
    BY <2>7 DEF Return
  <2>8. CASE UNCHANGED vars
    BY <2>8 DEF vars
  <2> QED  BY <2>1, <2>2, <2>3, <2>4, <2>5, <2>6, <2>7, <2>8 DEF Next
<1> QED  BY <1>1, <1>2, PTL DEF Spec

(* RemoveVHost takes away only what it was asked to take away, however the  *)
(* slot changed between its load and its compare-and-swap.                  *)
THEOREM RemovesOnlyNamed == Spec => RemoveOnlyNamed
<1>1. Knows /\ [Next]_vars =>
        [slot # Nil /\ slot' = Nil =>
           \E t \in Admin : pc[t] = "swap" /\ arg[t] = NameAt(slot)]_vars
  <2> SUFFICES ASSUME Knows, [Next]_vars, slot # Nil, slot' = Nil
               PROVE  \E t \in Admin : pc[t] = "swap" /\ arg[t] = NameAt(slot)
    OBVIOUS
  <2>1. PICK t \in Admin : RemoveSwap(t)
    BY RedisAssumption
       DEF Next, AddLoad, UpdateVHost, RemoveVHost, AddStore, RemoveLoad, Return, Store,
           Fresh, vars
  <2>2. pc[t] = "swap" /\ slot = seen[t]
    BY <2>1 DEF RemoveSwap
  <2> QED  BY <2>2 DEF Knows, NameAt
<1> QED  BY <1>1, KnowsInvariant, PTL DEF Spec, RemoveOnlyNamed

(* A RemoveVHost that returned did see the name gone at some moment of the  *)
(* call.                                                                    *)
THEOREM RemovesForReal == Spec => []RemoveTookEffect
<1>1. Knows => RemoveTookEffect
  BY DEF Knows, RemoveTookEffect
<1> QED  BY <1>1, KnowsInvariant, PTL

(* Ranges of the variables.                                                 *)
THEOREM TypeCorrect == Spec => []TypeOK
<1>1. Knows => TypeOK
  BY DEF Knows
<1> QED  BY <1>1, KnowsInvariant, PTL

----------------------------------------------------------------------------
(* With connections: RedisSpec.                                              *)

sessionVars == <<vars, connVars>>

(* Connections do not touch what the administration works on, so what was   *)
(* proved of the listener alone holds with them.                            *)
LEMMA SessionKeepsListener == RedisSpec => Spec
<1>1. RedisInit => Init
  BY DEF RedisInit
<1>2. [RedisNext]_sessionVars => [Next]_vars
  BY DEF RedisNext, AdminNext, Down, sessionVars, connVars, vars
<1> QED  BY <1>1, <1>2, PTL DEF RedisSpec, Spec, sessionVars

(* One connection: between callbacks and at the deferred function the queue *)
(* is empty; only finish leads to idle; the slot still holds what accepted  *)
(* the connection as long as greeted remembers it.                          *)
Sound(r) ==
  /\ r \in ConnState
  /\ r.at \in {"idle", "finish"} => r.queued = 0
  /\ r.at = "idle" => r.held = 0
  /\ r.greeted # Nil =>
       /\ slot # Nil /\ at[slot] = r.greeted
       /\ r.at # "idle" => r.by = r.greeted

Session ==
  /\ conn = [c \in Conn |-> conn[c]]
  /\ up \in BOOLEAN
  /\ \A c \in Conn : Sound(conn[c])
(* Connections that are new or gone are sound.                              *)
LEMMA SoundConns == Sound(NewConn) /\ Sound(Gone)
<1>1. MaxHeld \in Nat /\ MaxQueued \in Nat
  BY SessionAssumption
<1>2. Sound(NewConn)
  BY <1>1 DEF NewConn, Sound, ConnState
<1>3. Gone = [NewConn EXCEPT !.life = "gone"] /\ Gone.greeted = NewConn.greeted
  BY DEF Gone, NewConn
<1>4. Gone \in ConnState
  BY <1>2, <1>3 DEF Sound, ConnState
<1> QED  BY <1>2, <1>4 DEF Sound, Gone, NewConn
(* The invariant holds initially.                                           *)
LEMMA SessionInit == RedisInit => Session
<1> SUFFICES ASSUME RedisInit PROVE Session
  OBVIOUS
<1>1. conn = [c \in Conn |-> NewConn] /\ up = TRUE
  BY DEF RedisInit, ConnInit
<1>2. \A c \in Conn : conn[c] = NewConn
  BY <1>1
<1> QED  BY <1>1, <1>2, SoundConns DEF Session

(* The administration changes a connection only by what greeted remembers,  *)
(* and a slot that stays has the same virtual host behind it, since a store *)
(* allocates a new address.                                                 *)
LEMMA SlotKeepsVHost == TypeOK /\ Next /\ slot' = slot /\ slot # Nil => at'[slot] = at[slot]
<1> SUFFICES ASSUME TypeOK, Next, slot' = slot, slot # Nil PROVE at'[slot] = at[slot]
  OBVIOUS
<1>1. ASSUME NEW v, Store(v) PROVE FALSE
  BY <1>1 DEF Store, Fresh
<1>2. UNCHANGED at
  BY <1>1 DEF Next, AddLoad, UpdateVHost, RemoveVHost, AddStore, RemoveLoad, RemoveSwap, Return
<1> QED  BY <1>2
(* Administration, which forgets the greeting when the slot changes, keeps  *)
(* the invariant.                                                           *)
LEMMA AdminKeepsSession == TypeOK /\ Session /\ AdminNext => Session'
<1> SUFFICES ASSUME TypeOK, Session, AdminNext PROVE Session'
  OBVIOUS
<1>1. CASE slot' = slot
  <2>1. conn' = conn /\ up' = up
    BY <1>1 DEF AdminNext
  <2>2. \A c \in Conn : Sound(conn[c])'
    BY <1>1, <2>1, SlotKeepsVHost DEF Session, Sound, AdminNext
  <2> QED  BY <2>1, <2>2 DEF Session
<1>2. CASE slot' # slot
  <2>1. conn' = [c \in Conn |-> [conn[c] EXCEPT !.greeted = Nil]] /\ UNCHANGED up
    BY <1>2 DEF AdminNext
  <2>2. ASSUME NEW c \in Conn PROVE Sound(conn[c])'
    <3>1. Sound(conn[c])
      BY DEF Session
    <3>2. conn'[c] = [conn[c] EXCEPT !.greeted = Nil]
      BY <2>1
    <3> QED  BY <3>1, <3>2 DEF Sound, ConnState
  <2> QED  BY <2>1, <2>2 DEF Session
<1> QED  BY <1>1, <1>2

(* A step of one connection that leaves it sound leaves all sound.          *)
LEMMA OneConn ==
  ASSUME Session, UNCHANGED vars, NEW c \in Conn, NEW r, Sound(r),
         conn' = [conn EXCEPT ![c] = r], UNCHANGED up
  PROVE  Session'
BY DEF Session, Sound, vars
(* A callback that begins is run by the virtual host in the slot.           *)
LEMMA SoundBegin ==
  ASSUME TypeOK, slot # Nil, NEW c \in Conn, Sound(conn[c]), conn[c].at = "idle", NEW kind \in {"accept", "event", "close"}
  PROVE  Sound(Begin(c, kind))
<1>1. at[slot] \in VHost
  BY DEF TypeOK
<1> QED  BY <1>1 DEF Begin, Sound, ConnState
(* Each step of a connection keeps the invariant.                           *)
LEMMA ConnKeepsSession ==
  ASSUME TypeOK, Session, NEW c \in Conn, ConnNext(c), UNCHANGED vars
  PROVE  Session'
<1>s. Sound(conn[c]) /\ conn = [d \in Conn |-> conn[d]]
  BY DEF Session
<1> DEFINE q == conn[c]
<1>m. MaxHeld \in Nat /\ MaxQueued \in Nat
  BY SessionAssumption
<1>1. CASE onAccept(c)
  BY <1>1, <1>s, SoundBegin, SoundConns, OneConn DEF onAccept
<1>2. CASE onEvent(c)
  <2>1. Sound([q EXCEPT !.shut = TRUE])
    BY ZenonT(30), <1>s DEF Sound, ConnState
  <2>2. conn' = [conn EXCEPT ![c] = IF slot = Nil THEN [q EXCEPT !.shut = TRUE] ELSE Begin(c, "event")]
    BY <1>2, <1>s DEF onEvent
  <2> QED  BY <1>2, <2>1, <2>2, <1>s, SoundBegin, OneConn DEF onEvent
<1>3. CASE onClose(c)
  BY <1>3, <1>s, SoundBegin, SoundConns, OneConn DEF onClose
<1>4. CASE ConnClose(c)
  <2>1. Sound([q EXCEPT !.shut = TRUE])
    BY ZenonT(30), <1>s DEF Sound, ConnState
  <2>2. conn' = [conn EXCEPT ![c] = [q EXCEPT !.shut = TRUE]]
    BY <1>4, <1>s DEF ConnClose
  <2> QED  BY <1>4, <2>1, <2>2, OneConn DEF ConnClose
<1>5. CASE GetHttpClient(c)
  <2>1. Sound([q EXCEPT !.held = @ + 1])
    BY <1>5, <1>s, <1>m DEF Sound, ConnState, GetHttpClient, InScript
  <2> QED  BY <1>5, <2>1, <1>s, OneConn DEF GetHttpClient
<1>6. CASE Emit(c)
  <2>1. Sound([q EXCEPT !.queued = @ + 1])
    BY <1>6, <1>s, <1>m DEF Sound, ConnState, Emit, InScript
  <2> QED  BY <1>6, <2>1, <1>s, OneConn DEF Emit
<1>7. CASE ScriptPanics(c)
  BY <1>7, SoundConns DEF ScriptPanics, Session, Sound, vars
<1>8. CASE ScriptEnds(c)
  <2>1. Sound([q EXCEPT !.at = "queue"])
    BY <1>8, <1>s DEF Sound, ConnState, ScriptEnds, InScript
  <2> QED  BY <1>8, <2>1, <1>s, OneConn DEF ScriptEnds
<1>9. CASE ScriptFails(c)
  <2>1. Sound([q EXCEPT !.at = "queue", !.failed = TRUE])
    BY <1>9, <1>s DEF Sound, ConnState, ScriptFails
  <2>2. conn' = [conn EXCEPT ![c] = [q EXCEPT !.at = "queue", !.failed = TRUE]]
    BY <1>9, <1>s DEF ScriptFails, Sound, ConnState
  <2> QED  BY <1>9, <2>1, <2>2, OneConn DEF ScriptFails
<1>10. CASE Drain(c)
  <2>1. Sound([q EXCEPT !.queued = @ - 1, !.at = "event"])
    BY <1>10, <1>s, <1>m DEF Sound, ConnState, Drain
  <2>2. conn' = [conn EXCEPT ![c] = [q EXCEPT !.queued = @ - 1, !.at = "event"]]
    BY <1>10, <1>s DEF Drain, Sound, ConnState
  <2> QED  BY <1>10, <2>1, <2>2, OneConn DEF Drain
<1>11. CASE InitOk(c)
  <2>1. Sound([q EXCEPT !.at = "script", !.part = "rule"])
    BY <1>11, <1>s DEF Sound, ConnState, InitOk, Drained
  <2>2. conn' = [conn EXCEPT ![c] = [q EXCEPT !.at = "script", !.part = "rule"]]
    BY <1>11, <1>s DEF InitOk, Sound, ConnState
  <2> QED  BY <1>11, <2>1, <2>2, OneConn DEF InitOk
<1>12. CASE RuleOk(c)
  <2>1. Sound([q EXCEPT !.at = "finish"])
    BY <1>12, <1>s DEF Sound, ConnState, RuleOk, Drained
  <2> QED  BY <1>12, <2>1, <1>s, OneConn DEF RuleOk
<1>13. CASE WriteErr(c)
  <2>1. Sound([q EXCEPT !.at = "finish"])
    BY <1>13, <1>s DEF Sound, ConnState, WriteErr, Drained
  <2>2. conn' = [conn EXCEPT ![c] = [q EXCEPT !.at = "finish"]]
    BY <1>13, <1>s DEF WriteErr, Sound, ConnState
  <2> QED  BY <1>13, <2>1, <2>2, OneConn DEF WriteErr
<1>14. CASE finish(c)
  <2>1. PICK life \in Outcome(c) : conn' = [conn EXCEPT ![c] = [AfterCallback(c, life) EXCEPT !.held = 0]]
    BY <1>14 DEF finish
  <2>2. life \in {"open", "gone"}
    BY <1>s DEF Outcome, Sound, ConnState
  <2>3. q.queued = 0
    BY <1>14, <1>s DEF Sound, finish
  <2>4. Sound([AfterCallback(c, life) EXCEPT !.held = 0])
    <3>1. CASE life = "gone"
      <4>1. [AfterCallback(c, life) EXCEPT !.held = 0]
              = [[Gone EXCEPT !.held = q.held, !.queued = q.queued] EXCEPT !.held = 0]
        BY <3>1 DEF AfterCallback
      <4>2. [Gone EXCEPT !.held = q.held, !.queued = q.queued] = [Gone EXCEPT !.held = q.held, !.queued = 0]
        BY <2>3
      <4>3. DEFINE r == [Gone EXCEPT !.held = q.held, !.queued = 0]
      <4>4. r \in ConnState /\ r.queued = 0 /\ r.greeted = Nil /\ r.at = "idle"
        <5>1. Gone.greeted = Nil /\ Gone.at = "idle"
          BY DEF Gone, NewConn
        <5>2. Gone \in ConnState /\ q.held \in 0 .. MaxHeld /\ 0 \in 0 .. MaxQueued
          BY <1>m, <1>s, SoundConns DEF Sound, ConnState
        <5> HIDE DEF q
        <5> QED  BY <5>1, <5>2 DEF ConnState
      <4> HIDE DEF r
      <4>5. Sound([r EXCEPT !.held = 0])
        BY <4>4, <1>m DEF Sound, ConnState
      <4> QED  BY <4>1, <4>2, <4>5 DEF r
    <3>2. CASE life = "open"
      <4>1. [AfterCallback(c, life) EXCEPT !.held = 0]
              = [[q EXCEPT !.life = "open", !.at = "idle", !.by = Nil, !.failed = FALSE] EXCEPT !.held = 0]
        BY <3>2 DEF AfterCallback
      <4>2. DEFINE r == [q EXCEPT !.life = "open", !.at = "idle", !.by = Nil, !.failed = FALSE]
      <4>3. r \in ConnState /\ r.queued = 0 /\ r.greeted = q.greeted /\ r.at = "idle"
        BY <2>3, <1>s DEF Sound, ConnState
      <4> HIDE DEF r
      <4>4. Sound([r EXCEPT !.held = 0])
        BY <4>3, <1>m, <1>s DEF Sound, ConnState
      <4> QED  BY <4>1, <4>4 DEF r
    <3> QED  BY <2>2, <3>1, <3>2
  <2> QED  BY <1>14, <2>1, <2>4, OneConn DEF finish
<1> QED  BY <1>1, <1>2, <1>3, <1>4, <1>5, <1>6, <1>7, <1>8, <1>9, <1>10,
            <1>11, <1>12, <1>13, <1>14 DEF ConnNext
(* The inductive invariant of slot and connections.                         *)
LEMMA SessionInvariant == RedisSpec => [](TypeOK /\ Session)
<1>1. RedisSpec => []TypeOK
  BY SessionKeepsListener, TypeCorrect, PTL
<1>2. TypeOK /\ Session /\ [RedisNext]_sessionVars => Session'
  <2> SUFFICES ASSUME TypeOK, Session, [RedisNext]_sessionVars PROVE Session'
    OBVIOUS
  <2>1. CASE up /\ AdminNext
    BY <2>1, AdminKeepsSession
  <2>2. CASE up /\ (\E c \in Conn : ConnNext(c)) /\ UNCHANGED vars
    BY <2>2, ConnKeepsSession
  <2>3. CASE Down \/ UNCHANGED sessionVars
    BY <2>3 DEF Down, sessionVars, connVars, vars, Session, Sound
  <2> QED  BY <2>1, <2>2, <2>3 DEF RedisNext
<1> QED  BY <1>1, <1>2, SessionInit, PTL DEF RedisSpec, sessionVars

(* Between callbacks no HTTP client is held and no event waits.             *)
THEOREM CallbacksLeaveNothing == RedisSpec => []NothingLeftBehind
<1>1. Session => NothingLeftBehind
  BY DEF Session, Sound, NothingLeftBehind
<1> QED  BY <1>1, SessionInvariant, PTL

(* Unless the slot changed, the accepting virtual host runs every callback. *)
THEOREM AccepterServes == RedisSpec => []ServedByAccepter
<1>1. Session => ServedByAccepter
  BY DEF Session, Sound, ServedByAccepter
<1> QED  BY <1>1, SessionInvariant, PTL

(* Ranges of the variables.                                                 *)
THEOREM SessionTypeCorrect == RedisSpec => []SessionTypeOK
<1>1. TypeOK /\ Session => SessionTypeOK
  BY DEF Session, Sound, SessionTypeOK
<1> QED  BY <1>1, SessionInvariant, PTL

(* Removal with connections present: it took effect, and on its name only.  *)
THEOREM SessionRemovesForReal == RedisSpec => []RemoveTookEffect
BY SessionKeepsListener, RemovesForReal, PTL
(* RemoveVHost clears only its name while connections load the slot.        *)
THEOREM SessionRemovesOnlyNamed == RedisSpec => RemoveOnlyNamed
BY SessionKeepsListener, RemovesOnlyNamed, PTL
=============================================================================
