------------------------- MODULE HClientPool_proofs -------------------------
(***************************************************************************)
(* Proofs about HClientPool, for any number of goroutines, clients and     *)
(* keys and any pool size.                                                 *)
(***************************************************************************)
EXTENDS HClientPool, FiniteSetTheorems, SequenceTheorems, TLAPS

Putting == {"count", "send", "wait"}

(* How the program counters go with the variables they guard: cur is set    *)
(* while a request or a Put is in progress, the drainer has a client unless *)
(* it is receiving, and the wait queue holds each waiting goroutine once.   *)
Control ==
  /\ TypeOK
  /\ \A s \in Session : /\ pc[s] \in {"run", "put"} => cur[s] = NoClient
                        /\ pc[s] \in Putting => cur[s] \in Client
                        /\ pc[s] = "do" => cur[s] \in active[s]
  /\ dpc = "recv" <=> dcur = NoClient
  /\ \A i \in 1..Len(sendq) : pc[sendq[i]] = "wait"
  /\ \A i, j \in 1..Len(sendq) : i # j => sendq[i] # sendq[j]

LEMMA ControlInvariant == Spec => []Control
<1> USE ClientAssumption, KeyAssumption
<1>1. Init => Control
  BY DEF Init, Control, TypeOK, SessionPC, DrainerPC, RespState, Putting
<1>2. Control /\ [Next]_vars => Control'
  <2> SUFFICES ASSUME Control, [Next]_vars PROVE Control'
    OBVIOUS
  <2> USE DEF Control, TypeOK, SessionPC, DrainerPC, RespState, Putting
  <2>1. ASSUME NEW s \in Session, NEW k \in Key, GetReuse(s, k) PROVE Control'
    <3>1. \A i \in 1..Len(sendq) : pc'[sendq[i]] = "wait"
      BY <2>1 DEF GetReuse, CanGet
    <3> QED  BY <2>1, <3>1 DEF GetReuse, CanGet, Closed
  <2>2. ASSUME NEW s \in Session, NEW k \in Key, GetNew(s, k) PROVE Control'
    <3>1. \A i \in 1..Len(sendq) : pc'[sendq[i]] = "wait"
      BY <2>2 DEF GetNew, CanGet
    <3> QED  BY <2>2, <3>1 DEF GetNew, CanGet, Closed
  <2>3. ASSUME NEW s \in Session, NEW c \in Client, CloseBody(s, c) PROVE Control'
    <3>1. \A i \in 1..Len(sendq) : pc'[sendq[i]] = "wait"
      BY <2>3 DEF CloseBody, CanGet
    <3> QED  BY <2>3, <3>1 DEF CloseBody, CanGet, Closed
  <2>4. ASSUME NEW s \in Session, DoOk(s) PROVE Control'
    <3>1. \A i \in 1..Len(sendq) : pc'[sendq[i]] = "wait"
      BY <2>4 DEF DoOk
    <3>2. resp' \in [Client -> RespState]
      BY <2>4 DEF DoOk
    <3> QED  BY <2>4, <3>1, <3>2 DEF DoOk
  <2>5. ASSUME NEW s \in Session, DoErr(s) PROVE Control'
    <3>1. \A i \in 1..Len(sendq) : pc'[sendq[i]] = "wait"
      BY <2>5 DEF DoErr, CanGet
    <3> QED  BY <2>5, <3>1 DEF DoErr, CanGet, Closed
  <2>6. ASSUME NEW s \in Session, Finish(s) PROVE Control'
    <3>1. \A i \in 1..Len(sendq) : pc'[sendq[i]] = "wait"
      BY <2>6 DEF Finish, CanGet
    <3> QED  BY <2>6, <3>1 DEF Finish, CanGet, Closed
  <2>7. ASSUME NEW s \in Session, Abandon(s) PROVE Control'
    <3>1. \A i \in 1..Len(sendq) : pc'[sendq[i]] = "wait"
      BY <2>7 DEF Abandon, CanGet
    <3> QED  BY <2>7, <3>1 DEF Abandon, CanGet, Closed
  <2>8. ASSUME NEW s \in Session, ShouldPut(s) PROVE Control'
    <3>1. \A i \in 1..Len(sendq) : pc'[sendq[i]] = "wait"
      BY <2>8 DEF ShouldPut, CanGet
    <3> QED  BY <2>8, <3>1 DEF ShouldPut, CanGet, Closed
  <2>9. ASSUME NEW s \in Session, Discard(s) PROVE Control'
    <3>1. \A i \in 1..Len(sendq) : pc'[sendq[i]] = "wait"
      BY <2>9 DEF Discard, CanGet
    <3> QED  BY <2>9, <3>1 DEF Discard, CanGet, Closed
  <2>10. ASSUME NEW s \in Session, Finished(s) PROVE Control'
    <3>1. \A i \in 1..Len(sendq) : pc'[sendq[i]] = "wait"
      BY <2>10 DEF Finished, CanGet
    <3> QED  BY <2>10, <3>1 DEF Finished, CanGet, Closed
  <2>11. ASSUME NEW s \in Session, CountDrain(s) PROVE Control'
    <3>1. \A i \in 1..Len(sendq) : pc'[sendq[i]] = "wait"
      BY <2>11 DEF CountDrain, CanGet
    <3> QED  BY <2>11, <3>1 DEF CountDrain, CanGet, Closed
  <2>12. ASSUME NEW s \in Session, Send(s) PROVE Control'
    <3>1. sendq' \in Seq(Session) /\ Len(sendq') = Len(sendq) + 1
      BY <2>12 DEF Send
    <3>2. /\ \A i \in 1..Len(sendq) : sendq'[i] = sendq[i]
          /\ sendq'[Len(sendq) + 1] = s
      BY <2>12 DEF Send
    <3>3. \A i \in 1..Len(sendq) : sendq[i] # s /\ sendq[i] \in Session
      BY <2>12 DEF Send
    <3>4. \A i \in 1..Len(sendq') : pc'[sendq'[i]] = "wait"
      BY <2>12, <3>1, <3>2, <3>3 DEF Send
    <3>5. \A i, j \in 1..Len(sendq') : i # j => sendq'[i] # sendq'[j]
      BY <3>1, <3>2, <3>3
    <3> QED  BY <2>12, <3>1, <3>4, <3>5 DEF Send
  <2>13. CASE Recv
    <3> DEFINE h == Head(sendq)
    <3>1. sendq \in Seq(Session) /\ Len(sendq) \in Nat \ {0}
      BY <2>13 DEF Recv
    <3>2. /\ h = sendq[1] /\ h \in Session
          /\ sendq' \in Seq(Session) /\ Len(sendq') = Len(sendq) - 1
          /\ \A i \in 1..Len(sendq') : sendq'[i] = sendq[i + 1]
      BY <2>13, <3>1 DEF Recv
    <3>3. pc[h] = "wait" /\ cur[h] \in Client
      <4>1. 1 \in 1..Len(sendq)
        BY <3>1
      <4> QED  BY <4>1, <3>2
    <3>4. \A i \in 1..Len(sendq') : pc'[sendq'[i]] = "wait"
      <4> SUFFICES ASSUME NEW i \in 1..Len(sendq') PROVE pc'[sendq'[i]] = "wait"
        OBVIOUS
      <4>1. i + 1 \in 1..Len(sendq) /\ 1 \in 1..Len(sendq) /\ i + 1 # 1
        BY <3>1, <3>2
      <4>2. sendq[i + 1] # h /\ sendq[i + 1] \in Session
        BY <4>1, <3>2, <3>1
      <4> QED  BY <2>13, <4>1, <4>2, <3>2 DEF Recv
    <3>5. \A i, j \in 1..Len(sendq') : i # j => sendq'[i] # sendq'[j]
      <4> SUFFICES ASSUME NEW i \in 1..Len(sendq'), NEW j \in 1..Len(sendq'), i # j
                   PROVE  sendq'[i] # sendq'[j]
        OBVIOUS
      <4>1. i + 1 \in 1..Len(sendq) /\ j + 1 \in 1..Len(sendq) /\ i + 1 # j + 1
        BY <3>1, <3>2
      <4> QED  BY SMTT(30), <4>1, <3>2
    <3> QED  BY <2>13, <3>2, <3>3, <3>4, <3>5 DEF Recv
  <2>14. CASE CountConsume
    <3>1. dcur \in Client
      BY <2>14 DEF CountConsume
    <3> QED  BY <2>14, <3>1 DEF CountConsume
  <2>15. CASE CopyOk
    <3>1. dcur \in Client
      BY <2>15 DEF CopyOk
    <3> QED  BY <2>15, <3>1 DEF CopyOk, Closed
  <2>16. CASE CopyErr
    <3>1. dcur \in Client
      BY <2>16 DEF CopyErr
    <3> QED  BY <2>16, <3>1 DEF CopyErr
  <2>17. CASE PutBack
    <3>1. dcur \in Client
      BY <2>17 DEF PutBack
    <3>2. KeyOf[dcur] \in Key /\ idle' \in [Key -> SUBSET Client]
      BY <2>17, <3>1 DEF PutBack
    <3> QED  BY <2>17, <3>2 DEF PutBack
  <2>18. CASE UNCHANGED vars
    BY <2>18 DEF vars
  <2> QED
    BY <2>1, <2>2, <2>3, <2>4, <2>5, <2>6, <2>7, <2>8, <2>9, <2>10, <2>11, <2>12, <2>13, <2>14, <2>15, <2>16, <2>17, <2>18
       DEF Next, Put, Do, doDrain
<1> QED  BY <1>1, <1>2, PTL DEF Spec

(* Every reachable state has the ranges TypeOK gives: the counters stay     *)
(* integers, the channel's wait queue holds goroutines, the drainer's       *)
(* variable is a client or the zero HClient.                                *)
THEOREM TypeCorrect == Spec => []TypeOK
<1>1. Control => TypeOK
  BY DEF Control
<1> QED  BY <1>1, ControlInvariant, PTL

----------------------------------------------------------------------------
(* Goroutine s has client c, in its transaction or in its Put.              *)
Holds(s, c) == c \in active[s] \/ (pc[s] \in Putting /\ c = cur[s])

(* Every client is in at most one place, and what is pooled is ready.       *)
OneHolder == \A s, t \in Session : \A c \in Client : Holds(s, c) /\ Holds(t, c) => s = t
LeftFirst == \A s \in Session : pc[s] \in Putting => cur[s] \notin active[s]
HeldAlone == \A s \in Session : \A c \in Client :
               Holds(s, c) => c # dcur /\ \A k \in Key : c \notin idle[k]
DrainAlone == \A k \in Key : dcur \notin idle[k]
DrainReady == /\ \A s \in Session : pc[s] \in Putting => resp[cur[s]] # "none"
              /\ dpc \in {"count", "copy"} => resp[dcur] # "none"
              /\ dpc = "back" => resp[dcur] \in {"closed", "empty"}

Ownership == Control /\ OneHolder /\ LeftFirst /\ HeldAlone /\ DrainAlone /\ DrainReady
             /\ IdleReady

LEMMA OwnershipInit == Init => Ownership
<1> SUFFICES ASSUME Init PROVE Ownership
  OBVIOUS
<1>1. Control
  BY ClientAssumption, KeyAssumption
     DEF Init, Control, TypeOK, SessionPC, DrainerPC, RespState, Putting
<1> QED
  BY <1>1, ClientAssumption
     DEF Init, Ownership, OneHolder, LeftFirst, HeldAlone, DrainAlone, DrainReady, IdleReady,
         Holds, Putting

LEMMA OwnershipStep == Ownership /\ Control' /\ [Next]_vars => Ownership'
<1> SUFFICES ASSUME Ownership, Control', [Next]_vars PROVE Ownership'
  OBVIOUS
<1> USE ClientAssumption, KeyAssumption
        DEF Ownership, Control, TypeOK, OneHolder, LeftFirst, HeldAlone, DrainAlone, DrainReady,
            IdleReady, Holds, Putting, SessionPC, DrainerPC, RespState
<1>1. ASSUME NEW s \in Session, NEW k \in Key, GetReuse(s, k) PROVE Ownership'
  BY <1>1 DEF GetReuse, CanGet
<1>2. ASSUME NEW s \in Session, NEW k \in Key, GetNew(s, k) PROVE Ownership'
  BY <1>2 DEF GetNew, CanGet, Owned, Idle
<1>3. ASSUME NEW s \in Session, NEW c \in Client, CloseBody(s, c) PROVE Ownership'
  BY <1>3 DEF CloseBody, Closed
<1>4. ASSUME NEW s \in Session, DoOk(s) PROVE Ownership'
  BY <1>4 DEF DoOk
<1>5. ASSUME NEW s \in Session, DoErr(s) PROVE Ownership'
  BY <1>5 DEF DoErr
<1>6. ASSUME NEW s \in Session, Finish(s) PROVE Ownership'
  BY <1>6 DEF Finish
<1>7. ASSUME NEW s \in Session, Abandon(s) PROVE Ownership'
  BY <1>7 DEF Abandon
<1>8. ASSUME NEW s \in Session, ShouldPut(s) PROVE Ownership'
  BY <1>8 DEF ShouldPut
<1>9. ASSUME NEW s \in Session, Discard(s) PROVE Ownership'
  BY <1>9 DEF Discard
<1>10. ASSUME NEW s \in Session, Finished(s) PROVE Ownership'
  BY <1>10 DEF Finished
<1>11. ASSUME NEW s \in Session, CountDrain(s) PROVE Ownership'
  BY <1>11 DEF CountDrain
<1>12. ASSUME NEW s \in Session, Send(s) PROVE Ownership'
  BY <1>12 DEF Send
<1>13. ASSUME Recv PROVE Ownership'
  BY <1>13 DEF Recv
<1>14. ASSUME CountConsume PROVE Ownership'
  BY <1>14 DEF CountConsume
<1>15. ASSUME CopyOk PROVE Ownership'
  BY <1>15 DEF CopyOk, Closed
<1>16. ASSUME CopyErr PROVE Ownership'
  BY <1>16 DEF CopyErr
<1>17. ASSUME PutBack PROVE Ownership'
  BY <1>17 DEF PutBack
<1>18. ASSUME UNCHANGED vars PROVE Ownership'
  BY <1>18 DEF vars
<1> QED
  BY <1>1, <1>2, <1>3, <1>4, <1>5, <1>6, <1>7, <1>8, <1>9, <1>10, <1>11, <1>12, <1>13, <1>14, <1>15, <1>16, <1>17, <1>18
     DEF Next, Put, Do, doDrain

LEMMA OwnershipInvariant == Spec => []Ownership
<1>1. Control /\ Ownership /\ [Next]_vars /\ Control' => Ownership'
  BY OwnershipStep
<1> QED  BY <1>1, OwnershipInit, ControlInvariant, PTL DEF Spec

(* No client is ever in two hands: not in two transactions, not in a        *)
(* transaction and the pool, not with the drainer and anybody else.         *)
THEOREM ClientsHaveOneOwner == Spec => []SoleOwner
<1>1. Ownership => SoleOwner
  <2> SUFFICES ASSUME Ownership PROVE SoleOwner
    OBVIOUS
  <2> USE ClientAssumption
          DEF Ownership, Control, TypeOK, OneHolder, LeftFirst, HeldAlone, DrainAlone, Putting,
              SessionPC
  <2>1. \A s \in Session : Held(s) \subseteq Client
                           /\ \A c \in Client : c \in Held(s) => Holds(s, c)
    BY DEF Held, Holds
  <2>2. \A s \in Session : Held(s) \cap Idle = {} /\ dcur \notin Held(s)
    BY <2>1 DEF Idle
  <2>3. \A s \in Session : pc[s] # "do" => cur[s] \notin active[s]
    OBVIOUS
  <2>4. dcur \notin Idle
    BY DEF Idle
  <2>5. \A s, t \in Session : s # t => Held(s) \cap Held(t) = {}
    BY <2>1
  <2> QED  BY <2>2, <2>3, <2>4, <2>5 DEF SoleOwner
<1> QED  BY <1>1, OwnershipInvariant, PTL

(* Get never hands out a client of another host or one whose last body is   *)
(* still unread.                                                            *)
THEOREM PooledClientsReady == Spec => []IdleReady
<1>1. Ownership => IdleReady
  BY DEF Ownership
<1> QED  BY <1>1, OwnershipInvariant, PTL

----------------------------------------------------------------------------
(* The counters.  Each step changes a set by at most one element and the    *)
(* counter that stands for it by as much.                                   *)
Pooled == IsFiniteSet(Idle) /\ SizeExact

LEMMA PooledStep == Ownership /\ Control' /\ Pooled /\ [Next]_vars => Pooled'
<1> SUFFICES ASSUME Ownership, Control', Pooled, [Next]_vars PROVE Pooled'
  OBVIOUS
<1> USE ClientAssumption, KeyAssumption DEF Ownership, Control, TypeOK
<1>1. ASSUME NEW s \in Session, NEW k \in Key, GetReuse(s, k) PROVE Pooled'
  <2>1. PICK c \in idle[k] : idle' = [idle EXCEPT ![k] = @ \ {c}] /\ cur'[s] = c
    BY <1>1 DEF GetReuse
  <2>2. \A j \in Key : c \in idle[j] => j = k
    BY <2>1 DEF IdleReady
  <2>3. Idle' = Idle \ {c} /\ c \in Idle
    BY <2>1, <2>2 DEF Idle
  <2> QED  BY <1>1, <2>3, FS_RemoveElement DEF GetReuse, Pooled, SizeExact
<1>2. CASE PutBack
  <2>1. dcur \in Client
    BY <1>2 DEF PutBack
  <2>2. Idle' = Idle \cup {dcur} /\ dcur \notin Idle
    BY <1>2, <2>1 DEF PutBack, Idle, DrainAlone
  <2> QED  BY <1>2, <2>2, FS_AddElement, FS_CardinalityType DEF PutBack, Pooled, SizeExact
<1>3. ASSUME UNCHANGED <<idle, size>> PROVE Pooled'
  BY <1>3 DEF Pooled, SizeExact, Idle
<1> QED
  BY <1>1, <1>2, <1>3
     DEF Next, Put, Do, doDrain, GetNew, CloseBody, DoOk, DoErr, Finish, Abandon, ShouldPut,
         Discard, Finished, CountDrain, Send, Recv, CountConsume, CopyOk, CopyErr, vars

LEMMA PooledInvariant == Spec => []Pooled
<1>1. Init => Pooled
  <2> SUFFICES ASSUME Init PROVE Pooled
    OBVIOUS
  <2>1. Idle = {}
    BY DEF Init, Idle
  <2> QED  BY <2>1, FS_EmptySet DEF Init, Pooled, SizeExact
<1>2. Ownership /\ Control' /\ Pooled /\ [Next]_vars => Pooled'
  BY PooledStep
<1> QED  BY <1>1, <1>2, ControlInvariant, OwnershipInvariant, PTL DEF Spec

(* The hand-kept counter size is the number of pooled clients.              *)
THEOREM SizeIsExact == Spec => []SizeExact
<1>1. Pooled => SizeExact
  BY DEF Pooled
<1> QED  BY <1>1, PooledInvariant, PTL

LEMMA SomeSessions ==
  /\ IsFiniteSet(InFlight) /\ Cardinality(InFlight) \in Nat
  /\ IsFiniteSet(Counting) /\ Cardinality(Counting) \in Nat
  /\ Cardinality(Counting) <= Cardinality(Session) /\ Cardinality(Session) \in Nat
<1>1. InFlight \in SUBSET Session /\ Counting \in SUBSET Session
  BY DEF InFlight, Counting
<1> QED  BY <1>1, SessionAssumption, FS_Subset, FS_CardinalityType

(* The first test of resp in tryDrain makes the drainer's own one idle:     *)
(* what is counted as draining is with a sender, the drainer or lost.       *)
Accounted == DrainAccount /\ BacklogExact

LEMMA AccountedStep == Ownership /\ Control' /\ Accounted /\ [Next]_vars => Accounted'
<1> SUFFICES ASSUME Ownership, Control', Accounted, [Next]_vars PROVE Accounted'
  OBVIOUS
<1> USE DEF Control, TypeOK
<1>0. Control /\ DrainReady
  BY DEF Ownership
<1>1. ASSUME NEW s \in Session, CountDrain(s) PROVE Accounted'
  <2>1. InFlight' = InFlight \cup {s} /\ s \notin InFlight
    BY <1>1, <1>0 DEF CountDrain, InFlight
  <2>2. Cardinality(InFlight') = Cardinality(InFlight) + 1
    BY <2>1, SomeSessions, FS_AddElement
  <2>3. drainSize' = drainSize + 1 /\ backlog' = backlog + 1 /\ UNCHANGED <<dpc, lost>>
    BY <1>1 DEF CountDrain
  <2>4. drainSize \in Int /\ backlog \in Int /\ lost \in Nat
    BY <1>0
  <2> HIDE DEF Control, TypeOK
  <2> QED  BY <2>2, <2>3, <2>4, SomeSessions DEF Accounted, DrainAccount, BacklogExact
<1>2. CASE Recv
  <2>1. Head(sendq) \in Session /\ pc[Head(sendq)] = "wait"
    BY <1>2, <1>0 DEF Recv
  <2>2. InFlight' = InFlight \ {Head(sendq)} /\ Head(sendq) \in InFlight
    BY <1>2, <1>0, <2>1 DEF Recv, InFlight
  <2>3. Cardinality(InFlight') = Cardinality(InFlight) - 1
    <3> HIDE DEF Control, TypeOK
    <3>1. Cardinality(InFlight \ {Head(sendq)}) = Cardinality(InFlight) - 1
      BY <2>2, SomeSessions, FS_RemoveElement, Zenon
    <3> QED  BY <2>2, <3>1
  <2> QED  BY <1>2, <1>0, <2>3, SomeSessions DEF Recv, Accounted, DrainAccount, BacklogExact
<1>3. ASSUME InFlight' = InFlight, CountConsume \/ CopyOk \/ CopyErr \/ PutBack
      PROVE  Accounted'
  <2> USE <1>3, SomeSessions DEF Accounted, DrainAccount, BacklogExact
  <2>1. CASE CountConsume
    <3>1. dpc' = "copy"
      BY <2>1, <1>0 DEF CountConsume, DrainReady
    <3> QED  BY <2>1, <3>1, <1>0 DEF CountConsume
  <2>2. CASE CopyOk
    BY <2>2, <1>0 DEF CopyOk
  <2>3. CASE CopyErr
    BY <2>3, <1>0 DEF CopyErr
  <2>4. CASE PutBack
    BY <2>4, <1>0 DEF PutBack
  <2> QED  BY <2>1, <2>2, <2>3, <2>4
<1>4. ASSUME CountConsume \/ CopyOk \/ CopyErr \/ PutBack PROVE InFlight' = InFlight
  BY <1>4, <1>0 DEF CountConsume, CopyOk, CopyErr, PutBack, InFlight
<1>5. ASSUME InFlight' = InFlight, UNCHANGED <<drainSize, backlog, dpc, lost>>
      PROVE  Accounted'
  BY <1>5, <1>0 DEF Accounted, DrainAccount, BacklogExact
<1>6. ASSUME NEW s \in Session,
             \/ \E k \in Key : GetReuse(s, k) \/ GetNew(s, k)
             \/ \E c \in Client : CloseBody(s, c)
             \/ Do(s) \/ Finish(s) \/ Abandon(s) \/ ShouldPut(s) \/ Discard(s) \/ Finished(s)
             \/ Send(s)
      PROVE  InFlight' = InFlight /\ UNCHANGED <<drainSize, backlog, dpc, lost>>
  BY <1>6, <1>0 DEF GetReuse, GetNew, CanGet, CloseBody, Do, DoOk, DoErr, Finish, Abandon, ShouldPut,
              Discard, Finished, Send, InFlight
<1>7. CASE UNCHANGED vars
  BY <1>7, <1>5 DEF vars, InFlight
<1> QED
  BY <1>1, <1>2, <1>3, <1>4, <1>5, <1>6, <1>7 DEF Next, Put, doDrain

LEMMA AccountedInvariant == Spec => []Accounted
<1>1. Init => Accounted
  <2> SUFFICES ASSUME Init PROVE Accounted
    OBVIOUS
  <2>1. InFlight = {}
    BY DEF Init, InFlight
  <2> QED  BY <2>1, FS_EmptySet DEF Init, Accounted, DrainAccount, BacklogExact
<1>2. Ownership /\ Control' /\ Accounted /\ [Next]_vars => Accounted'
  BY AccountedStep
<1> QED  BY <1>1, <1>2, ControlInvariant, OwnershipInvariant, PTL DEF Spec

(* drainSize is the senders, the drainer and the drains that ever failed:   *)
(* the third part never shrinks, so every failed drain costs the pool one   *)
(* place for good.                                                          *)
THEOREM DrainSizeAccounted == Spec => []DrainAccount
<1>1. Accounted => DrainAccount
  BY DEF Accounted
<1> QED  BY <1>1, AccountedInvariant, PTL

(* drainProduce - drainConsume is the number of clients announced and not   *)
(* acknowledged, whatever the number of goroutines.                         *)
THEOREM BacklogIsExact == Spec => []BacklogExact
<1>1. Accounted => BacklogExact
  BY DEF Accounted
<1> QED  BY <1>1, AccountedInvariant, PTL

LEMMA CountersNat ==
  ASSUME Control, Pooled, Accounted
  PROVE  size \in Nat /\ drainSize \in Nat /\ lost <= drainSize /\ lost \in Nat
<1>1. size \in Nat
  BY FS_CardinalityType DEF Pooled, SizeExact
<1>2. lost \in Nat /\ drainSize = lost + Cardinality(InFlight) + (IF dpc = "recv" THEN 0 ELSE 1)
  BY DEF Control, TypeOK, Accounted, DrainAccount
<1> QED  BY <1>1, <1>2, SomeSessions

LEMMA CapacityStep ==
  Control /\ Pooled /\ Accounted /\ CapacityBound /\ [Next]_vars => CapacityBound'
<1> SUFFICES ASSUME Control, Pooled, Accounted, CapacityBound, [Next]_vars
             PROVE  CapacityBound'
  OBVIOUS
<1>1. /\ size \in Nat /\ drainSize \in Nat
      /\ size + drainSize + Cardinality(Counting) <= CapacityLimit
      /\ CapacityLimit \in Int
  BY CountersNat, SomeSessions, SizeAssumption DEF CapacityBound, CapacityLimit
<1>2. pc \in [Session -> SessionPC]
  BY DEF Control, TypeOK
<1>3. ASSUME NEW s \in Session, ShouldPut(s) PROVE CapacityBound'
  <2>1. size + drainSize <= MaxPoolSize - 2 /\ MaxPoolSize >= 2
    BY <1>1, <1>3, SizeAssumption DEF ShouldPut, HasRoom
  <2>2. Cardinality(Counting') <= Cardinality(Session) /\ Cardinality(Counting') \in Nat
    <3>1. Counting' \in SUBSET Session
      BY DEF Counting
    <3> QED  BY <3>1, SessionAssumption, FS_Subset, FS_CardinalityType
  <2> QED  BY <1>1, <1>3, <2>1, <2>2, SizeAssumption, SomeSessions
              DEF ShouldPut, CapacityBound, CapacityLimit
<1>4. ASSUME NEW s \in Session, CountDrain(s) PROVE CapacityBound'
  <2>1. Counting' = Counting \ {s} /\ s \in Counting
    BY <1>2, <1>4 DEF CountDrain, Counting
  <2>2. Cardinality(Counting \ {s}) = Cardinality(Counting) - 1
    BY <2>1, SomeSessions, FS_RemoveElement, Zenon
  <2>3. drainSize' = drainSize + 1 /\ size' = size
    BY <1>4 DEF CountDrain
  <2> QED  BY <1>1, <2>1, <2>2, <2>3, SomeSessions DEF CapacityBound
<1>5. ASSUME Counting' = Counting,
             \/ size' = size /\ drainSize' = drainSize
             \/ size' = size - 1 /\ drainSize' = drainSize
             \/ size' = size + 1 /\ drainSize' = drainSize - 1
      PROVE  CapacityBound'
  <2>1. Cardinality(Counting') = Cardinality(Counting) /\ Cardinality(Counting) \in Nat
    BY <1>5, SomeSessions
  <2> QED  BY <1>1, <1>5, <2>1 DEF CapacityBound
<1>6. ASSUME NEW s \in Session,
             \/ \E k \in Key : GetReuse(s, k) \/ GetNew(s, k)
             \/ \E c \in Client : CloseBody(s, c)
             \/ Do(s) \/ Finish(s) \/ Abandon(s) \/ Discard(s) \/ Finished(s) \/ Send(s)
      PROVE  /\ Counting' = Counting /\ drainSize' = drainSize
             /\ size' = size \/ size' = size - 1
  BY <1>2, <1>6 DEF GetReuse, GetNew, CanGet, CloseBody, Do, DoOk, DoErr, Finish, Abandon,
                    Discard, Finished, Send, Counting
<1>7. ASSUME doDrain
      PROVE  /\ Counting' = Counting
             /\ \/ size' = size /\ drainSize' = drainSize
                \/ size' = size + 1 /\ drainSize' = drainSize - 1
  <2>1. CASE Recv
    <3>1. Head(sendq) \in Session /\ pc[Head(sendq)] = "wait"
      BY <2>1 DEF Recv, Control, TypeOK
    <3>2. Counting' = Counting
      BY <1>2, <2>1, <3>1 DEF Recv, Counting
    <3> QED  BY <2>1, <3>2 DEF Recv
  <2>2. CASE CountConsume \/ CopyOk \/ CopyErr \/ PutBack
    BY <2>2 DEF CountConsume, CopyOk, CopyErr, PutBack, Counting
  <2> QED  BY <1>7, <2>1, <2>2 DEF doDrain
<1>8. CASE UNCHANGED vars
  BY <1>1, <1>5, <1>8 DEF vars, Counting
<1> QED
  BY <1>1, <1>3, <1>4, <1>5, <1>6, <1>7, <1>8 DEF Next, Put

(* Two goroutines can pass shouldPut on the same free place: the pool goes  *)
(* over maxPoolSize - 2, and never by more than the number of goroutines.   *)
THEOREM CapacityIsBounded == Spec => []CapacityBound
<1>1. Init => CapacityBound
  <2> SUFFICES ASSUME Init PROVE CapacityBound
    OBVIOUS
  <2>1. Counting = {}
    BY DEF Init, Counting
  <2>2. Cardinality(Counting) = 0 /\ size = 0 /\ drainSize = 0
    BY <2>1, FS_EmptySet DEF Init
  <2>3. CapacityLimit \in Nat
    BY SomeSessions, SizeAssumption DEF CapacityLimit
  <2> QED  BY <2>2, <2>3 DEF CapacityBound
<1>2. Control /\ Pooled /\ Accounted /\ CapacityBound /\ [Next]_vars => CapacityBound'
  BY CapacityStep
<1> QED
  BY <1>1, <1>2, ControlInvariant, PooledInvariant, AccountedInvariant, PTL DEF Spec

(* A pool that has lost MaxPoolSize - 1 places accepts nothing any more:    *)
(* what is left in idle and with the drainer is all it will ever keep.      *)
THEOREM DeadPoolStaysDead == Spec => DeadForever
<1>1. Control /\ Pooled /\ Accounted /\ [Next]_vars
      => [DeadPool => DeadPool' /\ Counting' \subseteq Counting]_vars
  <2> SUFFICES ASSUME Control, Pooled, Accounted, [Next]_vars, DeadPool
               PROVE  DeadPool' /\ Counting' \subseteq Counting
    OBVIOUS
  <2> USE SizeAssumption DEF DeadPool
  <2>1. lost \in Nat /\ pc \in [Session -> SessionPC]
    BY DEF Control, TypeOK
  <2>2. ASSUME NEW s \in Session, ShouldPut(s) PROVE FALSE
    BY <2>2, <2>1, CountersNat DEF ShouldPut, HasRoom
  <2>3. ASSUME NEW s \in Session,
               \/ \E k \in Key : GetReuse(s, k) \/ GetNew(s, k)
               \/ \E c \in Client : CloseBody(s, c)
               \/ Do(s) \/ Finish(s) \/ Abandon(s) \/ Discard(s) \/ Finished(s)
               \/ CountDrain(s) \/ Send(s)
        PROVE  lost' = lost /\ Counting' \subseteq Counting
    BY <2>1, <2>3 DEF GetReuse, GetNew, CanGet, CloseBody, Do, DoOk, DoErr, Finish, Abandon,
                      Discard, Finished, CountDrain, Send, Counting
  <2>4. ASSUME doDrain
        PROVE  (lost' = lost \/ lost' = lost + 1) /\ Counting' \subseteq Counting
    BY <2>1, <2>4 DEF doDrain, Recv, CountConsume, CopyOk, CopyErr, PutBack, Counting
  <2>5. CASE UNCHANGED vars
    BY <2>5 DEF vars, Counting
  <2> QED
    BY <2>1, <2>2, <2>3, <2>4, <2>5 DEF Next, Put
<1> QED
  BY <1>1, ControlInvariant, PooledInvariant, AccountedInvariant, PTL DEF Spec, DeadForever

----------------------------------------------------------------------------
(* HClientPool implements ClientCustody: with the mapping of HClientPool,   *)
(* each step is one abstract step or a stutter.                             *)

(* The steps of a goroutine that touch neither the pool's accounts nor the  *)
(* drain: all but ShouldPut and CountDrain.                                 *)
Quiet(s) ==
  \/ \E k \in Key : GetReuse(s, k) \/ GetNew(s, k)
  \/ \E c \in Client : CloseBody(s, c)
  \/ Do(s) \/ Finish(s) \/ Abandon(s) \/ Discard(s) \/ Finished(s) \/ Send(s)

(* How each step changes the set of clients being drained.                  *)
LEMMA DrainingGains ==
  ASSUME Ownership, Control', NEW s \in Session, ShouldPut(s)
  PROVE  /\ cur'[s] \in active[s] /\ active' = [active EXCEPT ![s] = @ \ {cur'[s]}]
         /\ Draining' = Draining \cup {cur'[s]} /\ cur'[s] \notin Draining
<1> USE ClientAssumption
        DEF Ownership, Control, TypeOK, Putting, SessionPC, DrainerPC
<1>1. cur'[s] \in active[s] /\ active' = [active EXCEPT ![s] = @ \ {cur'[s]}]
  BY DEF ShouldPut
<1>2. Draining' = Draining \cup {cur'[s]}
  BY <1>1 DEF ShouldPut, Draining
<1>3. ASSUME cur'[s] \in Draining PROVE FALSE
  <2>1. cur'[s] \in Client /\ Holds(s, cur'[s]) /\ pc[s] = "put"
    BY <1>1 DEF ShouldPut, Holds
  <2>2. cur'[s] # dcur
    BY <2>1 DEF HeldAlone
  <2>3. PICK t \in Session : pc[t] \in Putting /\ cur[t] = cur'[s]
    BY <1>3, <2>2 DEF Draining
  <2>4. Holds(t, cur'[s]) /\ t # s
    BY <2>1, <2>3 DEF Holds
  <2> QED  BY <2>1, <2>4 DEF OneHolder
<1> QED  BY <1>1, <1>2, <1>3

LEMMA DrainingLoses ==
  ASSUME Ownership, PutBack \/ CopyErr
  PROVE  Draining' = Draining \ {dcur} /\ dcur \in Draining
<1> USE ClientAssumption DEF Ownership, Control, TypeOK, Putting
<1>1. dcur \in Client /\ dcur' = NoClient /\ UNCHANGED <<pc, cur>>
  BY DEF PutBack, CopyErr
<1>2. \A s \in Session : pc[s] \in Putting => cur[s] # dcur
  BY <1>1 DEF HeldAlone, Holds
<1> QED  BY <1>1, <1>2 DEF Draining

LEMMA DrainingStays ==
  ASSUME Ownership, Control',
         \/ \E s \in Session : Quiet(s) \/ CountDrain(s)
         \/ Recv \/ CountConsume \/ CopyOk \/ UNCHANGED vars
  PROVE  Draining' = Draining
<1> USE ClientAssumption
        DEF Ownership, Control, TypeOK, Putting, SessionPC, DrainerPC
<1>1. ASSUME Recv PROVE Draining' = Draining
  <2>1. Head(sendq) \in Session /\ pc[Head(sendq)] = "wait"
    BY <1>1 DEF Recv
  <2> QED  BY <1>1, <2>1 DEF Recv, Draining
<1>2. ASSUME CountConsume \/ CopyOk PROVE Draining' = Draining
  BY <1>2 DEF CountConsume, CopyOk, Draining, DrainReady
<1>3. ASSUME NEW s \in Session, Quiet(s) \/ CountDrain(s) PROVE Draining' = Draining
  <2>1. /\ dcur' = dcur
        /\ \A t \in Session : pc'[t] \in Putting <=> pc[t] \in Putting
    BY <1>3 DEF Quiet, GetReuse, GetNew, CanGet, CloseBody, Do, DoOk, DoErr, Finish,
                Abandon, Discard, Finished, CountDrain, Send
  <2>2. \A t \in Session : pc[t] \in Putting => cur'[t] = cur[t]
    BY <1>3 DEF Quiet, GetReuse, GetNew, CanGet, CloseBody, Do, DoOk, DoErr, Finish,
                Abandon, Discard, Finished, CountDrain, Send
  <2> QED  BY <2>1, <2>2 DEF Draining
<1>4. ASSUME UNCHANGED vars PROVE Draining' = Draining
  BY <1>4 DEF vars, Draining
<1> QED  BY <1>1, <1>2, <1>3, <1>4

(* The clients being drained and the drains that failed are those that      *)
(* passed shouldPut: not yet counted in drainSize, or counted.              *)
DrainingCount ==
  /\ IsFiniteSet(Draining)
  /\ Cardinality(Draining) + lost = Cardinality(Counting) + drainSize

LEMMA DrainingCountStep ==
  Ownership /\ Control' /\ DrainingCount /\ [Next]_vars => DrainingCount'
<1> SUFFICES ASSUME Ownership, Control', DrainingCount, [Next]_vars PROVE DrainingCount'
  OBVIOUS
<1>1. /\ Control /\ pc \in [Session -> SessionPC]
      /\ lost \in Nat /\ drainSize \in Int
      /\ Cardinality(Draining) \in Nat /\ Cardinality(Counting) \in Nat
  BY SomeSessions, FS_CardinalityType DEF Ownership, Control, TypeOK, DrainingCount
<1>2. ASSUME NEW s \in Session, ShouldPut(s) PROVE DrainingCount'
  <2>1. Draining' = Draining \cup {cur'[s]} /\ cur'[s] \notin Draining
    BY <1>2, DrainingGains DEF DrainingCount
  <2>2. IsFiniteSet(Draining') /\ Cardinality(Draining') = Cardinality(Draining) + 1
    BY <2>1, FS_AddElement DEF DrainingCount
  <2>3. Counting' = Counting \cup {s} /\ s \notin Counting
    BY <1>1, <1>2 DEF ShouldPut, Counting
  <2>4. Cardinality(Counting') = Cardinality(Counting) + 1
    BY <2>3, SomeSessions, FS_AddElement
  <2>5. UNCHANGED <<lost, drainSize>>
    BY <1>2 DEF ShouldPut
  <2> QED  BY <1>1, <2>2, <2>4, <2>5 DEF DrainingCount
<1>3. ASSUME NEW s \in Session, CountDrain(s) PROVE DrainingCount'
  <2>1. Counting' = Counting \ {s} /\ s \in Counting
    BY <1>1, <1>3 DEF CountDrain, Counting
  <2>2. Cardinality(Counting') = Cardinality(Counting) - 1
    BY <2>1, SomeSessions, FS_RemoveElement
  <2>3. Draining' = Draining
    BY <1>1, <1>3 DEF CountDrain, Draining
  <2>4. drainSize' = drainSize + 1 /\ lost' = lost
    BY <1>3 DEF CountDrain
  <2> QED  BY <1>1, <2>2, <2>3, <2>4 DEF DrainingCount
<1>4. CASE PutBack \/ CopyErr
  <2>1. Draining' = Draining \ {dcur} /\ dcur \in Draining
    BY <1>4, DrainingLoses
  <2>2. IsFiniteSet(Draining') /\ Cardinality(Draining') = Cardinality(Draining) - 1
    BY <2>1, FS_RemoveElement DEF DrainingCount
  <2>3. Counting' = Counting
    BY <1>4 DEF PutBack, CopyErr, Counting
  <2>4. \/ drainSize' = drainSize - 1 /\ lost' = lost
        \/ drainSize' = drainSize /\ lost' = lost + 1
    BY <1>4 DEF PutBack, CopyErr
  <2> QED  BY <1>1, <2>2, <2>3, <2>4 DEF DrainingCount
<1>5. ASSUME Counting' = Counting, UNCHANGED <<lost, drainSize>>, Draining' = Draining
      PROVE  DrainingCount'
  BY <1>5 DEF DrainingCount
<1>6. ASSUME NEW s \in Session, Quiet(s)
      PROVE  Counting' = Counting /\ UNCHANGED <<lost, drainSize>> /\ Draining' = Draining
  <2>1. Draining' = Draining
    BY <1>6, DrainingStays
  <2>2. Counting' = Counting /\ UNCHANGED <<lost, drainSize>>
    BY <1>1, <1>6 DEF Quiet, GetReuse, GetNew, CanGet, CloseBody, Do, DoOk, DoErr, Finish,
                      Abandon, Discard, Finished, Send, Counting
  <2> QED  BY <2>1, <2>2
<1>7. CASE Recv
  <2>1. Head(sendq) \in Session /\ pc[Head(sendq)] = "wait"
    BY <1>1, <1>7 DEF Recv, Control, TypeOK
  <2>2. Counting' = Counting
    BY <1>1, <1>7, <2>1 DEF Recv, Counting
  <2>3. Draining' = Draining
    BY <1>7, DrainingStays
  <2> QED  BY <1>5, <1>7, <2>2, <2>3 DEF Recv
<1>8. CASE CountConsume \/ CopyOk \/ UNCHANGED vars
  <2>1. Draining' = Draining
    BY <1>8, DrainingStays
  <2> QED  BY <1>5, <1>8, <2>1 DEF CountConsume, CopyOk, vars, Counting
<1> QED
  BY <1>2, <1>3, <1>4, <1>5, <1>6, <1>7, <1>8 DEF Next, Put, doDrain, Quiet

LEMMA DrainingCountInvariant == Spec => []DrainingCount
<1>1. Init => DrainingCount
  <2> SUFFICES ASSUME Init PROVE DrainingCount
    OBVIOUS
  <2>1. Draining = {} /\ Counting = {}
    BY ClientAssumption DEF Init, Draining, Counting
  <2> QED  BY <2>1, FS_EmptySet DEF Init, DrainingCount
<1>2. Ownership /\ Control' /\ DrainingCount /\ [Next]_vars => DrainingCount'
  BY DrainingCountStep
<1> QED  BY <1>1, <1>2, ControlInvariant, OwnershipInvariant, PTL DEF Spec

----------------------------------------------------------------------------
LEMMA CustodyInit == Init => Custody!Init
<1> SUFFICES ASSUME Init PROVE Custody!Init
  OBVIOUS
<1>1. Draining = {} /\ Idle = {}
  BY ClientAssumption DEF Init, Draining, Idle
<1> QED  BY <1>1 DEF Init, Custody!Init

LEMMA CustodyStep ==
  ASSUME Ownership, Control', Pooled, Accounted, DrainingCount, [Next]_vars
  PROVE  [Custody!Next]_(Custody!vars)
<1>1. Control /\ TypeOK
  BY DEF Ownership, Control
<1>2. ASSUME NEW s \in Session, NEW k \in Key, GetReuse(s, k) PROVE Custody!Next
  <2>1. PICK c \in idle[k] : /\ idle' = [idle EXCEPT ![k] = @ \ {c}]
                             /\ active' = [active EXCEPT ![s] = @ \cup {c}]
    BY <1>2 DEF GetReuse
  <2>2. c \in Client /\ \A j \in Key : c \in idle[j] => j = k
    BY <1>1, <2>1 DEF Ownership, IdleReady, TypeOK
  <2>3. Idle' = Idle \ {c}
    BY <1>1, <2>1, <2>2 DEF Idle, TypeOK
  <2>4. c \notin Custody!Leased \cup Draining
    BY <1>1, <2>1, <2>2
       DEF Custody!Leased, Draining, Ownership, HeldAlone, DrainAlone, Holds, TypeOK, Putting
  <2>5. Draining' = Draining
    BY <1>2, DrainingStays DEF Quiet
  <2>6. lost' = lost
    BY <1>2 DEF GetReuse
  <2> QED  BY <2>1, <2>2, <2>3, <2>4, <2>5, <2>6 DEF Custody!Next, Custody!Lease
<1>3. ASSUME NEW s \in Session, NEW k \in Key, GetNew(s, k) PROVE Custody!Next
  <2>1. PICK c \in Client : ~Owned(c) /\ active' = [active EXCEPT ![s] = @ \cup {c}]
    BY <1>3 DEF GetNew
  <2>2. Idle' = Idle \ {c} /\ lost' = lost
    BY <1>3, <2>1 DEF GetNew, Owned, Idle
  <2>3. c \notin Custody!Leased \cup Draining
    BY <2>1 DEF Custody!Leased, Draining, Owned
  <2>4. Draining' = Draining
    BY <1>3, DrainingStays DEF Quiet
  <2> QED  BY <2>1, <2>2, <2>3, <2>4 DEF Custody!Next, Custody!Lease
<1>4. ASSUME NEW s \in Session, ShouldPut(s) PROVE Custody!Next
  <2> DEFINE c == cur'[s]
  <2>1. /\ c \in active[s] /\ active' = [active EXCEPT ![s] = @ \ {c}]
        /\ Draining' = Draining \cup {c}
    BY <1>4, DrainingGains
  <2>2. c \in Client
    BY <1>1, <2>1 DEF TypeOK
  <2>3. Idle' = Idle /\ lost' = lost
    BY <1>4 DEF ShouldPut, Idle
  <2>4. Custody!Kept < CapacityLimit
    <3>1. size + drainSize <= MaxPoolSize - 2 /\ MaxPoolSize >= 2
      BY <1>1, <1>4, CountersNat, SizeAssumption DEF ShouldPut, HasRoom
    <3>2. Cardinality(Counting) < Cardinality(Session)
      <4>1. s \notin Counting /\ Counting \in SUBSET Session
        BY <1>4 DEF ShouldPut, Counting
      <4>2. Cardinality(Counting) # Cardinality(Session)
        BY <4>1, SessionAssumption, FS_Subset
      <4> QED  BY <4>2, SomeSessions
    <3>3. Custody!Kept = Cardinality(Draining) + Cardinality(Idle) + lost
      BY DEF Custody!Kept, Custody!Cardinality, Cardinality
    <3>4. Cardinality(Draining) \in Nat /\ lost \in Nat /\ size \in Nat /\ drainSize \in Nat
      BY <1>1, CountersNat, FS_CardinalityType DEF DrainingCount
    <3>5. Custody!Kept = size + drainSize + Cardinality(Counting)
      <4>1. Cardinality(Draining) + lost = Cardinality(Counting) + drainSize
        BY DEF DrainingCount
      <4>2. size = Cardinality(Idle)
        BY DEF Pooled, SizeExact
      <4> QED  BY <3>3, <3>4, <4>1, <4>2, SomeSessions
    <3> QED  BY <3>1, <3>2, <3>4, <3>5, SomeSessions, SizeAssumption DEF CapacityLimit
  <2> QED  BY <2>1, <2>2, <2>3, <2>4 DEF Custody!Next, Custody!Return
<1>5. ASSUME NEW s \in Session, Discard(s) \/ Abandon(s) PROVE Custody!Next
  <2>1. PICK C \in SUBSET active[s] : active' = [active EXCEPT ![s] = @ \ C]
    <3>1. ASSUME Discard(s)
          PROVE  \E C \in SUBSET active[s] : active' = [active EXCEPT ![s] = @ \ C]
      BY <3>1 DEF Discard
    <3>2. ASSUME Abandon(s) PROVE active' = [active EXCEPT ![s] = @ \ active[s]]
      BY <1>1, <3>2 DEF Abandon, TypeOK
    <3> QED  BY <1>5, <3>1, <3>2
  <2>2. Idle' = Idle /\ lost' = lost
    BY <1>5 DEF Discard, Abandon, Idle
  <2>3. Draining' = Draining
    BY <1>5, DrainingStays DEF Quiet
  <2> QED  BY <2>1, <2>2, <2>3 DEF Custody!Next, Custody!Forget
<1>6. CASE PutBack
  <2>1. dcur \in Client /\ KeyOf[dcur] \in Key
    BY <1>1, <1>6, ClientAssumption, KeyAssumption DEF PutBack, TypeOK, Control
  <2>2. Idle' = Idle \cup {dcur} /\ UNCHANGED <<active, lost>>
    BY <1>1, <1>6, <2>1 DEF PutBack, Idle, TypeOK
  <2>3. Draining' = Draining \ {dcur} /\ dcur \in Draining
    BY <1>6, DrainingLoses
  <2> QED  BY <2>1, <2>2, <2>3 DEF Custody!Next, Custody!Drained
<1>7. CASE CopyErr
  <2>1. dcur \in Client
    BY <1>1, <1>7, ClientAssumption DEF CopyErr, TypeOK, Control
  <2>2. Idle' = Idle /\ lost' = lost + 1 /\ active' = active
    BY <1>7 DEF CopyErr, Idle
  <2>3. Draining' = Draining \ {dcur} /\ dcur \in Draining
    BY <1>7, DrainingLoses
  <2> QED  BY <2>1, <2>2, <2>3 DEF Custody!Next, Custody!DrainFailed
<1>8. ASSUME NEW s \in Session,
             \/ \E c \in Client : CloseBody(s, c)
             \/ Do(s) \/ Finish(s) \/ Finished(s) \/ Send(s) \/ CountDrain(s)
      PROVE  UNCHANGED Custody!vars
  <2>1. Draining' = Draining
    BY <1>8, DrainingStays DEF Quiet
  <2>2. Idle' = Idle /\ UNCHANGED <<active, lost>>
    BY <1>8 DEF CloseBody, Do, DoOk, DoErr, Finish, Finished, Send, CountDrain, Idle
  <2> QED  BY <2>1, <2>2 DEF Custody!vars
<1>9. ASSUME Recv \/ CountConsume \/ CopyOk \/ UNCHANGED vars PROVE UNCHANGED Custody!vars
  <2>1. Draining' = Draining
    BY <1>9, DrainingStays
  <2>2. Idle' = Idle /\ UNCHANGED <<active, lost>>
    BY <1>9 DEF Recv, CountConsume, CopyOk, vars, Idle
  <2> QED  BY <2>1, <2>2 DEF Custody!vars
<1> QED
  BY <1>2, <1>3, <1>4, <1>5, <1>6, <1>7, <1>8, <1>9 DEF Next, Put, doDrain

(* The pool with its counters, its two critical sections in Put, its        *)
(* blocking channel and its drainer does what ClientCustody says: a client  *)
(* is leased to one transaction, returned through a drain, pooled or lost.  *)
THEOREM PoolKeepsCustody == Spec => KeepsCustody
<1>1. Init => Custody!Init
  BY CustodyInit
<1>2. Ownership /\ Control' /\ Pooled /\ Accounted /\ DrainingCount /\ [Next]_vars
      => [Custody!Next]_(Custody!vars)
  BY CustodyStep
<1> QED
  BY <1>1, <1>2, ControlInvariant, OwnershipInvariant, PooledInvariant, AccountedInvariant,
     DrainingCountInvariant, PTL
  DEF Spec, KeepsCustody, Custody!Spec
=============================================================================
