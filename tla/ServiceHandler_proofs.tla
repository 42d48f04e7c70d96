------------------------ MODULE ServiceHandler_proofs ------------------------
(***************************************************************************)
(* Proofs about ServiceHandler, for any number of requests, handlers and   *)
(* middlewares and any bound on the pool.                                  *)
(***************************************************************************)
EXTENDS ServiceHandler, FiniteSetTheorems, TLAPS

Writer == [status : Status, body : Body, headerDone : BOOLEAN, bodyDone : BOOLEAN]
Wire == [status : Status, body : Body]

TypeOK ==
  /\ idle \in Seq(Handler)
  /\ service \in [Handler -> BOOLEAN] /\ clients \in [Handler -> BOOLEAN]
  /\ pc \in [Request -> Phase]
  /\ handler \in [Request -> Handler \cup {NoHandler}]
  /\ prevError \in [Request -> BOOLEAN] /\ context \in [Request -> BOOLEAN]
  /\ acceptErr \in [Request -> BOOLEAN] /\ panicking \in [Request -> BOOLEAN]
  /\ reported \in [Request -> BOOLEAN]
  /\ left \in [Request -> Nat]
  /\ writer \in [Request -> Writer]
  /\ wire \in [Request -> Wire]
  /\ failures \in Nat /\ victims \in Nat

(* A request holds a handler exactly while its goroutine is in the pipeline. *)
Busy == \A r \in Request : handler[r] = NoHandler <=> pc[r] = "idle"

Typed == TypeOK /\ Busy

----------------------------------------------------------------------------
(* The writer's operations.                                                  *)

LEMMA WriterTypes ==
  ASSUME NEW w \in Writer, NEW x \in Wire, NEW s \in Status, NEW b \in Body
  PROVE  /\ FlushHeader(w) \in Writer /\ Flush(w) \in Writer
         /\ WriteStatus(w, s) \in Writer /\ WriteBody(w, b) \in Writer
         /\ SetReply(w, s, b) \in Writer
         /\ HeaderOut(w, x) \in Wire /\ BodyOut(w, x) \in Wire
<1> USE DEF Writer, Wire
<1>1. "none" \in Body
  BY DEF Body
<1>2. FlushHeader(w) \in Writer /\ Flush(w) \in Writer
  BY <1>1 DEF FlushHeader, Flush
<1>3. WriteStatus(w, s) \in Writer /\ WriteBody(w, b) \in Writer
  BY DEF WriteStatus, WriteBody
<1>4. SetReply(w, s, b) \in Writer
  BY DEF SetReply
<1>5. HeaderOut(w, x) \in Wire
  BY DEF HeaderOut
<1>6. BodyOut(w, x) \in Wire
  BY <1>5 DEF BodyOut
<1> QED  BY <1>2, <1>3, <1>4, <1>5, <1>6

LEMMA FlushTypes ==
  ASSUME Typed, NEW r \in Request, DoFlush(r)
  PROVE  writer' \in [Request -> Writer] /\ wire' \in [Request -> Wire]
<1>1. writer \in [Request -> Writer] /\ wire \in [Request -> Wire]
  BY DEF Typed, TypeOK
<1>2. "500" \in Status /\ "error" \in Body
  BY DEF Status, Body
<1>3. Flush(writer[r]) \in Writer /\ BodyOut(writer[r], wire[r]) \in Wire
  BY <1>1, <1>2, WriterTypes
<1> QED  BY <1>1, <1>3 DEF DoFlush

LEMMA RaiseTypes ==
  ASSUME Typed, NEW r \in Request, Raise(r)
  PROVE  /\ writer' \in [Request -> Writer] /\ wire' \in [Request -> Wire]
         /\ reported' \in [Request -> BOOLEAN]
         /\ pc' = [pc EXCEPT ![r] = "error"]
<1>1. writer \in [Request -> Writer] /\ wire \in [Request -> Wire]
      /\ reported \in [Request -> BOOLEAN]
  BY DEF Typed, TypeOK
<1>2. "500" \in Status /\ "error" \in Body
  BY DEF Status, Body
<1>3. SetReply(writer[r], "500", "error") \in Writer
  BY <1>1, <1>2, WriterTypes
<1>4. (~writer[r].headerDone) \in BOOLEAN
  OBVIOUS
<1> QED  BY <1>1, <1>3, <1>4 DEF Raise

LEMMA GotoTypes ==
  ASSUME Typed, NEW r \in Request, NEW p \in Phase \ {"idle"}, pc[r] # "idle",
         Goto(r, p), UNCHANGED handler
  PROVE  pc' \in [Request -> Phase] /\ Busy'
BY DEF Goto, Typed, TypeOK, Busy

LEMMA EndTypes ==
  ASSUME Typed, NEW r \in Request, End(r)
  PROVE  /\ pc' \in [Request -> Phase]
         /\ handler' \in [Request -> Handler \cup {NoHandler}]
         /\ prevError' \in [Request -> BOOLEAN] /\ context' \in [Request -> BOOLEAN]
         /\ acceptErr' \in [Request -> BOOLEAN] /\ panicking' \in [Request -> BOOLEAN]
         /\ reported' \in [Request -> BOOLEAN] /\ left' \in [Request -> Nat]
         /\ writer' \in [Request -> Writer] /\ wire' \in [Request -> Wire]
         /\ failures' \in Nat /\ victims' \in Nat
         /\ Busy'
<1>1. NewWriter \in Writer /\ NewWire \in Wire
  BY DEF NewWriter, NewWire, Writer, Wire, Status, Body
<1>2. writer' \in [Request -> Writer] /\ wire' \in [Request -> Wire]
  BY <1>1 DEF End, Typed, TypeOK
<1>3. Busy'
  BY DEF End, Typed, TypeOK, Busy, Phase
<1> QED  BY <1>2, <1>3 DEF End, Typed, TypeOK, Phase

LEMMA TypedInvariant == Spec => []Typed
<1> USE HandlerAssumption, SizeAssumption, FlagAssumption
<1>1. Init => Typed
  <2> SUFFICES ASSUME Init PROVE Typed
    OBVIOUS
  <2>1. NewWriter \in Writer /\ NewWire \in Wire
    BY DEF NewWriter, NewWire, Writer, Wire, Status, Body
  <2> QED  BY <2>1 DEF Init, Typed, TypeOK, Busy, Phase
<1>2. Typed /\ [Next]_vars => Typed'
  <2> SUFFICES ASSUME Typed, [Next]_vars PROVE Typed'
    OBVIOUS
  <2>1. CASE UNCHANGED vars
    BY <2>1 DEF vars, Typed, TypeOK, Busy
  <2>2. ASSUME NEW r \in Request, GetIdle(r) PROVE Typed'
    <3>1. idle[Len(idle)] \in Handler /\ SubSeq(idle, 1, Len(idle) - 1) \in Seq(Handler)
      BY <2>2 DEF GetIdle, Typed, TypeOK
    <3>2. handler' \in [Request -> Handler \cup {NoHandler}] /\ pc' \in [Request -> Phase] /\ Busy'
      BY <2>2, <3>1 DEF GetIdle, Start, Typed, TypeOK, Busy, Phase
    <3> QED  BY <2>2, <3>1, <3>2 DEF GetIdle, Start, Typed, TypeOK
  <2>3. ASSUME NEW r \in Request, NEW ok \in BOOLEAN, NewHandler(r, ok) PROVE Typed'
    <3>1. PICK h \in Handler : Start(r, h) /\ service' = [service EXCEPT ![h] = ok]
                               /\ clients' = [clients EXCEPT ![h] = FALSE]
      BY <2>3 DEF NewHandler
    <3>2. handler' \in [Request -> Handler \cup {NoHandler}] /\ pc' \in [Request -> Phase] /\ Busy'
      BY <2>3, <3>1 DEF NewHandler, Start, Typed, TypeOK, Busy, Phase
    <3>3. failures' \in Nat /\ prevError' \in [Request -> BOOLEAN]
      BY <2>3 DEF NewHandler, Typed, TypeOK
    <3> QED  BY <2>3, <3>1, <3>2, <3>3 DEF NewHandler, Start, Typed, TypeOK
  <2>4. ASSUME NEW r \in Request, ScriptWrite(r) PROVE Typed'
    <3>1. writer' \in [Request -> Writer]
      <4>1. writer \in [Request -> Writer] /\ writer[r] \in Writer
        BY DEF Typed, TypeOK
      <4>2. [writer[r] EXCEPT !.status = "other"] \in Writer
            /\ [writer[r] EXCEPT !.body = "script"] \in Writer
        BY <4>1 DEF Writer, Status, Body
      <4> QED  BY <2>4, <4>1, <4>2 DEF ScriptWrite
    <3>2. (reported[r] /\ pc[r] # "error") \in BOOLEAN
      OBVIOUS
    <3>3. reported' \in [Request -> BOOLEAN]
      BY <2>4, <3>2 DEF ScriptWrite, Typed, TypeOK
    <3> QED  BY <2>4, <3>1, <3>3 DEF ScriptWrite, Typed, TypeOK, Busy
  <2>5. ASSUME NEW r \in Request, ScriptFlush(r) PROVE Typed'
    <3>1. writer[r] \in Writer /\ wire[r] \in Wire /\ "500" \in Status /\ "eof" \in Body
      BY DEF Typed, TypeOK, Status, Body
    <3>2. FlushHeader(writer[r]) \in Writer /\ HeaderOut(writer[r], wire[r]) \in Wire
      BY <3>1, WriterTypes
    <3>3. writer' \in [Request -> Writer] /\ wire' \in [Request -> Wire]
      <4>1. CASE DoFlush(r)
        BY <4>1, FlushTypes
      <4> QED  BY ZenonT(30), <2>5, <3>2, <4>1 DEF ScriptFlush, Typed, TypeOK
    <3> QED  BY <2>5, <3>3 DEF ScriptFlush, Typed, TypeOK, Busy
  <2>6. ASSUME NEW r \in Request, ScriptGetClient(r) PROVE Typed'
    BY <2>6 DEF ScriptGetClient, Typed, TypeOK, Busy
  <2>7. ASSUME NEW r \in Request, ScriptPanics(r) PROVE Typed'
    <3>1. CASE pc[r] = "log"
      <4>1. End(r) /\ UNCHANGED idle
            /\ service' \in [Handler -> BOOLEAN] /\ clients' \in [Handler -> BOOLEAN]
        BY <2>7, <3>1 DEF ScriptPanics, Typed, TypeOK
      <4> QED  BY <4>1, EndTypes DEF Typed, TypeOK
    <3>2. CASE pc[r] # "log"
      <4>1. pc' \in [Request -> Phase] /\ Busy'
        BY <2>7, <3>2 DEF ScriptPanics, RunsScript, Goto, Rest, Typed, TypeOK, Busy, Phase
      <4> QED  BY <2>7, <3>2, <4>1 DEF ScriptPanics, Goto, Rest, Typed, TypeOK
    <3> QED  BY <3>1, <3>2
  <2>8. ASSUME NEW r \in Request, InitOk(r) PROVE Typed'
    <3>1. pc[r] # "idle" /\ UNCHANGED handler
      BY <2>8 DEF InitOk, Rest
    <3>2. CASE Raise(r) /\ UNCHANGED <<left, panicking, victims>>
      <4>1. Goto(r, "error")
        BY <3>2, RaiseTypes DEF Goto
      <4>2. pc' \in [Request -> Phase] /\ Busy'
        BY <3>1, <4>1, GotoTypes DEF Phase
      <4> QED  BY <2>8, <3>2, <4>2, RaiseTypes DEF InitOk, Rest, Typed, TypeOK
    <3>3. CASE UNCHANGED <<writer, wire, reported>>
      <4>1. Goto(r, "finalize") \/ Goto(r, "request") \/ Goto(r, "error")
        BY <2>8, RaiseTypes DEF InitOk, Goto
      <4>2. pc' \in [Request -> Phase] /\ Busy'
        BY <3>1, <4>1, GotoTypes DEF Phase
      <4>3. left' = left \/ left' = [left EXCEPT ![r] = Middlewares]
        BY <2>8 DEF InitOk
      <4>4. victims' = victims \/ victims' = victims + 1
        BY <2>8 DEF InitOk
      <4>5. panicking' = panicking \/ panicking' = [panicking EXCEPT ![r] = TRUE]
        BY <2>8 DEF InitOk
      <4>6. left' \in [Request -> Nat]
        BY <4>3 DEF Typed, TypeOK
      <4>7. victims' \in Nat
        BY <4>4 DEF Typed, TypeOK
      <4>8. panicking' \in [Request -> BOOLEAN]
        BY <4>5 DEF Typed, TypeOK
      <4> QED  BY <2>8, <3>3, <4>2, <4>6, <4>7, <4>8 DEF InitOk, Rest, Typed, TypeOK
    <3> QED  BY <2>8, <3>2, <3>3 DEF InitOk
  <2>9. ASSUME NEW r \in Request, Fails(r) PROVE Typed'
    <3>1. pc' \in [Request -> Phase] /\ Busy'
      BY <2>9, RaiseTypes DEF Fails, Rest, Typed, TypeOK, Busy, Phase
    <3>2. Raise(r)
      BY <2>9 DEF Fails
    <3> QED  BY <2>9, <3>1, <3>2, RaiseTypes DEF Fails, Rest, Typed, TypeOK
  <2>10. ASSUME NEW r \in Request, Middleware(r) PROVE Typed'
    <3>1. writer' \in [Request -> Writer] /\ wire' \in [Request -> Wire]
      <4>1. CASE DoFlush(r)
        BY <4>1, FlushTypes
      <4>2. writer[r] \in Writer /\ wire[r] \in Wire /\ "other" \in Status
            /\ "middleware" \in Body
        BY DEF Typed, TypeOK, Status, Body
      <4>3. WriteStatus(writer[r], "other") \in Writer
        BY <4>2, WriterTypes
      <4>4. WriteBody(WriteStatus(writer[r], "other"), "middleware") \in Writer
        BY <4>2, <4>3, WriterTypes
      <4> QED  BY <2>10, <4>1, <4>4 DEF Middleware, Typed, TypeOK
    <3>2. (IF writer'[r].bodyDone THEN "finalize" ELSE pc[r]) \in Phase \ {"idle"}
      BY <2>10 DEF Middleware, Phase
    <3>3. pc' \in [Request -> Phase] /\ Busy'
      BY <2>10, <3>2 DEF Middleware, Rest, Goto, Typed, TypeOK, Busy
    <3>4. left' \in [Request -> Nat]
      BY <2>10 DEF Middleware, Typed, TypeOK
    <3> QED  BY <2>10, <3>1, <3>3, <3>4 DEF Middleware, Rest, Typed, TypeOK
  <2>11. ASSUME NEW r \in Request, MiddlewareFails(r) PROVE Typed'
    <3>1. Raise(r)
      BY <2>11 DEF MiddlewareFails
    <3>2. pc' \in [Request -> Phase] /\ Busy'
      BY <2>11, <3>1, RaiseTypes DEF MiddlewareFails, Rest, Typed, TypeOK, Busy, Phase
    <3> QED  BY <2>11, <3>1, <3>2, RaiseTypes DEF MiddlewareFails, Rest, Typed, TypeOK
  <2>12. ASSUME NEW r \in Request, ChainEnd(r) PROVE Typed'
    BY <2>12 DEF ChainEnd, Goto, Rest, Typed, TypeOK, Busy, Phase
  <2>13. ASSUME NEW r \in Request, Prepare(r) PROVE Typed'
    BY <2>13 DEF Prepare, Goto, Rest, Typed, TypeOK, Busy, Phase
  <2>14. ASSUME NEW r \in Request, Accept(r) PROVE Typed'
    <3>1. Goto(r, "response") \/ Goto(r, "event")
      BY <2>14 DEF Accept, ToResponse
    <3>2. pc' \in [Request -> Phase] /\ Busy'
      BY <2>14, <3>1, GotoTypes DEF Accept, Rest, Phase
    <3>3. left' \in [Request -> Nat]
      BY <2>14 DEF Accept, ToResponse, Typed, TypeOK
    <3> QED  BY <2>14, <3>2, <3>3 DEF Accept, Rest, Typed, TypeOK
  <2>15. ASSUME NEW r \in Request, EventOk(r) PROVE Typed'
    BY <2>15 DEF EventOk, ToResponse, Goto, Rest, Typed, TypeOK, Busy, Phase
  <2>16. ASSUME NEW r \in Request, ErrorEnd(r) PROVE Typed'
    <3>1. DoFlush(r)
      BY <2>16 DEF ErrorEnd
    <3>2. pc' \in [Request -> Phase] /\ Busy'
      BY <2>16 DEF ErrorEnd, Goto, Rest, Typed, TypeOK, Busy, Phase
    <3> QED  BY <2>16, <3>1, <3>2, FlushTypes DEF ErrorEnd, Rest, Typed, TypeOK
  <2>17. ASSUME NEW r \in Request, Finalize(r) PROVE Typed'
    <3>1. DoFlush(r)
      BY <2>17 DEF Finalize
    <3>2. pc' \in [Request -> Phase] /\ Busy'
      BY <2>17 DEF Finalize, Goto, Rest, Typed, TypeOK, Busy, Phase
    <3> QED  BY <2>17, <3>1, <3>2, FlushTypes DEF Finalize, Rest, Typed, TypeOK
  <2>18. ASSUME NEW r \in Request, AppDone(r) PROVE Typed'
    BY <2>18 DEF AppDone, Goto, Rest, Typed, TypeOK, Busy, Phase
  <2>19. ASSUME NEW r \in Request, DonePanics(r) PROVE Typed'
    <3>1. End(r) /\ UNCHANGED idle
          /\ service' \in [Handler -> BOOLEAN] /\ clients' \in [Handler -> BOOLEAN]
      BY <2>19 DEF DonePanics, Typed, TypeOK
    <3> QED  BY <3>1, EndTypes DEF Typed, TypeOK
  <2>20. ASSUME NEW r \in Request, LogEnd(r) PROVE Typed'
    BY <2>20 DEF LogEnd, Goto, Rest, Typed, TypeOK, Busy, Phase
  <2>21. ASSUME NEW r \in Request, Finish(r) PROVE Typed'
    <3>1. clients' \in [Handler -> BOOLEAN] /\ UNCHANGED <<idle, service>>
      BY <2>21 DEF Finish, Typed, TypeOK
    <3>2. CASE panicking[r]
      <4>1. End(r)
        BY <2>21, <3>2 DEF Finish
      <4> QED  BY <3>1, <4>1, EndTypes DEF Typed, TypeOK
    <3>3. CASE ~panicking[r]
      <4>1. pc' \in [Request -> Phase] /\ Busy'
        BY <2>21, <3>3 DEF Finish, Goto, Typed, TypeOK, Busy, Phase
      <4> QED  BY <2>21, <3>1, <3>3, <4>1 DEF Finish, Typed, TypeOK
    <3> QED  BY <3>2, <3>3
  <2>22. ASSUME NEW r \in Request, PutHandler(r) PROVE Typed'
    <3>1. handler[r] \in Handler
      BY <2>22 DEF PutHandler, Typed, TypeOK, Busy
    <3>2. idle' \in Seq(Handler) /\ service' \in [Handler -> BOOLEAN]
          /\ clients' \in [Handler -> BOOLEAN]
      BY <2>22, <3>1 DEF PutHandler, Typed, TypeOK
    <3>3. End(r)
      BY <2>22 DEF PutHandler
    <3> QED  BY <3>2, <3>3, EndTypes DEF Typed, TypeOK
  <2> QED
    BY <2>1, <2>2, <2>3, <2>4, <2>5, <2>6, <2>7, <2>8, <2>9, <2>10, <2>11, <2>12,
       <2>13, <2>14, <2>15, <2>16, <2>17, <2>18, <2>19, <2>20, <2>21, <2>22
       DEF Next, main
<1> QED  BY <1>1, <1>2, PTL DEF Spec

----------------------------------------------------------------------------
(* The pool.                                                                 *)

(* What a step may do to the pool and to who uses its handlers.              *)
Leaves(r) == pc[r] # "idle" /\ End(r) /\ UNCHANGED idle

LEMMA PoolStep ==
  ASSUME [Next]_vars
  PROVE  \/ UNCHANGED <<idle, handler>>
         \/ \E r \in Request :
              \/ GetIdle(r) \/ \E ok \in BOOLEAN : NewHandler(r, ok)
              \/ PutHandler(r) \/ Leaves(r)
<1>1. CASE UNCHANGED vars
  BY <1>1 DEF vars
<1>2. ASSUME NEW r \in Request,
             ScriptWrite(r) \/ ScriptFlush(r) \/ ScriptGetClient(r)
      PROVE  UNCHANGED <<idle, handler>>
  BY <1>2 DEF ScriptWrite, ScriptFlush, ScriptGetClient
<1>3. ASSUME NEW r \in Request, ScriptPanics(r)
      PROVE  UNCHANGED <<idle, handler>> \/ Leaves(r)
  BY <1>3 DEF ScriptPanics, Leaves, Rest
<1>4. ASSUME NEW r \in Request,
             \/ InitOk(r) \/ Fails(r) \/ Middleware(r) \/ MiddlewareFails(r) \/ ChainEnd(r)
             \/ Prepare(r) \/ Accept(r) \/ EventOk(r) \/ ErrorEnd(r)
             \/ Finalize(r) \/ AppDone(r) \/ LogEnd(r)
      PROVE  UNCHANGED <<idle, handler>>
  BY <1>4 DEF InitOk, Fails, Middleware, MiddlewareFails, ChainEnd, Prepare, Accept,
              EventOk, ErrorEnd, Finalize, AppDone, LogEnd, Rest
<1>5. ASSUME NEW r \in Request, DonePanics(r)
      PROVE  Leaves(r)
  BY <1>5 DEF DonePanics, Leaves
<1>6. ASSUME NEW r \in Request, Finish(r)
      PROVE  UNCHANGED <<idle, handler>> \/ Leaves(r)
  BY <1>6 DEF Finish, Leaves
<1> QED  BY <1>1, <1>2, <1>3, <1>4, <1>5, <1>6 DEF Next, main

(* The last handler of the pool, without it the rest, and one more.          *)
LEMMA PopPool ==
  ASSUME NEW s \in Seq(Handler), s # <<>>
  PROVE  /\ Len(s) \in Nat /\ Len(s) \in DOMAIN s /\ s[Len(s)] \in Handler
         /\ LET t == SubSeq(s, 1, Len(s) - 1)
            IN /\ t \in Seq(Handler) /\ Len(t) = Len(s) - 1
               /\ DOMAIN t = 1..(Len(s) - 1)
               /\ \A i \in DOMAIN t : i \in DOMAIN s /\ t[i] = s[i] /\ i # Len(s)
<1>1. Len(s) \in Nat /\ DOMAIN s = 1..Len(s) /\ Len(s) # 0
  OBVIOUS
<1>2. Len(s) \in DOMAIN s /\ s[Len(s)] \in Handler
  BY <1>1
<1> DEFINE t == SubSeq(s, 1, Len(s) - 1)
<1>3. /\ t \in Seq(Handler) /\ Len(t) = Len(s) - 1
      /\ \A i \in 1..(Len(s) - 1) : t[i] = s[i]
  BY <1>1
<1>4. DOMAIN t = 1..(Len(s) - 1)
  BY <1>1, <1>3
<1> HIDE DEF t
<1>5. \A i \in DOMAIN t : i \in DOMAIN s /\ t[i] = s[i] /\ i # Len(s)
  BY <1>1, <1>3, <1>4
<1> QED  BY <1>1, <1>2, <1>3, <1>4, <1>5 DEF t

LEMMA PushPool ==
  ASSUME NEW s \in Seq(Handler), NEW h \in Handler
  PROVE  LET t == Append(s, h)
         IN /\ t \in Seq(Handler) /\ Len(t) = Len(s) + 1 /\ Len(s) \in Nat /\ t # <<>>
            /\ DOMAIN t = DOMAIN s \cup {Len(s) + 1}
            /\ Len(s) + 1 \notin DOMAIN s
            /\ \A i \in DOMAIN s : t[i] = s[i]
            /\ t[Len(s) + 1] = h
OBVIOUS

LEMMA ExclusiveStep ==
  ASSUME Typed, HandlerExclusive, [Next]_vars
  PROVE  HandlerExclusive'
<1> USE DEF Typed, TypeOK
<1>1. CASE UNCHANGED <<idle, handler>>
  <2>1. InUse' = InUse /\ Pooled' = Pooled
    BY <1>1 DEF InUse, Pooled
  <2> QED  BY <1>1, <2>1 DEF HandlerExclusive
<1>2. ASSUME NEW r \in Request, GetIdle(r) PROVE HandlerExclusive'
  <2> DEFINE h == idle[Len(idle)]
  <2>1. /\ idle # <<>> /\ idle' = SubSeq(idle, 1, Len(idle) - 1)
        /\ handler' = [handler EXCEPT ![r] = h]
    BY <1>2 DEF GetIdle, Start
  <2>2. /\ Len(idle) \in Nat /\ Len(idle) \in DOMAIN idle /\ h \in Handler
        /\ idle' \in Seq(Handler) /\ Len(idle') = Len(idle) - 1
        /\ \A i \in DOMAIN idle' : i \in DOMAIN idle /\ idle'[i] = idle[i] /\ i # Len(idle)
    BY <2>1, PopPool
  <2>3. h \in Pooled /\ h \notin InUse
    BY <2>2 DEF Pooled, HandlerExclusive
  <2>4. h # NoHandler
    BY <2>2, HandlerAssumption DEF HandlerAssumption
  <2> HIDE DEF h
  <2>5. \A q, s \in Request : q # s /\ handler'[q] # NoHandler => handler'[q] # handler'[s]
    BY <2>1, <2>3, <2>4 DEF HandlerExclusive, InUse
  <2>6. InUse' = InUse \cup {h}
    <3>1. handler[r] = NoHandler
      BY <1>2 DEF GetIdle, Busy
    <3> QED  BY <2>1, <2>4, <3>1 DEF InUse
  <2>7. Pooled' = Pooled \ {h}
    <3>1. \A i \in DOMAIN idle' : idle'[i] \in Pooled /\ idle'[i] # h
      BY <2>2 DEF Pooled, HandlerExclusive, h
    <3>2. ASSUME NEW g \in Pooled, g # h PROVE g \in Pooled'
      <4>1. PICK i \in DOMAIN idle : g = idle[i]
        BY DEF Pooled
      <4>2. i # Len(idle) /\ i \in 1..Len(idle)
        BY <3>2, <4>1, <2>2 DEF h
      <4>3. i \in DOMAIN idle' /\ idle'[i] = idle[i]
        BY <4>2, <2>1, <2>2
      <4> QED  BY <4>1, <4>3 DEF Pooled
    <3> QED  BY <3>1, <3>2 DEF Pooled
  <2>8. InUse' \cap Pooled' = {}
    BY <2>6, <2>7 DEF HandlerExclusive
  <2>9. \A i, j \in DOMAIN idle' : i # j => idle'[i] # idle'[j]
    BY <2>2 DEF HandlerExclusive
  <2>10. idle' # <<>> => Len(idle') < MaxSize
    BY <2>1, <2>2, SizeAssumption DEF HandlerExclusive, SizeAssumption
  <2> QED  BY <2>5, <2>8, <2>9, <2>10 DEF HandlerExclusive
<1>3. ASSUME NEW r \in Request, NEW ok \in BOOLEAN, NewHandler(r, ok) PROVE HandlerExclusive'
  <2>1. PICK h \in Handler \ (InUse \cup Pooled) : handler' = [handler EXCEPT ![r] = h]
    BY <1>3 DEF NewHandler, Start
  <2>2. idle' = idle /\ Pooled' = Pooled
    BY <1>3 DEF NewHandler, Pooled
  <2>3. h # NoHandler
    BY <2>1, HandlerAssumption DEF HandlerAssumption
  <2>4. \A q, s \in Request : q # s /\ handler'[q] # NoHandler => handler'[q] # handler'[s]
    BY <2>1, <2>3 DEF HandlerExclusive, InUse
  <2>5. InUse' \subseteq InUse \cup {h}
    BY <2>1 DEF InUse
  <2> QED  BY <2>1, <2>2, <2>4, <2>5 DEF HandlerExclusive
<1>4. ASSUME NEW r \in Request, handler' = [handler EXCEPT ![r] = NoHandler]
      PROVE  /\ \A q, s \in Request : q # s /\ handler'[q] # NoHandler => handler'[q] # handler'[s]
             /\ InUse' \subseteq InUse
             /\ handler[r] # NoHandler => handler[r] \notin InUse'
  BY <1>4 DEF HandlerExclusive, InUse
<1>5. ASSUME NEW r \in Request, Leaves(r) PROVE HandlerExclusive'
  <2>1. handler' = [handler EXCEPT ![r] = NoHandler] /\ idle' = idle /\ Pooled' = Pooled
    BY <1>5 DEF Leaves, End, Pooled
  <2> QED  BY <1>4, <2>1 DEF HandlerExclusive
<1>6. ASSUME NEW r \in Request, PutHandler(r) PROVE HandlerExclusive'
  <2>1. handler' = [handler EXCEPT ![r] = NoHandler]
    BY <1>6 DEF PutHandler, End
  <2>2. handler[r] # NoHandler /\ handler[r] \in Handler /\ handler[r] \in InUse
    BY <1>6 DEF PutHandler, Busy, InUse
  <2>3. CASE Full
    <3>1. idle' = idle /\ Pooled' = Pooled
      BY <1>6, <2>3 DEF PutHandler, Pooled
    <3> QED  BY <1>4, <2>1, <3>1 DEF HandlerExclusive
  <2>4. CASE ~Full
    <3>1. idle' = Append(idle, handler[r])
      BY <1>6, <2>4 DEF PutHandler
    <3>2. /\ Len(idle') = Len(idle) + 1 /\ Len(idle) \in Nat
          /\ DOMAIN idle' = DOMAIN idle \cup {Len(idle) + 1}
          /\ Len(idle) + 1 \notin DOMAIN idle
          /\ \A i \in DOMAIN idle : idle'[i] = idle[i]
          /\ idle'[Len(idle) + 1] = handler[r]
      BY <2>2, <3>1, PushPool
    <3>3. Pooled' = Pooled \cup {handler[r]}
      <4>1. Pooled' = {idle'[i] : i \in DOMAIN idle'}
        BY DEF Pooled
      <4>2. \A g : g \in Pooled' <=> g = idle'[Len(idle) + 1]
                                     \/ \E i \in DOMAIN idle : g = idle'[i]
        BY <3>2, <4>1
      <4>3. (\A i \in DOMAIN idle : idle'[i] = idle[i]) /\ idle'[Len(idle) + 1] = handler[r]
        BY <3>2
      <4>4. \A g : g \in Pooled <=> \E i \in DOMAIN idle : g = idle[i]
        BY DEF Pooled
      <4>5. \A g : g \in Pooled' <=> g = handler[r] \/ g \in Pooled
        BY ZenonT(30), <4>2, <4>3, <4>4
      <4> QED  BY <4>5
    <3>4. handler[r] \notin Pooled
      BY <2>2 DEF HandlerExclusive
    <3>5. \A i, j \in DOMAIN idle' : i # j => idle'[i] # idle'[j]
      <4>1. \A i \in DOMAIN idle : idle[i] # handler[r]
        BY <3>4 DEF Pooled
      <4> QED  BY <3>2, <4>1 DEF HandlerExclusive
    <3>6. Len(idle') < MaxSize
      BY <2>4, <3>2, SizeAssumption DEF Full, SizeAssumption
    <3>7. InUse' \cap Pooled' = {}
      BY ZenonT(30), <1>4, <2>1, <2>2, <3>3 DEF HandlerExclusive
    <3> QED  BY <1>4, <2>1, <3>5, <3>6, <3>7 DEF HandlerExclusive
  <2> QED  BY <2>3, <2>4
<1> QED  BY <1>1, <1>2, <1>3, <1>5, <1>6, PoolStep

----------------------------------------------------------------------------
(* HTTP clients, and the phases a panic goes through.                        *)

(* finish returned the clients, so a handler on its way back has none.       *)
PutClean == \A r \in Request : pc[r] = "put" => ~clients[handler[r]]

(* After a panic only the deferred function runs, and it never puts.         *)
PanicPhase ==
  \A r \in Request : panicking[r] => pc[r] \in {"finalize", "done", "log", "finish"}

Custody == Typed /\ HandlerExclusive /\ IdleHoldsNoClient /\ PutClean /\ PanicPhase

LEMMA ClientsStep ==
  ASSUME Typed, [Next]_vars, NEW h \in Handler, clients'[h]
  PROVE  clients[h] \/ \E r \in Request : ScriptGetClient(r) /\ handler[r] = h
<1> USE DEF Typed, TypeOK
<1>1. CASE clients' = clients
  BY <1>1
<1>2. CASE \E g \in Handler : clients' = [clients EXCEPT ![g] = FALSE]
  BY <1>2
<1>3. ASSUME NEW r \in Request, ScriptGetClient(r)
      PROVE  clients[h] \/ handler[r] = h
  BY <1>3 DEF ScriptGetClient
<1>4. CASE UNCHANGED vars
  BY <1>1, <1>4 DEF vars
<1>5. ASSUME NEW r \in Request, NEW ok \in BOOLEAN, NewHandler(r, ok)
      PROVE  \E g \in Handler : clients' = [clients EXCEPT ![g] = FALSE]
  BY <1>5 DEF NewHandler
<1>6. ASSUME NEW r \in Request, ScriptPanics(r) \/ DonePanics(r) \/ Finish(r)
      PROVE  clients' = clients \/ \E g \in Handler : clients' = [clients EXCEPT ![g] = FALSE]
  <2>1. pc[r] # "idle"
    BY <1>6 DEF ScriptPanics, RunsScript, DonePanics, Finish
  <2>2. handler[r] \in Handler
    BY <2>1 DEF Busy
  <2>3. clients' = clients \/ clients' = [clients EXCEPT ![handler[r]] = FALSE]
    BY <1>6 DEF ScriptPanics, DonePanics, Finish, Rest
  <2> QED  BY <2>2, <2>3
<1>7. ASSUME NEW r \in Request,
             \/ GetIdle(r) \/ ScriptWrite(r) \/ ScriptFlush(r)
             \/ InitOk(r) \/ Fails(r) \/ Middleware(r) \/ MiddlewareFails(r) \/ ChainEnd(r)
             \/ Prepare(r) \/ Accept(r) \/ EventOk(r) \/ ErrorEnd(r)
             \/ Finalize(r) \/ AppDone(r) \/ LogEnd(r) \/ PutHandler(r)
      PROVE  clients' = clients
  BY <1>7 DEF GetIdle, ScriptWrite, ScriptFlush, InitOk, Fails, Middleware, MiddlewareFails,
              ChainEnd, Prepare, Accept, EventOk, ErrorEnd, Finalize, AppDone, LogEnd,
              PutHandler, Rest
<1> QED  BY <1>1, <1>2, <1>3, <1>4, <1>5, <1>6, <1>7 DEF Next, main

(* Only Finish brings a request to "put", and PutHandler is its only step    *)
(* from there.                                                               *)
LEMMA PutStep ==
  ASSUME Typed, [Next]_vars, NEW r \in Request, pc'[r] = "put"
  PROVE  /\ handler'[r] = handler[r]
         /\ pc[r] = "put" \/ clients' = [clients EXCEPT ![handler[r]] = FALSE]
<1> USE DEF Typed, TypeOK
<1>1. CASE UNCHANGED vars
  BY <1>1 DEF vars
<1>2. ASSUME NEW q \in Request, NEW p, p # "put", pc' = [pc EXCEPT ![q] = p]
      PROVE  pc[r] = "put" /\ q # r
  BY <1>2
<1>3. ASSUME NEW q \in Request, GetIdle(q) \/ \E ok \in BOOLEAN : NewHandler(q, ok)
      PROVE  handler'[r] = handler[r] /\ pc[r] = "put"
  <2>1. PICK h : Start(q, h)
    BY <1>3 DEF GetIdle, NewHandler
  <2> QED  BY <1>2, <2>1 DEF Start
<1>4. ASSUME NEW q \in Request, ScriptWrite(q) \/ ScriptFlush(q) \/ ScriptGetClient(q)
      PROVE  handler'[r] = handler[r] /\ pc[r] = "put"
  BY <1>4 DEF ScriptWrite, ScriptFlush, ScriptGetClient
<1>5. ASSUME NEW q \in Request, End(q)
      PROVE  handler'[r] = handler[r] /\ pc[r] = "put"
  BY <1>2, <1>5 DEF End
<1>6. ASSUME NEW q \in Request, ScriptPanics(q)
      PROVE  handler'[r] = handler[r] /\ pc[r] = "put"
  <2>1. CASE Goto(q, "finalize") /\ handler' = handler
    BY <1>2, <2>1 DEF Goto
  <2> QED  BY <1>5, <1>6, <2>1 DEF ScriptPanics, Rest
<1>7. ASSUME NEW q \in Request, Finish(q)
      PROVE  /\ handler'[r] = handler[r]
             /\ pc[r] = "put" \/ clients' = [clients EXCEPT ![handler[r]] = FALSE]
  <2>1. CASE End(q)
    BY <1>5, <2>1
  <2>2. CASE Goto(q, "put") /\ handler' = handler
    BY <1>7, <2>2 DEF Finish, Goto
  <2> QED  BY <1>7, <2>1, <2>2 DEF Finish
<1>8. ASSUME NEW q \in Request, DonePanics(q) \/ PutHandler(q)
      PROVE  handler'[r] = handler[r] /\ pc[r] = "put"
  BY <1>5, <1>8 DEF DonePanics, PutHandler
<1>9. ASSUME NEW q \in Request,
             \/ InitOk(q) \/ Fails(q) \/ MiddlewareFails(q) \/ ChainEnd(q)
             \/ Prepare(q) \/ Accept(q) \/ EventOk(q) \/ ErrorEnd(q)
             \/ Finalize(q) \/ AppDone(q) \/ LogEnd(q)
      PROVE  handler'[r] = handler[r] /\ pc[r] = "put"
  <2>1. handler' = handler
    BY <1>9 DEF InitOk, Fails, MiddlewareFails, ChainEnd, Prepare, Accept, EventOk,
                ErrorEnd, Finalize, AppDone, LogEnd, Rest
  <2>2. \E p \in Phase \ {"put"} : pc' = [pc EXCEPT ![q] = p]
    BY <1>9 DEF InitOk, Fails, MiddlewareFails, ChainEnd, Prepare, Accept, EventOk,
                ErrorEnd, Finalize, AppDone, LogEnd, Raise, ToResponse, Goto, Phase
  <2> QED  BY <1>2, <2>1, <2>2
<1>10. ASSUME NEW q \in Request, Middleware(q)
       PROVE  handler'[r] = handler[r] /\ pc[r] = "put"
  <2>1. (IF writer'[q].bodyDone THEN "finalize" ELSE pc[q]) # "put"
    BY <1>10 DEF Middleware
  <2> QED  BY <1>2, <1>10, <2>1 DEF Middleware, Goto, Rest
<1> QED  BY <1>1, <1>3, <1>4, <1>6, <1>7, <1>8, <1>9, <1>10 DEF Next, main

(* A handler enters the pool by PutHandler only.                             *)
LEMMA PooledStep ==
  ASSUME Typed, [Next]_vars, NEW h \in Pooled', h \notin Pooled
  PROVE  \E r \in Request : PutHandler(r) /\ handler[r] = h
<1> USE DEF Typed, TypeOK
<1>1. PICK i \in DOMAIN idle' : h = idle'[i]
  BY DEF Pooled
<1>2. idle' # idle
  BY <1>1 DEF Pooled
<1>3. ASSUME NEW r \in Request, GetIdle(r) PROVE FALSE
  <2>1. i \in DOMAIN idle /\ idle'[i] = idle[i]
    BY <1>1, <1>3, PopPool DEF GetIdle
  <2> QED  BY <1>1, <2>1 DEF Pooled
<1>4. ASSUME NEW r \in Request, PutHandler(r) PROVE handler[r] = h
  <2>1. handler[r] \in Handler
    BY <1>4 DEF PutHandler, Busy
  <2>2. idle' = idle \/ idle' = Append(idle, handler[r])
    BY <1>4 DEF PutHandler
  <2>3. CASE idle' = Append(idle, handler[r])
    <3>1. /\ i \in DOMAIN idle \cup {Len(idle) + 1}
          /\ \A j \in DOMAIN idle : idle'[j] = idle[j]
          /\ idle'[Len(idle) + 1] = handler[r]
      BY <1>1, <2>1, <2>3, PushPool
    <3>2. i \notin DOMAIN idle
      BY <1>1, <3>1 DEF Pooled
    <3> QED  BY <1>1, <3>1, <3>2
  <2> QED  BY <1>2, <2>2, <2>3
<1>5. ASSUME NEW r \in Request, Leaves(r) \/ \E ok \in BOOLEAN : NewHandler(r, ok)
      PROVE  idle' = idle
  BY <1>5 DEF Leaves, NewHandler
<1> QED  BY <1>2, <1>3, <1>4, <1>5, PoolStep

(* A step of q leaves the phase and the panic of the others alone.           *)
LEMMA PanicStep ==
  ASSUME Typed, PanicPhase, [Next]_vars
  PROVE  PanicPhase'
<1> USE DEF Typed, TypeOK
<1>1. CASE UNCHANGED <<pc, panicking>>
  BY <1>1 DEF PanicPhase
<1>2. ASSUME NEW q \in Request, NEW p,
             pc' = [pc EXCEPT ![q] = p], UNCHANGED panicking,
             ~panicking[q] \/ p \in {"finalize", "done", "log", "finish"}
      PROVE  PanicPhase'
  BY <1>2 DEF PanicPhase
<1>3. ASSUME NEW q \in Request, End(q)
      PROVE  PanicPhase'
  BY <1>3 DEF End, PanicPhase
<1>4. ASSUME NEW q \in Request, NEW p, p \in {"finalize", "done", "log", "finish"},
             pc' = [pc EXCEPT ![q] = p], panicking' = [panicking EXCEPT ![q] = TRUE]
      PROVE  PanicPhase'
  BY <1>4 DEF PanicPhase
<1>5. CASE UNCHANGED vars
  BY <1>1, <1>5 DEF vars
<1>6. ASSUME NEW q \in Request, GetIdle(q) \/ \E ok \in BOOLEAN : NewHandler(q, ok)
      PROVE  PanicPhase'
  <2>1. PICK h : Start(q, h)
    BY <1>6 DEF GetIdle, NewHandler
  <2>2. ~panicking[q]
    BY <1>6 DEF GetIdle, NewHandler, PanicPhase
  <2> QED  BY <1>2, <2>1, <2>2 DEF Start
<1>7. ASSUME NEW q \in Request, ScriptWrite(q) \/ ScriptFlush(q) \/ ScriptGetClient(q)
      PROVE  PanicPhase'
  BY <1>1, <1>7 DEF ScriptWrite, ScriptFlush, ScriptGetClient
<1>8. ASSUME NEW q \in Request, ScriptPanics(q) PROVE PanicPhase'
  BY <1>3, <1>4, <1>8 DEF ScriptPanics, Goto
<1>9. ASSUME NEW q \in Request, InitOk(q) PROVE PanicPhase'
  <2>1. ~panicking[q]
    BY <1>9 DEF InitOk, PanicPhase
  <2>2. CASE UNCHANGED panicking
    <3>1. PICK p : pc' = [pc EXCEPT ![q] = p]
      BY <1>9 DEF InitOk, Raise, Goto
    <3> QED  BY <1>2, <2>1, <2>2, <3>1
  <2>3. CASE Goto(q, "finalize") /\ panicking' = [panicking EXCEPT ![q] = TRUE]
    BY <1>4, <2>3 DEF Goto
  <2> QED  BY <1>9, <2>2, <2>3 DEF InitOk
<1>10. ASSUME NEW q \in Request,
              \/ Fails(q) \/ Middleware(q) \/ MiddlewareFails(q) \/ ChainEnd(q)
              \/ Prepare(q) \/ Accept(q) \/ EventOk(q) \/ ErrorEnd(q)
       PROVE  PanicPhase'
  <2>1. ~panicking[q]
    BY <1>10 DEF Fails, Middleware, MiddlewareFails, ChainEnd, Prepare, Accept, EventOk,
                 ErrorEnd, PanicPhase
  <2>2. UNCHANGED panicking
    BY <1>10 DEF Fails, Middleware, MiddlewareFails, ChainEnd, Prepare, Accept, EventOk,
                 ErrorEnd
  <2>3. PICK p : pc' = [pc EXCEPT ![q] = p]
    BY <1>10 DEF Fails, Middleware, MiddlewareFails, ChainEnd, Prepare, Accept, EventOk,
                 ErrorEnd, Raise, ToResponse, Goto
  <2> QED  BY <1>2, <2>1, <2>2, <2>3
<1>11. ASSUME NEW q \in Request, Finalize(q) \/ AppDone(q) \/ LogEnd(q)
       PROVE  PanicPhase'
  <2>1. PICK p \in {"finalize", "done", "log", "finish"} : pc' = [pc EXCEPT ![q] = p]
    BY <1>11 DEF Finalize, AppDone, LogEnd, Goto
  <2> QED  BY <1>2, <1>11, <2>1 DEF Finalize, AppDone, LogEnd
<1>12. ASSUME NEW q \in Request, DonePanics(q) \/ PutHandler(q) PROVE PanicPhase'
  BY <1>3, <1>12 DEF DonePanics, PutHandler
<1>13. ASSUME NEW q \in Request, Finish(q) PROVE PanicPhase'
  BY <1>2, <1>3, <1>13 DEF Finish, Goto
<1> QED
  BY <1>5, <1>6, <1>7, <1>8, <1>9, <1>10, <1>11, <1>12, <1>13 DEF Next, main

LEMMA CustodyInvariant == Spec => []Custody
<1>1. Init => HandlerExclusive /\ IdleHoldsNoClient /\ PutClean /\ PanicPhase
  BY DEF Init, HandlerExclusive, IdleHoldsNoClient, PutClean, PanicPhase, InUse, Pooled
<1>2. Typed /\ Typed' /\ Custody /\ [Next]_vars => Custody'
  <2> SUFFICES ASSUME Typed, Typed', Custody, [Next]_vars PROVE Custody'
    OBVIOUS
  <2> USE DEF Custody
  <2>1. HandlerExclusive' /\ PanicPhase'
    BY ExclusiveStep, PanicStep
  <2>2. ASSUME NEW h \in Pooled', clients'[h] PROVE FALSE
    <3>1. h \in Handler
      BY DEF Typed, TypeOK, Pooled
    <3>2. ~clients[h]
      <4>1. CASE h \in Pooled
        BY <4>1 DEF IdleHoldsNoClient
      <4>2. CASE h \notin Pooled
        BY <4>2, PooledStep DEF PutHandler, PutClean
      <4> QED  BY <4>1, <4>2
    <3>3. PICK r \in Request : ScriptGetClient(r) /\ handler[r] = h
      BY <2>2, <3>1, <3>2, ClientsStep
    <3>4. handler[r] \in InUse' /\ handler'[r] = h
      BY <3>1, <3>3, HandlerAssumption DEF ScriptGetClient, InUse, HandlerAssumption
    <3> QED  BY <2>1, <2>2, <3>3, <3>4 DEF HandlerExclusive
  <2>3. ASSUME NEW r \in Request, pc'[r] = "put", clients'[handler'[r]] PROVE FALSE
    <3>1. handler'[r] = handler[r] /\ handler[r] \in Handler
      BY <2>3, PutStep DEF Typed, TypeOK, Busy
    <3>2. pc[r] = "put" /\ ~clients[handler[r]]
      BY <2>3, <3>1, PutStep DEF PutClean, Typed, TypeOK
    <3>3. PICK q \in Request : ScriptGetClient(q) /\ handler[q] = handler[r]
      BY <2>3, <3>1, <3>2, ClientsStep
    <3>4. q # r
      BY <3>2, <3>3 DEF ScriptGetClient, RunsScript
    <3> QED  BY <3>1, <3>3, <3>4, HandlerAssumption DEF HandlerExclusive, HandlerAssumption
  <2> QED  BY <2>1, <2>2, <2>3 DEF IdleHoldsNoClient, PutClean
<1> QED  BY <1>1, <1>2, TypedInvariant, PTL DEF Spec, Custody

(* A handler serves one request at a time, waits in the pool at most once    *)
(* and never while it serves, and the pool stays below its size.             *)
THEOREM OneRequestPerHandler == Spec => []HandlerExclusive
BY CustodyInvariant, PTL DEF Custody

(* A handler that waits in the pool holds no HTTP client.                    *)
THEOREM PoolHoldsNoClient == Spec => []IdleHoldsNoClient
BY CustodyInvariant, PTL DEF Custody

----------------------------------------------------------------------------
(* The victims of failed creations.                                          *)

(* Handlers without a service that may still make somebody panic.           *)
Pending == {h \in Poisoned : \A r \in Request : handler[r] = h => ~panicking[r]}

Bounded == IsFiniteSet(Pending) /\ VictimsBound

LEMMA FewerPending ==
  ASSUME Bounded, Pending' \subseteq Pending, UNCHANGED <<victims, failures>>, TypeOK
  PROVE  Bounded'
<1>1. /\ IsFiniteSet(Pending') /\ Cardinality(Pending') <= Cardinality(Pending)
      /\ Cardinality(Pending') \in Nat /\ Cardinality(Pending) \in Nat
  BY FS_Subset, FS_CardinalityType DEF Bounded
<1>2. victims + Cardinality(Pending) <= failures
  BY DEF Bounded, VictimsBound, Pending
<1>3. victims' + Cardinality(Pending') <= failures'
  BY <1>1, <1>2 DEF TypeOK
<1> QED  BY <1>1, <1>3 DEF Bounded, VictimsBound, Pending

LEMMA OneVictim ==
  ASSUME Bounded, NEW h \in Pending, Pending' \subseteq Pending \ {h},
         victims' = victims + 1, failures' = failures, TypeOK
  PROVE  Bounded'
<1>1. /\ IsFiniteSet(Pending \ {h})
      /\ Cardinality(Pending \ {h}) = Cardinality(Pending) - 1
  BY FS_RemoveElement DEF Bounded
<1>2. /\ IsFiniteSet(Pending') /\ Cardinality(Pending') <= Cardinality(Pending) - 1
      /\ Cardinality(Pending') \in Nat /\ Cardinality(Pending) \in Nat
  BY <1>1, FS_Subset, FS_CardinalityType DEF Bounded
<1>3. victims + Cardinality(Pending) <= failures
  BY DEF Bounded, VictimsBound, Pending
<1>4. victims' + Cardinality(Pending') <= failures'
  BY <1>2, <1>3 DEF TypeOK
<1> QED  BY <1>2, <1>4 DEF Bounded, VictimsBound, Pending

LEMMA OneFailure ==
  ASSUME Bounded, NEW h, Pending' \subseteq Pending \cup {h},
         victims' = victims, failures' = failures + 1, TypeOK
  PROVE  Bounded'
<1>1. /\ IsFiniteSet(Pending \cup {h})
      /\ Cardinality(Pending \cup {h}) <= Cardinality(Pending) + 1
      /\ Cardinality(Pending) \in Nat
  <2>1. IsFiniteSet(Pending) /\ Cardinality(Pending) \in Nat
    BY FS_CardinalityType DEF Bounded
  <2>2. CASE h \in Pending
    <3>1. Pending \cup {h} = Pending
      BY <2>2
    <3> QED  BY <2>1, <3>1
  <2>3. CASE h \notin Pending
    <3>1. IsFiniteSet(Pending \cup {h})
      BY <2>1, FS_AddElement
    <3>2. Cardinality(Pending \cup {h}) = Cardinality(Pending) + 1
      BY <2>1, <2>3, FS_AddElement, Zenon
    <3> QED  BY <2>1, <3>1, <3>2
  <2> QED  BY <2>2, <2>3
<1>2. /\ IsFiniteSet(Pending') /\ Cardinality(Pending') <= Cardinality(Pending \cup {h})
      /\ Cardinality(Pending') \in Nat /\ Cardinality(Pending \cup {h}) \in Nat
  BY <1>1, FS_Subset, FS_CardinalityType
<1>3. victims + Cardinality(Pending) <= failures
  BY DEF Bounded, VictimsBound, Pending
<1>4. victims' + Cardinality(Pending') <= failures'
  BY <1>1, <1>2, <1>3 DEF TypeOK
<1> QED  BY <1>2, <1>4 DEF Bounded, VictimsBound, Pending

(* A step in place: nothing enters the pool, no handler changes hands, and a *)
(* panic goes on.                                                            *)
LEMMA InPlace ==
  ASSUME Bounded, TypeOK, UNCHANGED <<idle, handler, service, victims, failures>>,
         \A r \in Request : panicking[r] => panicking'[r]
  PROVE  Bounded'
<1>1. Pooled' = Pooled /\ InUse' = InUse
  BY DEF Pooled, InUse
<1>2. Pending' \subseteq Pending
  BY <1>1 DEF Pending, Poisoned
<1> QED  BY <1>2, FewerPending

(* A goroutine that panics out of doRoute takes its handler with it.         *)
LEMMA Lost ==
  ASSUME Custody, Bounded, NEW r \in Request, Leaves(r),
         service' = service \/ service' = [service EXCEPT ![handler[r]] = FALSE]
  PROVE  Bounded'
<1> USE DEF Custody, Typed, TypeOK
<1>1. handler[r] \in Handler /\ handler[r] # NoHandler
  BY DEF Leaves, Busy
<1>2. handler' = [handler EXCEPT ![r] = NoHandler]
      /\ panicking' = [panicking EXCEPT ![r] = FALSE]
      /\ Pooled' = Pooled /\ UNCHANGED <<victims, failures>>
  BY DEF Leaves, End, Pooled
<1>3. InUse' \subseteq InUse /\ handler[r] \notin InUse'
  BY <1>1, <1>2 DEF InUse, HandlerExclusive
<1>4. handler[r] \notin Pooled'
  BY <1>1, <1>2 DEF InUse, HandlerExclusive
<1>5. ASSUME NEW h \in Pending' PROVE h \in Pending
  <2>1. h # handler[r] /\ h \in Pooled \cup InUse
    BY <1>2, <1>3, <1>4 DEF Pending, Poisoned
  <2>2. Pooled \subseteq Handler /\ InUse \subseteq Handler
    BY DEF InUse, Pooled
  <2>3. ~service[h]
    <3>1. ~service'[h]
      BY DEF Pending, Poisoned
    <3> QED  BY <1>1, <2>1, <2>2, <3>1
  <2>4. ASSUME NEW q \in Request, handler[q] = h PROVE ~panicking[q]
    <3>1. q # r /\ handler'[q] = h
      BY <1>2, <2>1, <2>4
    <3> QED  BY <1>2, <3>1 DEF Pending
  <2> QED  BY <2>1, <2>3, <2>4 DEF Pending, Poisoned
<1> QED  BY <1>2, <1>5, FewerPending

LEMMA Taken ==
  ASSUME Custody, Bounded, NEW r \in Request, GetIdle(r)
  PROVE  Bounded'
<1> USE DEF Custody, Typed, TypeOK
<1>1. /\ handler' = [handler EXCEPT ![r] = idle[Len(idle)]]
      /\ handler[r] = NoHandler /\ idle[Len(idle)] \in Pooled
      /\ UNCHANGED <<service, panicking, victims, failures>>
  BY PopPool DEF GetIdle, Start, Pooled, Busy
<1>2. Pooled' \subseteq Pooled
  BY PopPool DEF GetIdle, Pooled
<1>3. InUse' \subseteq InUse \cup Pooled
  BY <1>1 DEF InUse
<1>4. ASSUME NEW h \in Pending' PROVE h \in Pending
  <2>1. h \in Pooled \cup InUse
    BY <1>2, <1>3 DEF Pending, Poisoned
  <2>2. ~service[h]
    BY <1>1 DEF Pending, Poisoned
  <2>3. h # NoHandler
    BY <2>1, HandlerAssumption DEF InUse, Pooled, HandlerAssumption
  <2>4. ASSUME NEW q \in Request, handler[q] = h PROVE ~panicking[q]
    <3>1. handler'[q] = h
      BY <1>1, <2>3, <2>4
    <3> QED  BY <1>1, <3>1 DEF Pending
  <2> QED  BY <2>1, <2>2, <2>4 DEF Pending, Poisoned
<1> QED  BY <1>1, <1>4, FewerPending

LEMMA Made ==
  ASSUME Custody, Bounded, NEW r \in Request, NEW ok \in BOOLEAN, NewHandler(r, ok)
  PROVE  Bounded'
<1> USE DEF Custody, Typed, TypeOK
<1>1. PICK h \in Handler \ (InUse \cup Pooled) :
        /\ handler' = [handler EXCEPT ![r] = h]
        /\ service' = [service EXCEPT ![h] = ok]
  BY DEF NewHandler, Start
<1>2. Pooled' = Pooled /\ handler[r] = NoHandler /\ UNCHANGED <<panicking, victims>>
  BY DEF NewHandler, Start, Pooled, Busy
<1>3. InUse' \subseteq InUse \cup {h}
  BY <1>1 DEF InUse
<1>4. Pooled \subseteq Handler /\ InUse \subseteq Handler
  BY DEF InUse, Pooled
<1>5. ASSUME NEW g \in Pending', g # h PROVE g \in Pending
  <2>1. g \in Pooled \cup InUse
    BY <1>2, <1>3, <1>5 DEF Pending, Poisoned
  <2>2. ~service[g]
    <3>1. ~service'[g]
      BY DEF Pending, Poisoned
    <3> QED  BY <1>1, <1>4, <1>5, <2>1, <3>1
  <2>3. g # NoHandler
    BY <1>4, <2>1, HandlerAssumption DEF HandlerAssumption
  <2>4. ASSUME NEW q \in Request, handler[q] = g PROVE ~panicking[q]
    <3>1. handler'[q] = g
      BY <1>1, <1>2, <2>3, <2>4
    <3> QED  BY <1>2, <3>1 DEF Pending
  <2> QED  BY <2>1, <2>2, <2>4 DEF Pending, Poisoned
<1>6. CASE ok
  <2>1. service'[h] /\ failures' = failures
    BY <1>1, <1>6 DEF NewHandler
  <2>2. h \notin Pending'
    BY <2>1 DEF Pending, Poisoned
  <2> QED  BY <1>2, <1>5, <2>1, <2>2, FewerPending
<1>7. CASE ~ok
  <2>1. failures' = failures + 1
    BY <1>7 DEF NewHandler
  <2>2. Pending' \subseteq Pending \cup {h}
    BY <1>5
  <2> QED  BY <1>2, <2>1, <2>2, OneFailure
<1> QED  BY <1>6, <1>7

LEMMA Returned ==
  ASSUME Custody, Bounded, NEW r \in Request, PutHandler(r)
  PROVE  Bounded'
<1> USE DEF Custody, Typed, TypeOK
<1>1. CASE Full
  <2>1. Leaves(r) /\ service' = [service EXCEPT ![handler[r]] = FALSE]
    BY <1>1 DEF PutHandler, Leaves
  <2> QED  BY <2>1, Lost
<1>2. CASE ~Full
  <2>1. /\ idle' = Append(idle, handler[r]) /\ UNCHANGED <<service, victims, failures>>
        /\ handler' = [handler EXCEPT ![r] = NoHandler]
        /\ panicking' = [panicking EXCEPT ![r] = FALSE]
    BY <1>2 DEF PutHandler, End
  <2>2. handler[r] \in Handler /\ handler[r] \in InUse /\ ~panicking[r]
    BY DEF PutHandler, Busy, InUse, PanicPhase
  <2>3. Pooled' \subseteq Pooled \cup {handler[r]}
    BY <2>1, <2>2, PushPool DEF Pooled
  <2>4. InUse' \subseteq InUse
    BY <2>1 DEF InUse
  <2>5. ASSUME NEW h \in Pending' PROVE h \in Pending
    <3>1. h \in Pooled \cup InUse /\ ~service[h]
      BY <2>1, <2>2, <2>3, <2>4 DEF Pending, Poisoned
    <3>2. ASSUME NEW q \in Request, handler[q] = h, q # r PROVE ~panicking[q]
      <4>1. handler'[q] = h
        BY <2>1, <3>2
      <4> QED  BY <2>1, <3>2, <4>1 DEF Pending
    <3> QED  BY <2>2, <3>1, <3>2 DEF Pending, Poisoned
  <2> QED  BY <2>1, <2>5, FewerPending
<1> QED  BY <1>1, <1>2

LEMMA Victim ==
  ASSUME Custody, Bounded, NEW r \in Request, InitOk(r), victims' # victims
  PROVE  Bounded'
<1> USE DEF Custody, Typed, TypeOK
<1>1. /\ ~service[handler[r]] /\ victims' = victims + 1 /\ pc[r] = "init"
      /\ panicking' = [panicking EXCEPT ![r] = TRUE]
      /\ UNCHANGED <<idle, handler, service, failures>>
  BY DEF InitOk, Rest
<1> DEFINE h == handler[r]
<1>2. h \in InUse /\ h # NoHandler
  BY <1>1 DEF Busy, InUse
<1>3. h \in Pending
  <2>1. ~panicking[r]
    BY <1>1 DEF PanicPhase
  <2>2. \A q \in Request : handler[q] = h => q = r
    BY <1>2 DEF HandlerExclusive
  <2> QED  BY <1>1, <1>2, <2>1, <2>2 DEF Pending, Poisoned
<1>4. ASSUME NEW g \in Pending' PROVE g \in Pending \ {h}
  <2>1. g \in Pooled \cup InUse /\ ~service[g]
    BY <1>1 DEF Pending, Poisoned, InUse, Pooled
  <2>2. \A q \in Request : handler[q] = g => ~panicking'[q]
    BY <1>1 DEF Pending
  <2>3. \A q \in Request : handler[q] = g => ~panicking[q]
    BY <1>1, <2>2
  <2>4. g # h
    BY <1>1, <2>2
  <2> QED  BY <2>1, <2>3, <2>4 DEF Pending, Poisoned
<1> HIDE DEF h
<1> QED  BY <1>1, <1>3, <1>4, OneVictim

LEMMA BoundedInvariant == Spec => []Bounded
<1>1. Init => Bounded
  <2> SUFFICES ASSUME Init PROVE Bounded
    OBVIOUS
  <2>1. Pending = {}
    BY DEF Init, Pending, Poisoned, InUse, Pooled
  <2>2. IsFiniteSet(Pending) /\ Cardinality(Pending) = 0
    BY <2>1, FS_EmptySet
  <2>3. victims = 0 /\ failures = 0
    BY DEF Init
  <2>4. victims + Cardinality(Pending) <= failures
    BY <2>2, <2>3
  <2> QED  BY <2>2, <2>4 DEF Bounded, VictimsBound, Pending
<1>2. Custody /\ Bounded /\ [Next]_vars => Bounded'
  <2> SUFFICES ASSUME Custody, Bounded, [Next]_vars PROVE Bounded'
    OBVIOUS
  <2>0. TypeOK
    BY DEF Custody, Typed
  <2>1. CASE UNCHANGED vars
    BY <2>0, <2>1, InPlace DEF vars
  <2>2. ASSUME NEW r \in Request,
               ScriptWrite(r) \/ ScriptFlush(r) \/ ScriptGetClient(r)
        PROVE  Bounded'
    BY <2>0, <2>2, InPlace DEF ScriptWrite, ScriptFlush, ScriptGetClient
  <2>3. ASSUME NEW r \in Request, ScriptPanics(r) PROVE Bounded'
    <3>1. CASE pc[r] = "log"
      BY <2>3, <3>1, Lost DEF ScriptPanics, Leaves
    <3>2. CASE pc[r] # "log"
      BY <2>0, <2>3, <3>2, InPlace DEF ScriptPanics, Rest, TypeOK
    <3> QED  BY <3>1, <3>2
  <2>4. ASSUME NEW r \in Request, InitOk(r) PROVE Bounded'
    <3>1. CASE victims' = victims
      <4>1. UNCHANGED panicking \/ panicking' = [panicking EXCEPT ![r] = TRUE]
        BY <2>4 DEF InitOk
      <4>2. \A q \in Request : panicking[q] => panicking'[q]
        BY <2>0, <4>1 DEF TypeOK
      <4> QED  BY <2>0, <2>4, <3>1, <4>2, InPlace DEF InitOk, Rest
    <3> QED  BY <2>4, <3>1, Victim
  <2>5. ASSUME NEW r \in Request,
               \/ Fails(r) \/ Middleware(r) \/ MiddlewareFails(r) \/ ChainEnd(r)
               \/ Prepare(r) \/ Accept(r) \/ EventOk(r) \/ ErrorEnd(r)
               \/ Finalize(r) \/ AppDone(r) \/ LogEnd(r)
        PROVE  Bounded'
    <3>1. UNCHANGED <<idle, handler, service, victims, failures, panicking>>
      BY <2>5 DEF Fails, Middleware, MiddlewareFails, ChainEnd, Prepare, Accept, EventOk,
                  ErrorEnd, Finalize, AppDone, LogEnd, Rest
    <3> QED  BY <2>0, <3>1, InPlace
  <2>6. ASSUME NEW r \in Request, DonePanics(r) PROVE Bounded'
    BY <2>6, Lost DEF DonePanics, Leaves
  <2>7. ASSUME NEW r \in Request, Finish(r) PROVE Bounded'
    <3>1. CASE panicking[r]
      BY <2>7, <3>1, Lost DEF Finish, Leaves
    <3>2. CASE ~panicking[r]
      BY <2>0, <2>7, <3>2, InPlace DEF Finish
    <3> QED  BY <3>1, <3>2
  <2> QED
    BY <2>1, <2>2, <2>3, <2>4, <2>5, <2>6, <2>7, Taken, Made, Returned DEF Next, main
<1> QED  BY <1>1, <1>2, CustodyInvariant, PTL DEF Spec

(* Every failed creation makes at most one request panic.                    *)
THEOREM OneVictimPerFailure == Spec => []VictimsBound
BY BoundedInvariant, PTL DEF Bounded

----------------------------------------------------------------------------
(* The reply.                                                                *)

Ended == {"done", "log", "finish", "put"}

(* What a writer remembers of the wire: a header or a body went out exactly  *)
(* when its flag is set, and there is one to send as long as it did not.     *)
Sent(w, x) ==
  /\ w.headerDone <=> x.status # "none"
  /\ w.bodyDone <=> x.body # "none"
  /\ w.bodyDone => w.headerDone
  /\ w.status # "none"
  /\ w.bodyDone \/ w.body # "none"

(* The error reply, on the wire as far as it was flushed.                    *)
ErrorReply(w, x) ==
  /\ w.headerDone => x.status = "500"
  /\ ~w.headerDone => w.status = "500"
  /\ w.bodyDone => x.body = "error"
  /\ ~w.bodyDone => w.body = "error"

ReplyOf(r) ==
  /\ Sent(writer[r], wire[r])
  /\ pc[r] \in Ended => writer[r].bodyDone
  /\ reported[r] => pc[r] \in Ended \cup {"error", "finalize"} /\ ErrorReply(writer[r], wire[r])

Replies == \A r \in Request : ReplyOf(r)

(* What is on the wire stays there.                                          *)
Final(x, y) ==
  /\ x.status # "none" => y.status = x.status
  /\ x.body # "none" => y = x

LEMMA FlushSends ==
  ASSUME NEW w \in Writer, NEW x \in Wire, Sent(w, x)
  PROVE  /\ Sent(Flush(w), BodyOut(w, x)) /\ Flush(w).bodyDone
         /\ Final(x, BodyOut(w, x))
         /\ ErrorReply(w, x) => ErrorReply(Flush(w), BodyOut(w, x))
BY DEF Writer, Wire, Sent, Final, ErrorReply, Flush, BodyOut, HeaderOut

LEMMA FlushHeaderSends ==
  ASSUME NEW w \in Writer, NEW x \in Wire, Sent(w, x)
  PROVE  /\ Sent(FlushHeader(w), HeaderOut(w, x)) /\ FlushHeader(w).bodyDone = w.bodyDone
         /\ Final(x, HeaderOut(w, x))
         /\ ErrorReply(w, x) => ErrorReply(FlushHeader(w), HeaderOut(w, x))
BY DEF Writer, Wire, Sent, Final, ErrorReply, FlushHeader, HeaderOut

LEMMA SetReplyKeeps ==
  ASSUME NEW w \in Writer, NEW x \in Wire, Sent(w, x)
  PROVE  /\ Sent(SetReply(w, "500", "error"), x)
         /\ ~w.headerDone => ErrorReply(SetReply(w, "500", "error"), x)
BY DEF Writer, Wire, Sent, ErrorReply, SetReply

LEMMA MiddlewareKeeps ==
  ASSUME NEW w \in Writer, NEW x \in Wire, Sent(w, x)
  PROVE  LET v == WriteBody(WriteStatus(w, "other"), "middleware")
         IN Sent(v, x) /\ v.bodyDone = w.bodyDone
BY DEF Writer, Wire, Sent, WriteBody, WriteStatus

LEMMA ScriptKeeps ==
  ASSUME NEW w \in Writer, NEW x \in Wire, Sent(w, x), NEW v,
         v = [w EXCEPT !.status = "other"] \/ v = [w EXCEPT !.body = "script"]
  PROVE  /\ Sent(v, x) /\ v.bodyDone = w.bodyDone
         /\ ErrorReply(w, x) /\ w.bodyDone => ErrorReply(v, x)
BY DEF Writer, Wire, Sent, ErrorReply

(* A step of one request leaves the reply of the others alone.               *)
Apart(q, r) ==
  /\ pc'[r] = pc[r] /\ writer'[r] = writer[r]
  /\ wire'[r] = wire[r] /\ reported'[r] = reported[r]

StepOf(q) ==
  \/ GetIdle(q) \/ \E ok \in BOOLEAN : NewHandler(q, ok)
  \/ ScriptWrite(q) \/ ScriptFlush(q) \/ ScriptGetClient(q) \/ ScriptPanics(q)
  \/ main(q) \/ PutHandler(q)

LEMMA ApartStep ==
  ASSUME TypeOK, NEW q \in Request, NEW r \in Request \ {q}, StepOf(q)
  PROVE  Apart(q, r)
<1> USE DEF TypeOK, Apart
<1>1. CASE GetIdle(q) \/ \E ok \in BOOLEAN : NewHandler(q, ok)
  BY <1>1 DEF GetIdle, NewHandler, Start
<1>2. CASE ScriptWrite(q) \/ ScriptGetClient(q)
  BY <1>2 DEF ScriptWrite, ScriptGetClient
<1>3. CASE ScriptFlush(q)
  BY <1>3 DEF ScriptFlush, DoFlush
<1>4. CASE End(q)
  BY <1>4 DEF End
<1>5. CASE ScriptPanics(q) \/ DonePanics(q) \/ Finish(q) \/ PutHandler(q)
  BY <1>4, <1>5 DEF ScriptPanics, DonePanics, Finish, PutHandler, Goto
<1>6. CASE Raise(q)
  BY <1>6 DEF Raise
<1>7. CASE InitOk(q)
  BY <1>6, <1>7 DEF InitOk, Goto
<1>8. CASE Fails(q) \/ MiddlewareFails(q)
  BY <1>6, <1>8 DEF Fails, MiddlewareFails
<1>9. CASE Middleware(q)
  BY <1>9 DEF Middleware, DoFlush, Goto
<1>10. CASE ErrorEnd(q) \/ Finalize(q)
  BY <1>10 DEF ErrorEnd, Finalize, DoFlush, Goto
<1>11. CASE \/ ChainEnd(q) \/ Prepare(q) \/ Accept(q) \/ EventOk(q) \/ AppDone(q) \/ LogEnd(q)
  BY <1>11 DEF ChainEnd, Prepare, Accept, EventOk, AppDone, LogEnd, ToResponse, Goto
<1> QED
  BY <1>1, <1>2, <1>3, <1>5, <1>7, <1>8, <1>9, <1>10, <1>11 DEF StepOf, main

(* What a request's own step does to its reply.                              *)
Progress(r) == ReplyOf(r)' /\ (Final(wire[r], wire'[r]) \/ pc'[r] = "idle")

LEMMA RaiseProgress ==
  ASSUME TypeOK, NEW r \in Request, ReplyOf(r), Raise(r)
  PROVE  Progress(r)
<1>1. writer[r] \in Writer /\ wire[r] \in Wire
  BY DEF TypeOK
<1>2. /\ writer'[r] = SetReply(writer[r], "500", "error") /\ wire'[r] = wire[r]
      /\ pc'[r] = "error" /\ reported'[r] = ~writer[r].headerDone
  BY DEF Raise, TypeOK
<1>3. /\ Sent(writer'[r], wire'[r])
      /\ reported'[r] => ErrorReply(writer'[r], wire'[r])
  BY <1>1, <1>2, SetReplyKeeps DEF ReplyOf
<1>4. pc'[r] \notin Ended
  BY <1>2 DEF Ended
<1> QED  BY <1>2, <1>3, <1>4 DEF Progress, ReplyOf, Final

LEMMA FlushProgress ==
  ASSUME TypeOK, NEW r \in Request, ReplyOf(r), DoFlush(r), UNCHANGED reported,
         reported[r] => pc'[r] \in Ended \cup {"error", "finalize"}
  PROVE  Progress(r)
<1>1. writer[r] \in Writer /\ wire[r] \in Wire
  BY DEF TypeOK
<1>2. writer'[r] = Flush(writer[r]) /\ wire'[r] = BodyOut(writer[r], wire[r])
  BY DEF DoFlush, TypeOK
<1>3. /\ Sent(writer'[r], wire'[r]) /\ writer'[r].bodyDone
      /\ Final(wire[r], wire'[r])
      /\ ErrorReply(writer[r], wire[r]) => ErrorReply(writer'[r], wire'[r])
  BY <1>1, <1>2, FlushSends DEF ReplyOf
<1> QED  BY <1>3 DEF Progress, ReplyOf

LEMMA EndProgress ==
  ASSUME TypeOK, NEW r \in Request, End(r)
  PROVE  Progress(r)
<1>1. /\ writer'[r] = NewWriter /\ wire'[r] = NewWire /\ pc'[r] = "idle"
      /\ ~reported'[r]
  BY DEF End, TypeOK
<1>2. Sent(NewWriter, NewWire)
  BY DEF Sent, NewWriter, NewWire
<1> QED  BY <1>1, <1>2 DEF Progress, ReplyOf, Ended

LEMMA StayProgress ==
  ASSUME NEW r \in Request, ReplyOf(r), writer'[r] = writer[r], wire'[r] = wire[r],
         reported'[r] => reported[r],
         pc'[r] \in Ended => writer[r].bodyDone,
         reported'[r] => pc'[r] \in Ended \cup {"error", "finalize"}
  PROVE  Progress(r)
BY DEF Progress, ReplyOf, Final

LEMMA OwnStep ==
  ASSUME TypeOK, NEW r \in Request, ReplyOf(r), StepOf(r)
  PROVE  Progress(r)
<1> USE DEF TypeOK
<1>1. CASE GetIdle(r) \/ \E ok \in BOOLEAN : NewHandler(r, ok)
  <2>1. /\ writer'[r] = writer[r] /\ wire'[r] = wire[r] /\ reported'[r] = reported[r]
        /\ pc[r] = "idle" /\ pc'[r] = "init"
    BY <1>1 DEF GetIdle, NewHandler, Start
  <2>2. ~reported[r]
    BY <2>1 DEF ReplyOf, Ended
  <2> QED  BY <2>1, <2>2, StayProgress DEF Ended
<1>2. CASE ScriptWrite(r)
  <2>1. /\ \/ writer'[r] = [writer[r] EXCEPT !.status = "other"]
           \/ writer'[r] = [writer[r] EXCEPT !.body = "script"]
        /\ wire'[r] = wire[r] /\ pc'[r] = pc[r]
        /\ reported'[r] = (reported[r] /\ pc[r] # "error")
    BY <1>2 DEF ScriptWrite
  <2>2. writer[r] \in Writer /\ wire[r] \in Wire
    OBVIOUS
  <2>3. /\ Sent(writer'[r], wire'[r]) /\ writer'[r].bodyDone = writer[r].bodyDone
        /\ ErrorReply(writer[r], wire[r]) /\ writer[r].bodyDone => ErrorReply(writer'[r], wire'[r])
    BY <2>1, <2>2, ScriptKeeps DEF ReplyOf
  <2>4. reported'[r] => reported[r] /\ writer[r].bodyDone
    BY <1>2, <2>1 DEF ScriptWrite, RunsScript, ReplyOf, Ended
  <2> QED  BY <2>1, <2>3, <2>4 DEF Progress, ReplyOf, Final
<1>3. CASE ScriptFlush(r)
  <2>1. CASE DoFlush(r)
    BY <1>3, <2>1, FlushProgress DEF ScriptFlush, ReplyOf
  <2>2. CASE /\ writer' = [writer EXCEPT ![r] = FlushHeader(@)]
             /\ wire' = [wire EXCEPT ![r] = HeaderOut(writer[r], @)]
    <3>1. /\ writer'[r] = FlushHeader(writer[r]) /\ wire'[r] = HeaderOut(writer[r], wire[r])
          /\ pc' = pc /\ reported' = reported
      BY <1>3, <2>2 DEF ScriptFlush
    <3>2. writer[r] \in Writer /\ wire[r] \in Wire
      OBVIOUS
    <3>3. /\ Sent(writer'[r], wire'[r]) /\ writer'[r].bodyDone = writer[r].bodyDone
          /\ Final(wire[r], wire'[r])
          /\ ErrorReply(writer[r], wire[r]) => ErrorReply(writer'[r], wire'[r])
      BY <3>1, <3>2, FlushHeaderSends DEF ReplyOf
    <3> QED  BY <3>1, <3>3 DEF Progress, ReplyOf
  <2> QED  BY <1>3, <2>1, <2>2 DEF ScriptFlush
<1>4. CASE ScriptGetClient(r)
  BY <1>4, StayProgress DEF ScriptGetClient, ReplyOf
<1>5. CASE ScriptPanics(r)
  <2>1. CASE pc[r] = "log"
    BY <1>5, <2>1, EndProgress DEF ScriptPanics
  <2>2. CASE pc[r] # "log"
    <3>1. /\ writer'[r] = writer[r] /\ wire'[r] = wire[r]
          /\ ~reported'[r] /\ pc'[r] = "finalize"
      BY <1>5, <2>2 DEF ScriptPanics, Goto
    <3> QED  BY <3>1, StayProgress DEF Ended
  <2> QED  BY <2>1, <2>2
<1>6. CASE InitOk(r)
  <2>1. CASE Raise(r)
    BY <2>1, RaiseProgress
  <2>2. CASE UNCHANGED <<writer, wire, reported>>
    <3>1. CASE Raise(r)
      BY <3>1, RaiseProgress
    <3>2. CASE Goto(r, "finalize") \/ Goto(r, "request")
      <4>1. pc'[r] \in {"finalize", "request"} /\ ~reported[r]
        BY <1>6, <3>2 DEF InitOk, Goto, ReplyOf, Ended
      <4> QED  BY <2>2, <4>1, StayProgress DEF Ended
    <3> QED  BY <1>6, <3>1, <3>2 DEF InitOk
  <2> QED  BY <1>6, <2>1, <2>2 DEF InitOk
<1>7. CASE Fails(r) \/ MiddlewareFails(r)
  BY <1>7, RaiseProgress DEF Fails, MiddlewareFails
<1>8. CASE Middleware(r)
  <2>1. /\ pc'[r] \in {"finalize", pc[r]} /\ pc[r] \in {"request", "response"}
        /\ reported' = reported
    BY <1>8 DEF Middleware, Goto
  <2>2. ~reported[r] /\ pc'[r] \notin Ended
    BY <2>1 DEF ReplyOf, Ended
  <2>3. CASE DoFlush(r)
    BY <2>1, <2>2, <2>3, FlushProgress
  <2>4. CASE UNCHANGED <<writer, wire>>
    BY <2>1, <2>2, <2>4, StayProgress
  <2>5. CASE /\ writer' = [writer EXCEPT ![r] = WriteBody(WriteStatus(@, "other"), "middleware")]
             /\ UNCHANGED wire
    <3>1. writer[r] \in Writer /\ wire[r] \in Wire
      OBVIOUS
    <3>2. Sent(writer'[r], wire'[r])
      BY <2>5, <3>1, MiddlewareKeeps DEF ReplyOf
    <3> QED  BY <2>1, <2>2, <2>5, <3>2 DEF Progress, ReplyOf, Final
  <2> QED  BY <1>8, <2>3, <2>4, <2>5 DEF Middleware
<1>9. CASE ErrorEnd(r) \/ Finalize(r)
  <2>1. DoFlush(r) /\ reported' = reported
    BY <1>9 DEF ErrorEnd, Finalize
  <2>2. pc'[r] \in {"finalize", "done", "log"}
    BY <1>9 DEF ErrorEnd, Finalize, Goto
  <2> QED  BY <2>1, <2>2, FlushProgress DEF Ended
<1>10. CASE ChainEnd(r) \/ Prepare(r) \/ Accept(r) \/ EventOk(r)
  <2>1. /\ pc[r] \in {"request", "response", "prepare", "accept", "event"}
        /\ pc'[r] \in {"prepare", "finalize", "accept", "response", "event"}
        /\ UNCHANGED <<writer, wire, reported>>
    BY <1>10 DEF ChainEnd, Prepare, Accept, EventOk, ToResponse, Goto
  <2> QED  BY <2>1, StayProgress DEF ReplyOf, Ended
<1>11. CASE AppDone(r) \/ LogEnd(r)
  <2>1. /\ pc[r] \in Ended /\ pc'[r] \in Ended /\ UNCHANGED <<writer, wire, reported>>
    BY <1>11 DEF AppDone, LogEnd, Goto, Ended
  <2> QED  BY <2>1, StayProgress DEF ReplyOf
<1>12. CASE DonePanics(r) \/ PutHandler(r)
  BY <1>12, EndProgress DEF DonePanics, PutHandler
<1>13. CASE Finish(r)
  <2>1. CASE End(r)
    BY <2>1, EndProgress
  <2>2. CASE Goto(r, "put") /\ UNCHANGED <<writer, wire, reported>>
    <3>1. pc[r] \in Ended /\ pc'[r] \in Ended
      BY <1>13, <2>2 DEF Finish, Goto, Ended
    <3> QED  BY <2>2, <3>1, StayProgress DEF ReplyOf
  <2> QED  BY <1>13, <2>1, <2>2 DEF Finish
<1> QED
  BY <1>1, <1>2, <1>3, <1>4, <1>5, <1>6, <1>7, <1>8, <1>9, <1>10, <1>11, <1>12, <1>13
     DEF StepOf, main

LEMMA ReplyStep ==
  ASSUME TypeOK, Replies, [Next]_vars
  PROVE  \A r \in Request : Progress(r)
<1> SUFFICES ASSUME NEW r \in Request PROVE Progress(r)
  OBVIOUS
<1>1. ReplyOf(r)
  BY DEF Replies
<1>2. CASE UNCHANGED vars
  BY <1>1, <1>2 DEF vars, Progress, ReplyOf, Final
<1>3. ASSUME NEW q \in Request, StepOf(q) PROVE Progress(r)
  <2>1. CASE q = r
    BY <1>1, <1>3, <2>1, OwnStep
  <2>2. CASE q # r
    BY <1>1, <1>3, <2>2, ApartStep DEF Apart, Progress, ReplyOf, Final
  <2> QED  BY <2>1, <2>2
<1> QED  BY <1>2, <1>3 DEF Next, StepOf

LEMMA RepliesInvariant == Spec => []Replies
<1>1. Init => Replies
  <2>1. Sent(NewWriter, NewWire)
    BY DEF Sent, NewWriter, NewWire
  <2> QED  BY <2>1 DEF Init, Replies, ReplyOf, Ended
<1>2. TypeOK /\ Replies /\ [Next]_vars => Replies'
  BY ReplyStep DEF Replies, Progress
<1> QED  BY <1>1, <1>2, TypedInvariant, PTL DEF Spec, Typed

(* The response is out before the application is finished, logged, or gives  *)
(* its clients back.                                                         *)
THEOREM ResponseBeforeDone == Spec => []CompleteBeforeDone
<1>1. Replies => CompleteBeforeDone
  BY DEF Replies, ReplyOf, Sent, CompleteBeforeDone, Ended
<1> QED  BY <1>1, RepliesInvariant, PTL

(* An error raised before the first flush is what the client receives.       *)
THEOREM ErrorsReachTheClient == Spec => []ErrorReported
<1>1. TypeOK /\ Replies => ErrorReported
  <2> SUFFICES ASSUME TypeOK, Replies, NEW r \in Request, reported[r], pc[r] \in Ended
               PROVE  wire[r] = [status |-> "500", body |-> "error"]
    BY DEF ErrorReported, Ended
  <2>1. wire[r] \in Wire
    BY DEF TypeOK
  <2>2. wire[r].status = "500" /\ wire[r].body = "error"
    BY DEF Replies, ReplyOf, Sent, ErrorReply
  <2> QED  BY <2>1, <2>2 DEF Wire
<1> QED  BY <1>1, RepliesInvariant, TypedInvariant, PTL DEF Typed

(* Nothing that was sent changes afterwards.                                 *)
THEOREM WireStays == Spec => WireFinal
<1>1. TypeOK /\ Replies /\ [Next]_vars
      => [\A r \in Request :
            /\ wire[r].status # "none" => wire'[r].status = wire[r].status \/ pc'[r] = "idle"
            /\ wire[r].body # "none" => wire'[r] = wire[r] \/ pc'[r] = "idle"]_vars
  BY ReplyStep DEF Progress, Final
<1> QED  BY <1>1, RepliesInvariant, TypedInvariant, PTL DEF Spec, WireFinal, Typed

============================================================================
