--------------------------- MODULE ServiceHandler ---------------------------
(***************************************************************************)
(* One HTTP service: its pool of serviceHandlers and the pipeline each     *)
(* request goroutine runs through one of them (http/vhost: doRoute,        *)
(* servicePool, serviceHandler.main, responseWriterWrapper; framework:     *)
(* NewService, middlewareCompose.Accept).                                  *)
(*                                                                         *)
(* A request takes a handler, runs the session script, the request         *)
(* middlewares, the application and the response middlewares, and then, in *)
(* a deferred function, flushes the response, finishes the application,    *)
(* logs, returns its HTTP clients and goes back to the pool.  Scripts and  *)
(* middlewares work on the response through the writer.                    *)
(*                                                                         *)
(* Abstractions.  A status is 200, 500 or "other"; a body is named after   *)
(* who set it.  A handler's HTTP clients are one bit: HClientPool has the  *)
(* rest.  The identity of a dropped handler is recycled.                   *)
(***************************************************************************)
EXTENDS Integers, Sequences, FiniteSets

CONSTANTS
  Request,         \* goroutines in doRoute
  Handler,         \* serviceHandler identities
  NoHandler,       \* nil
  MaxSize,         \* servicePool.maxSize
  Middlewares,     \* length of the request and of the response chain
  FactoryMayFail,  \* whether some factory's Create can return an error
  HandlesError,    \* Module.HasEvent("error")
  Statements,      \* bound: what scripts do, of "write", "flush", "fetch", "panic"
  MaxFailures      \* bound: creations that fail

ASSUME HandlerAssumption == NoHandler \notin Handler
ASSUME SizeAssumption == MaxSize \in Nat /\ Middlewares \in Nat /\ MaxFailures \in Nat
ASSUME FlagAssumption == FactoryMayFail \in BOOLEAN /\ HandlesError \in BOOLEAN

VARIABLES
  idle,      \* servicePool.idle; get pops the last element
  service,   \* service[h]: serviceHandler.service is not nil
  clients,   \* clients[h]: serviceHandler.activeHttpClient is not empty
  pc,        \* pc[r]: serviceHandler.phase, refined
  handler,   \* handler[r]: the handler in use
  prevError, \* prevError[r]: getServiceHandler returned an error
  context,   \* context[r]: applicationContext is not nil
  acceptErr, \* acceptErr[r]: Application.Accept failed or panicked
  left,      \* left[r]: middlewares of the current chain still to run
  writer,    \* writer[r]: responseWriterWrapper
  wire,      \* wire[r]: what the http.ResponseWriter was given
  panicking, \* panicking[r]: the deferred function runs because of a panic
  reported,  \* history: an error was raised while the response was untouched,
             \* and no error event rewrote the reply
  failures,  \* history: handlers whose creation failed
  victims    \* history: requests that panicked on a handler with no service

vars == <<idle, service, clients, pc, handler, prevError, context, acceptErr,
          left, writer, wire, panicking, reported, failures, victims>>

Phase == {"idle", "init", "request", "prepare", "accept", "event", "response",
          "error", "finalize", "done", "log", "finish", "put"}

Status == {"none", "200", "500", "other"}
Body   == {"none", "eof", "script", "middleware", "error"}

NewWriter == [status |-> "200", body |-> "eof", headerDone |-> FALSE, bodyDone |-> FALSE]
NewWire   == [status |-> "none", body |-> "none"]

InUse == {handler[r] : r \in Request} \ {NoHandler}
Pooled == {idle[i] : i \in DOMAIN idle}

Init ==
  /\ idle = <<>>
  /\ service = [h \in Handler |-> FALSE] /\ clients = [h \in Handler |-> FALSE]
  /\ pc = [r \in Request |-> "idle"]
  /\ handler = [r \in Request |-> NoHandler]
  /\ prevError = [r \in Request |-> FALSE]
  /\ context = [r \in Request |-> FALSE]
  /\ acceptErr = [r \in Request |-> FALSE]
  /\ left = [r \in Request |-> 0]
  /\ writer = [r \in Request |-> NewWriter]
  /\ wire = [r \in Request |-> NewWire]
  /\ panicking = [r \in Request |-> FALSE]
  /\ reported = [r \in Request |-> FALSE]
  /\ failures = 0 /\ victims = 0

----------------------------------------------------------------------------
(* responseWriterWrapper, as functions of a writer and a wire.              *)

FlushHeader(w) == [w EXCEPT !.headerDone = TRUE]
Flush(w)       == [w EXCEPT !.headerDone = TRUE, !.bodyDone = TRUE, !.body = "none"]
WriteStatus(w, s) == IF w.headerDone THEN w ELSE [w EXCEPT !.status = s]
WriteBody(w, b)   == IF w.bodyDone THEN w ELSE [w EXCEPT !.body = b]
(* A fault: the status of a reply is lost.                                  *)
SetReplyBody(w, s, b) ==
  IF w.headerDone \/ w.bodyDone THEN w ELSE [w EXCEPT !.body = b]

SetReply(w, s, b) ==
  IF w.headerDone \/ w.bodyDone THEN w ELSE [w EXCEPT !.status = s, !.body = b]

(* A fault: the header is written again.                                    *)
HeaderOutAgain(w, x) == [x EXCEPT !.status = w.status]

(* What flushing w puts on a wire x: WriteHeader once, the body once.       *)
HeaderOut(w, x) == IF w.headerDone THEN x ELSE [x EXCEPT !.status = w.status]
BodyOut(w, x)   == IF w.bodyDone THEN x
                   ELSE [HeaderOut(w, x) EXCEPT !.body = w.body]

DoFlush(r) ==
  /\ writer' = [writer EXCEPT ![r] = Flush(@)]
  /\ wire' = [wire EXCEPT ![r] = BodyOut(writer[r], @)]

(* replyErr up to the "error" event: every error path of main and of a      *)
(* middleware's ReplyError.                                                 *)
Raise(r) ==
  /\ writer' = [writer EXCEPT ![r] = SetReply(@, "500", "error")]
  /\ reported' = [reported EXCEPT ![r] = ~writer[r].headerDone]
  /\ pc' = [pc EXCEPT ![r] = "error"]
  /\ UNCHANGED wire

Goto(r, p) == pc' = [pc EXCEPT ![r] = p]
Rest(r) == UNCHANGED <<idle, service, clients, handler, prevError, failures>>

----------------------------------------------------------------------------
(* doRoute: take a handler.                                                 *)

Start(r, h) ==
  /\ handler' = [handler EXCEPT ![r] = h]
  /\ pc' = [pc EXCEPT ![r] = "init"]
  /\ UNCHANGED <<context, acceptErr, left, writer, wire, panicking, reported, victims>>

(* The goroutine ends and its locals with it.                               *)
End(r) ==
  /\ pc' = [pc EXCEPT ![r] = "idle"]
  /\ handler' = [handler EXCEPT ![r] = NoHandler]
  /\ prevError' = [prevError EXCEPT ![r] = FALSE]
  /\ context' = [context EXCEPT ![r] = FALSE]
  /\ acceptErr' = [acceptErr EXCEPT ![r] = FALSE]
  /\ writer' = [writer EXCEPT ![r] = NewWriter]
  /\ wire' = [wire EXCEPT ![r] = NewWire]
  /\ panicking' = [panicking EXCEPT ![r] = FALSE]
  /\ reported' = [reported EXCEPT ![r] = FALSE]
  /\ UNCHANGED <<left, failures, victims>>

(* A fault: the handler stays in the pool.                                  *)
GetIdleKept(r) ==
  /\ pc[r] = "idle" /\ idle # <<>>
  /\ Start(r, idle[Len(idle)])
  /\ prevError' = [prevError EXCEPT ![r] = FALSE]
  /\ UNCHANGED <<idle, service, clients, failures>>

GetIdle(r) ==
  /\ pc[r] = "idle" /\ idle # <<>>
  /\ Start(r, idle[Len(idle)])
  /\ idle' = SubSeq(idle, 1, Len(idle) - 1)
  /\ prevError' = [prevError EXCEPT ![r] = FALSE]
  /\ UNCHANGED <<service, clients, failures>>

(* The pool is empty: NewService, and a handler even when that failed.      *)
NewHandler(r, ok) ==
  /\ pc[r] = "idle" /\ idle = <<>>
  /\ ok \/ (FactoryMayFail /\ failures < MaxFailures)
  /\ \E h \in Handler \ (InUse \cup Pooled) :
       /\ Start(r, h)
       /\ service' = [service EXCEPT ![h] = ok]
       /\ clients' = [clients EXCEPT ![h] = FALSE]
  /\ prevError' = [prevError EXCEPT ![r] = ~ok]
  /\ failures' = IF ok THEN failures ELSE failures + 1
  /\ UNCHANGED idle

----------------------------------------------------------------------------
(* Scripts: one statement that matters, wherever main runs one.  A          *)
(* middleware and an application's Accept run them too: the events that     *)
(* they emit and the closures they find among their arguments.  Fields are  *)
(* assigned through IndexSet, which does not look at what was flushed.      *)

RunsScript(r, statement) ==
  /\ statement \in Statements
  /\ \/ pc[r] \in {"init", "accept", "event", "log"}
     \/ pc[r] \in {"request", "response"} /\ left[r] > 0
     \/ pc[r] = "error" /\ HandlesError

ScriptWrite(r) ==
  /\ RunsScript(r, "write")
  /\ \/ writer' = [writer EXCEPT ![r].status = "other"]
     \/ writer' = [writer EXCEPT ![r].body = "script"]
  /\ reported' = [reported EXCEPT ![r] = @ /\ pc[r] # "error"]
  /\ UNCHANGED <<idle, service, clients, pc, handler, prevError, context,
                 acceptErr, left, wire, panicking, failures, victims>>

ScriptFlush(r) ==
  /\ RunsScript(r, "flush")
  /\ \/ /\ ~writer[r].headerDone
        /\ writer' = [writer EXCEPT ![r] = FlushHeader(@)]
        /\ wire' = [wire EXCEPT ![r] = HeaderOut(writer[r], @)]
     \/ /\ ~writer[r].bodyDone
        /\ DoFlush(r)
  /\ UNCHANGED <<idle, service, clients, pc, handler, prevError, context,
                 acceptErr, left, panicking, reported, failures, victims>>

ScriptGetClient(r) ==
  /\ RunsScript(r, "fetch")
  /\ clients' = [clients EXCEPT ![handler[r]] = TRUE]
  /\ UNCHANGED <<idle, service, pc, handler, prevError, context, acceptErr,
                 left, writer, wire, panicking, reported, failures, victims>>

(* A native function panics (FnHttpDo reads its fourth argument when three   *)
(* were passed) and nothing recovers: main's deferred function still runs,  *)
(* unless the panic comes from its log event, leaves it there and skips     *)
(* finish; either way the handler is never pooled again.  An Accept that    *)
(* panics has produced no result.                                           *)
ScriptPanics(r) ==
  /\ RunsScript(r, "panic")
  /\ IF pc[r] = "log"
     THEN /\ End(r)
          /\ service' = [service EXCEPT ![handler[r]] = FALSE]
          /\ clients' = [clients EXCEPT ![handler[r]] = FALSE]
          /\ UNCHANGED idle
     ELSE /\ Goto(r, "finalize")
          /\ panicking' = [panicking EXCEPT ![r] = TRUE]
          /\ reported' = [reported EXCEPT ![r] = FALSE]
          /\ acceptErr' = [acceptErr EXCEPT ![r] = pc[r] = "accept"]
          /\ Rest(r)
          /\ UNCHANGED <<context, left, writer, wire, victims>>

----------------------------------------------------------------------------
(* main, up to its deferred function.                                       *)

(* (0) OnInit returned nil.  A flushed response ends the request; then the  *)
(* creation error is reported; then s.service is dereferenced.              *)
InitOk(r) ==
  /\ pc[r] = "init"
  /\ \/ /\ writer[r].bodyDone
        /\ Goto(r, "finalize")
        /\ UNCHANGED <<writer, wire, reported, left, panicking, victims>>
     \/ /\ ~writer[r].bodyDone /\ prevError[r]
        /\ Raise(r)
        /\ UNCHANGED <<left, panicking, victims>>
     \/ /\ ~writer[r].bodyDone /\ ~prevError[r] /\ ~service[handler[r]]
        /\ Goto(r, "finalize")
        /\ panicking' = [panicking EXCEPT ![r] = TRUE]
        /\ victims' = victims + 1
        /\ UNCHANGED <<writer, wire, reported, left>>
     \/ /\ ~writer[r].bodyDone /\ ~prevError[r] /\ service[handler[r]]
        /\ Goto(r, "request")
        /\ left' = [left EXCEPT ![r] = Middlewares]
        /\ UNCHANGED <<writer, wire, reported, panicking, victims>>
  /\ Rest(r) /\ UNCHANGED <<context, acceptErr>>

(* An error raised by OnInit, by the application or by its event.           *)
Fails(r) ==
  /\ pc[r] \in {"init", "prepare", "accept", "event"}
  /\ Raise(r)
  /\ acceptErr' = [acceptErr EXCEPT ![r] = pc[r] = "accept"]
  /\ Rest(r) /\ UNCHANGED <<context, left, panicking, victims>>

(* middlewareCompose.Accept: one middleware, then the test whether it       *)
(* produced the whole response.                                             *)
Middleware(r) ==
  /\ pc[r] \in {"request", "response"} /\ left[r] > 0
  /\ \/ UNCHANGED <<writer, wire>>
     \/ /\ writer' = [writer EXCEPT ![r] = WriteBody(WriteStatus(@, "other"), "middleware")]
        /\ UNCHANGED wire
     \/ DoFlush(r)
  /\ left' = [left EXCEPT ![r] = IF writer'[r].bodyDone THEN 0 ELSE @ - 1]
  /\ Goto(r, IF writer'[r].bodyDone THEN "finalize" ELSE pc[r])
  /\ Rest(r) /\ UNCHANGED <<context, acceptErr, panicking, reported, victims>>

(* A middleware that fails calls ReplyError and returns false.              *)
MiddlewareFails(r) ==
  /\ pc[r] \in {"request", "response"} /\ left[r] > 0
  /\ Raise(r)
  /\ left' = [left EXCEPT ![r] = 0]
  /\ Rest(r) /\ UNCHANGED <<context, acceptErr, panicking, victims>>

ChainEnd(r) ==
  /\ pc[r] \in {"request", "response"} /\ left[r] = 0
  /\ Goto(r, IF pc[r] = "request" THEN "prepare" ELSE "finalize")
  /\ Rest(r)
  /\ UNCHANGED <<context, acceptErr, left, writer, wire, panicking, reported, victims>>

(* (2) Prepare may return a nil context, and then Done is not called.       *)
Prepare(r) ==
  /\ pc[r] = "prepare"
  /\ \E c \in BOOLEAN : context' = [context EXCEPT ![r] = c]
  /\ Goto(r, "accept")
  /\ Rest(r)
  /\ UNCHANGED <<acceptErr, left, writer, wire, panicking, reported, victims>>

(* The application's result names an event or not; the response chain runs  *)
(* after the event.                                                         *)
ToResponse(r) ==
  /\ Goto(r, "response")
  /\ left' = [left EXCEPT ![r] = Middlewares]

Accept(r) ==
  /\ pc[r] = "accept"
  /\ ToResponse(r) \/ (Goto(r, "event") /\ UNCHANGED left)
  /\ Rest(r)
  /\ UNCHANGED <<context, acceptErr, writer, wire, panicking, reported, victims>>

(* A fault: the application is run again after its event.                   *)
EventOkAgain(r) ==
  /\ pc[r] = "event"
  /\ Goto(r, "accept")
  /\ Rest(r)
  /\ UNCHANGED <<context, acceptErr, left, writer, wire, panicking, reported, victims>>

EventOk(r) ==
  /\ pc[r] = "event"
  /\ ToResponse(r)
  /\ Rest(r)
  /\ UNCHANGED <<context, acceptErr, writer, wire, panicking, reported, victims>>

(* replyErr after the "error" event.                                        *)
ErrorEnd(r) ==
  /\ pc[r] = "error"
  /\ DoFlush(r)
  /\ Goto(r, "finalize")
  /\ Rest(r) /\ UNCHANGED <<context, acceptErr, left, panicking, reported, victims>>

----------------------------------------------------------------------------
(* The deferred function of main, and the return to the pool.               *)

(* A fault: the last flush sends the header only.                           *)
FinalizeHeader(r) ==
  /\ pc[r] = "finalize"
  /\ writer' = [writer EXCEPT ![r] = FlushHeader(@)]
  /\ wire' = [wire EXCEPT ![r] = HeaderOut(writer[r], @)]
  /\ Goto(r, IF context[r] THEN "done" ELSE "log")
  /\ Rest(r) /\ UNCHANGED <<context, acceptErr, left, panicking, reported, victims>>

(* (4) Finalize *)
Finalize(r) ==
  /\ pc[r] = "finalize"
  /\ DoFlush(r)
  /\ Goto(r, IF context[r] THEN "done" ELSE "log")
  /\ Rest(r) /\ UNCHANGED <<context, acceptErr, left, panicking, reported, victims>>

(* (5) Application.Done *)
AppDone(r) ==
  /\ pc[r] = "done"
  /\ Goto(r, "log")
  /\ Rest(r)
  /\ UNCHANGED <<context, acceptErr, left, writer, wire, panicking, reported, victims>>

(* body_sign's Done dereferences the result Accept did not produce: the     *)
(* rest of the deferred function and the put are skipped.                   *)
DonePanics(r) ==
  /\ pc[r] = "done" /\ acceptErr[r]
  /\ End(r)
  /\ service' = [service EXCEPT ![handler[r]] = FALSE]
  /\ clients' = [clients EXCEPT ![handler[r]] = FALSE]
  /\ UNCHANGED idle

(* A fault: the log event comes after finish, as the last thing.            *)
LogEndLast(r) ==
  /\ pc[r] = "log"
  /\ Goto(r, "put")
  /\ Rest(r)
  /\ UNCHANGED <<context, acceptErr, left, writer, wire, panicking, reported, victims>>

(* (6) the "log" event, whose script may still fetch *)
LogEnd(r) ==
  /\ pc[r] = "log"
  /\ Goto(r, "finish")
  /\ Rest(r)
  /\ UNCHANGED <<context, acceptErr, left, writer, wire, panicking, reported, victims>>

(* A fault: a handler that panicked is pooled too.                          *)
FinishRecovered(r) ==
  /\ pc[r] = "finish"
  /\ clients' = [clients EXCEPT ![handler[r]] = FALSE]
  /\ Goto(r, "put")
  /\ UNCHANGED <<idle, service, handler, prevError, failures, context, acceptErr,
                 left, writer, wire, panicking, reported, victims>>

(* finish; a panic in flight continues and takes the handler with it.       *)
Finish(r) ==
  /\ pc[r] = "finish"
  /\ clients' = [clients EXCEPT ![handler[r]] = FALSE]
  /\ IF panicking[r]
     THEN End(r)
     ELSE /\ Goto(r, "put")
          /\ UNCHANGED <<handler, prevError, failures, context, acceptErr, left,
                         writer, wire, panicking, reported, victims>>
  /\ UNCHANGED <<idle, service>>

(* servicePool.put: a full pool drops the handler.                          *)
Full == Len(idle) + 1 >= MaxSize

PutHandler(r) ==
  /\ pc[r] = "put"
  /\ idle' = IF Full THEN idle ELSE Append(idle, handler[r])
  /\ service' = IF Full THEN [service EXCEPT ![handler[r]] = FALSE] ELSE service
  /\ End(r)
  /\ UNCHANGED clients

----------------------------------------------------------------------------
main(r) ==
  \/ InitOk(r) \/ Fails(r) \/ Middleware(r) \/ MiddlewareFails(r) \/ ChainEnd(r)
  \/ Prepare(r) \/ Accept(r) \/ EventOk(r) \/ ErrorEnd(r)
  \/ Finalize(r) \/ AppDone(r) \/ DonePanics(r) \/ LogEnd(r) \/ Finish(r)

Next ==
  \E r \in Request :
     \/ GetIdle(r) \/ \E ok \in BOOLEAN : NewHandler(r, ok)
     \/ ScriptWrite(r) \/ ScriptFlush(r) \/ ScriptGetClient(r) \/ ScriptPanics(r)
     \/ main(r) \/ PutHandler(r)

Spec == Init /\ [][Next]_vars

(* Scripts, middlewares and applications terminate; a request that can make *)
(* a step makes one.                                                        *)
FairSpec == Spec /\ \A r \in Request : WF_vars(main(r) \/ PutHandler(r))

----------------------------------------------------------------------------
(* A handler, with its runtime, script state and application object, serves *)
(* one request at a time: never two, never one while it waits in the pool,  *)
(* and it waits there once.  The pool keeps fewer handlers than its         *)
(* configured size, and none when that is 1.                                *)
HandlerExclusive ==
  /\ \A r, s \in Request : r # s /\ handler[r] # NoHandler => handler[r] # handler[s]
  /\ InUse \cap Pooled = {}
  /\ \A i, j \in DOMAIN idle : i # j => idle[i] # idle[j]
  /\ idle # <<>> => Len(idle) < MaxSize

(* A handler waits in the pool without HTTP clients: whatever the previous  *)
(* request fetched, even in its log event, went back to the client pool.    *)
IdleHoldsNoClient == \A h \in Pooled : ~clients[h]

(* The response is complete on the wire before the application is finished  *)
(* ("MUST be before the application.Done"), logged, or its HTTP clients,    *)
(* which may be the source of the body, are given back.                     *)
CompleteBeforeDone ==
  \A r \in Request : pc[r] \in {"done", "log", "finish", "put"} =>
     writer[r].bodyDone /\ wire[r].status # "none" /\ wire[r].body # "none"

(* An error raised before anything was flushed reaches the client as a 500  *)
(* with the error text, unless the module's own error event rewrites it.    *)
ErrorReported ==
  \A r \in Request : reported[r] /\ pc[r] \in {"done", "log", "finish", "put"} =>
     wire[r] = [status |-> "500", body |-> "error"]

(* A request whose handler could not be created gets its error, but the     *)
(* handler goes to the pool without a service; whoever takes it next        *)
(* panics.  Each failed creation makes at most one such victim, because a   *)
(* panic keeps the handler out of the pool.                                 *)
Poisoned == {h \in Pooled \cup InUse : ~service[h]}
VictimsBound ==
  victims + Cardinality({h \in Poisoned : \A r \in Request :
                                    handler[r] = h => ~panicking[r]}) <= failures

(* What the client was sent does not change afterwards, whatever scripts    *)
(* assign to the response.                                                  *)
WireFinal ==
  [][\A r \in Request :
       /\ wire[r].status # "none" => wire'[r].status = wire[r].status \/ pc'[r] = "idle"
       /\ wire[r].body # "none" => wire'[r] = wire[r] \/ pc'[r] = "idle"]_vars

(* Every request is answered and its goroutine gets back to the pool.       *)
Answered == \A r \in Request : pc[r] = "init" ~> pc[r] = "idle"
=============================================================================
