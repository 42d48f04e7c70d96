---------------------------- MODULE RedisSession ----------------------------
(***************************************************************************)
(* The connections of a Redis listener (redis/listener.go, redis/vhost,    *)
(* redis/runtime) composed with the administration of its virtual host.    *)
(*                                                                         *)
(* redcon runs onAccept, then onEvent per command, then onClose in the     *)
(* connection's goroutine.  Each callback loads the slot anew and runs two *)
(* scripts of the virtual host it found: the session variables (OnInit)    *)
(* and the rule of the event.  Events that a script emits are handled when *)
(* it has ended, whether it failed or not, the newest first.  What is      *)
(* written to the client is not modelled, except that Close was called.    *)
(***************************************************************************)
EXTENDS RedisListener, Naturals

CONSTANTS
  Conn,       \* connections
  MaxQueued,  \* bound: events in the queue
  MaxHeld     \* bound: HTTP clients of one callback

ASSUME SessionAssumption == {MaxQueued, MaxHeld} \subseteq Nat

VARIABLES
  conn,  \* conn[c]: the connection, the callback that runs and its handler
  up     \* the process runs

connVars == <<conn, up>>

(* What redcon and the running callback know of a connection.  A callback   *)
(* is idle, in one of its two scripts, at the event queue, in a script of   *)
(* an event from the queue, or at its deferred function.                    *)
ConnState ==
  [ life    : {"new", "open", "gone"},
    at      : {"idle", "script", "queue", "event", "finish"},
    kind    : {"accept", "event", "close"},
    part    : {"init", "rule"},
    by      : VHost \cup {Nil},  \* whose handler runs it
    failed  : BOOLEAN,           \* the last script ended with an error
    queued  : 0 .. MaxQueued,    \* events in the queue of its evaluator
    held    : 0 .. MaxHeld,      \* HTTP clients of the handler
    shut    : BOOLEAN,           \* Close was called
    greeted : VHost \cup {Nil}   \* history: who accepted it; Nil once the
  ]                              \* slot has changed

NewConn ==
  [ life |-> "new", at |-> "idle", kind |-> "accept", part |-> "init", by |-> Nil,
    failed |-> FALSE, queued |-> 0, held |-> 0, shut |-> FALSE,
    greeted |-> Nil ]

Gone == [NewConn EXCEPT !.life = "gone"]

InScript(c) == conn[c].at \in {"script", "event"}

ConnInit == conn = [c \in Conn |-> NewConn] /\ up = TRUE

----------------------------------------------------------------------------
(* The callback's handler comes new: nothing ever fills the pool.  It runs  *)
(* on the virtual host behind the pointer that was loaded.                  *)
Begin(c, kind) ==
  [conn[c] EXCEPT !.at = "script", !.kind = kind, !.part = "init", !.by = at[slot],
                  !.greeted = IF kind = "accept" THEN at[slot] ELSE @]

onAccept(c) ==
  /\ conn[c].life = "new" /\ conn[c].at = "idle"
  /\ conn' = [conn EXCEPT ![c] = IF slot = Nil THEN Gone ELSE Begin(c, "accept")]
  /\ UNCHANGED up

(* Commands that came in one packet with the one that closed the connection *)
(* are still handled.                                                       *)
onEvent(c) ==
  /\ conn[c].life = "open" /\ conn[c].at = "idle"
  /\ conn' = [conn EXCEPT ![c] =
                IF slot = Nil THEN [@ EXCEPT !.shut = TRUE] ELSE Begin(c, "event")]
  /\ UNCHANGED up

(* A fault: the callback goes to the virtual host that it finds when it     *)
(* needs it, not when it begins.                                            *)
onCloseAny(c) ==
  /\ conn[c].life = "open" /\ conn[c].at = "idle"
  /\ \E v \in VHost : conn' = [conn EXCEPT ![c] = [Begin(c, "close") EXCEPT !.by = v]]
  /\ UNCHANGED up

(* The client went away, or the handler closed the connection.              *)
onClose(c) ==
  /\ conn[c].life = "open" /\ conn[c].at = "idle"
  /\ conn' = [conn EXCEPT ![c] = IF slot = Nil THEN Gone ELSE Begin(c, "close")]
  /\ UNCHANGED up

----------------------------------------------------------------------------
ConnClose(c) ==
  /\ InScript(c)
  /\ conn' = [conn EXCEPT ![c].shut = TRUE]
  /\ UNCHANGED up

GetHttpClient(c) ==
  /\ InScript(c) /\ conn[c].held < MaxHeld
  /\ conn' = [conn EXCEPT ![c].held = @ + 1]
  /\ UNCHANGED up

Emit(c) ==
  /\ InScript(c) /\ conn[c].queued < MaxQueued
  /\ conn' = [conn EXCEPT ![c].queued = @ + 1]
  /\ UNCHANGED up

(* FnHttpDo reads an argument that was not passed.  Nothing recovers in     *)
(* redcon's goroutine: the process ends, and all connections with it.       *)
ScriptPanics(c) ==
  /\ InScript(c)
  /\ conn' = [d \in Conn |-> Gone]
  /\ up' = FALSE

(* The script ends, also at once when the module has none for the event.    *)
ScriptEnds(c) ==
  /\ InScript(c)
  /\ conn' = [conn EXCEPT ![c].at = "queue"]
  /\ UNCHANGED up

(* An error that the script does not catch.  A method of the connection     *)
(* that refuses its arguments is one; writeList may be halfway through.     *)
(* The error of a script from the queue is dropped, which is ScriptEnds.    *)
ScriptFails(c) ==
  /\ conn[c].at = "script"
  /\ conn' = [conn EXCEPT ![c].at = "queue", ![c].failed = TRUE]
  /\ UNCHANGED up

----------------------------------------------------------------------------
(* The deferred drainEventQueue of EvalSession and EvalWithContext.         *)
Drain(c) ==
  /\ conn[c].at = "queue" /\ conn[c].queued > 0
  /\ conn' = [conn EXCEPT ![c].queued = @ - 1, ![c].at = "event"]
  /\ UNCHANGED up

Drained(c) == conn[c].at = "queue" /\ conn[c].queued = 0

(* OnInit returned: the rule of the event, or its absence.                  *)
InitOk(c) ==
  /\ Drained(c) /\ ~conn[c].failed /\ conn[c].part = "init"
  /\ conn' = [conn EXCEPT ![c].at = "script", ![c].part = "rule"]
  /\ UNCHANGED up

(* Emit returned.                                                           *)
RuleOk(c) ==
  /\ Drained(c) /\ ~conn[c].failed /\ conn[c].part = "rule"
  /\ conn' = [conn EXCEPT ![c].at = "finish"]
  /\ UNCHANGED up

(* s.err writes the error to the client.                                    *)
WriteErr(c) ==
  /\ Drained(c) /\ conn[c].failed
  /\ conn' = [conn EXCEPT ![c].at = "finish"]
  /\ UNCHANGED up

(* A connection is refused after an error or when the rule's value is       *)
(* false; the rule of a close event has no say.                             *)
Outcome(c) ==
  CASE conn[c].kind = "accept" -> IF conn[c].failed THEN {"gone"} ELSE {"open", "gone"}
    [] conn[c].kind = "event"  -> {"open"}
    [] conn[c].kind = "close"  -> {"gone"}

(* The handler is thrown away with whatever it still holds.                 *)
AfterCallback(c, life) ==
  IF life = "gone" THEN [Gone EXCEPT !.held = conn[c].held, !.queued = conn[c].queued]
  ELSE [conn[c] EXCEPT !.life = "open", !.at = "idle", !.by = Nil, !.failed = FALSE]

(* A fault: the deferred function is set up after the session variables.    *)
finishRule(c) ==
  /\ conn[c].at = "finish"
  /\ \E life \in Outcome(c) :
       conn' = [conn EXCEPT ![c] =
         [AfterCallback(c, life) EXCEPT !.held = IF conn[c].part = "init" THEN @ ELSE 0]]
  /\ UNCHANGED up

(* The deferred function returns the clients to the pool.                   *)
finish(c) ==
  /\ conn[c].at = "finish"
  /\ \E life \in Outcome(c) :
       conn' = [conn EXCEPT ![c] = [AfterCallback(c, life) EXCEPT !.held = 0]]
  /\ UNCHANGED up

----------------------------------------------------------------------------
ConnNext(c) ==
  \/ onAccept(c) \/ onEvent(c) \/ onClose(c)
  \/ ConnClose(c) \/ GetHttpClient(c) \/ Emit(c)
  \/ ScriptPanics(c) \/ ScriptEnds(c) \/ ScriptFails(c)
  \/ Drain(c) \/ InitOk(c) \/ RuleOk(c) \/ WriteErr(c) \/ finish(c)

(* Administration goes on under the connections.                            *)
AdminNext ==
  /\ Next
  /\ conn' = IF slot' = slot THEN conn ELSE [c \in Conn |-> [conn[c] EXCEPT !.greeted = Nil]]
  /\ UNCHANGED up

(* The process ended.                                                       *)
Down == ~up /\ UNCHANGED <<vars, connVars>>

RedisInit == Init /\ ConnInit

RedisNext ==
  \/ up /\ AdminNext
  \/ up /\ (\E c \in Conn : ConnNext(c)) /\ UNCHANGED vars
  \/ Down

RedisSpec == RedisInit /\ [][RedisNext]_<<vars, connVars>>

----------------------------------------------------------------------------
(* Ranges of the variables of both parts.                                   *)
SessionTypeOK == TypeOK /\ conn \in [Conn -> ConnState] /\ up \in BOOLEAN

(* Whatever a callback's scripts and queued events did and however they     *)
(* ended, also when the connection is refused: between callbacks the        *)
(* handler, which is thrown away, holds no HTTP client and has no event     *)
(* left to handle.                                                          *)
NothingLeftBehind ==
  \A c \in Conn : conn[c].at = "idle" => conn[c].held = 0 /\ conn[c].queued = 0

(* Callbacks load the slot anew, yet unless it changed in between the       *)
(* virtual host that accepted a connection is the one that serves and       *)
(* closes it.                                                               *)
ServedByAccepter ==
  \A c \in Conn : conn[c].greeted # Nil /\ conn[c].at # "idle" => conn[c].by = conn[c].greeted
=============================================================================
