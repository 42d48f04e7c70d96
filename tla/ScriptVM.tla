------------------------------ MODULE ScriptVM ------------------------------
(***************************************************************************)
(* The virtual machine of the script language (pl/eval.go): one value      *)
(* stack with the saved frames of callers inside it, try handlers kept in  *)
(* the frames, and iterators that run on stacks of their own.              *)
(*                                                                         *)
(* A script calls native functions and iterators, which are Go functions   *)
(* that may enter the machine again: runRule, runSFunc and runSIter each   *)
(* call runP, the interpreter loop.  go is this stack of Go functions; an  *)
(* exception that no handler takes leaves runP as an error and is raised   *)
(* again, or not, by the Go function below.                                *)
(*                                                                         *)
(* Abstractions.  Values are Val, except booleans that say whether an      *)
(* iterator goes on and iterators themselves, which never leave their slot *)
(* (as values: what they point to is in the cell).  A closure is the name  *)
(* of its function: Modules create no two closures of one function at a    *)
(* time.  What a closure captures is left out, but for whether it is there *)
(* to be captured.  Errors have no text and no backtrace; program counters *)
(* that are only printed are not kept.                                     *)
(***************************************************************************)
EXTENDS Integers, Sequences, FiniteSets, SequencesExt, ScriptInstr

CONSTANTS
  Modules,    \* the modules: from names to programs, as ScriptCode compiles them
  MaxFrames,  \* bound: frames on one stack
  MaxGo,      \* bound: Go functions that run
  MaxConfig   \* bound: config scopes that are open

ASSUME ModulesAssumption == \A m \in Modules : "rule" \in DOMAIN m
ASSUME BoundsAssumption == {MaxFrames, MaxGo, MaxConfig} \subseteq Nat

VARIABLES
  module,  \* the module whose rule runs
  stack,   \* Evaluator.Stack
  frame,   \* Evaluator.curframe
  pc,      \* runP's pc
  go,      \* the Go functions that run, the innermost last
  config,  \* config scopes pushed and not popped, as Evaluator.Config counts them
  mode     \* "run", "throw": runP returned an error; how the rule ended

vars == <<module, stack, frame, pc, go, config, mode>>

-----------------------------------------------------------------------------
(* Cells, frames, programs. *)

Val == [k |-> "val"]
Flag(b) == [k |-> "flag", b |-> b]
Frame(f, next) == [k |-> "frame", fr |-> f, pc |-> next]

\* funcframe.markTop
TopFrame == [ftype |-> "top", farg |-> 0, framep |-> 0, prog |-> "", excep |-> <<>>, clo |-> ""]

\* scriptIter: where to resume, next, its stack and frame.  A native iterator
\* has no program.
Iterator(p, next) == [k |-> "iter", prog |-> p, pc |-> 0, next |-> next, stack |-> <<>>, fr |-> TopFrame]

Program(p) == module[p]
Instr == Program(frame.prog).code[pc + 1]
Interpreting == mode = "run" /\ Last(go).k # "native"
At(ops) == Interpreting /\ Instr.op \in ops

Top(n) == stack[Len(stack) - n]
Popped(n) == SubSeq(stack, 1, Len(stack) - n)
PopTo(n) == SubSeq(stack, 1, n)
Pushed(st, n) == st \o [i \in 1..n |-> Val]

\* prevfuncframe: the saved frame lies behind the arguments.
PrevPos(f) == f.framep + f.farg + 2
HasPrev(st, f) == PrevPos(f) <= Len(st) /\ st[PrevPos(f)].k = "frame"
Prev(st, f) == st[PrevPos(f)]

Frames(st) == Len(SelectSeq(st, LAMBDA c : c.k = "frame"))

\* prologue: the function and n arguments lie on st; next is where the saved
\* frame goes on.
Prologue(st, next, ftype, n, prog, closure) ==
  /\ Frames(st) < MaxFrames
  /\ stack' = Append(st, Frame(frame, next))
  /\ frame' = [ftype |-> ftype, farg |-> n, framep |-> Len(st) - 1 - n, prog |-> prog,
               excep |-> <<>>, clo |-> closure]

\* The machine, or a native function, calls a Go function.
Enter(gos, act) == Len(gos) < MaxGo /\ go' = Append(gos, act)

\* A failed must: the goroutine panics.
Panic == mode' = "panic" /\ UNCHANGED <<module, config, stack, frame, pc, go>>

Next1 == pc' = pc + 1 /\ UNCHANGED <<module, config, frame, go, mode>>
Throw == mode' = "throw" /\ UNCHANGED <<module, config, frame, pc>>

-----------------------------------------------------------------------------
(* Instructions that only work on the stack, config scopes, jumps and       *)
(* handlers.                                                                *)

\* Instructions that may return an error before they do anything that lasts,
\* and VCall of a value that is not known to be a script function.
Failing ==
  {"LoadVar", "LoadSession", "LoadGlobal", "Bin", "Negate", "Index", "IndexSet", "Dot", "DotSet",
   "LoadMethod", "ToStr", "Template", "StoreVar", "StoreSession", "StoreGlobal", "SetGlobal",
   "Action", "NewIterator", "ConfigPush", "ConfigPop", "ConfigPropertySet", "ConfigCommand"}

DoPlain ==
  /\ Interpreting /\ (Instr.op = "NewClosure" => Program(Instr.f).kind = "fn")
  /\ \E i \in PlainInstr(Instr.arg) :
       /\ i.op = Instr.op
       /\ IF Len(stack) < i.pops THEN Panic
          ELSE stack' = Pushed(Popped(i.pops), i.pushes) /\ Next1

\* A key of a map literal that the script computes must be a string.
MapKeyFails ==
  /\ At({"AddMap"}) /\ Instr.f = "computed"
  /\ Panic

InstrFails ==
  /\ At(Failing) \/ (At({"VCall"}) /\ Instr.f = "")
  /\ Throw
  /\ UNCHANGED <<stack, go>>

\* Upvalues are with the closure of the frame: a frame without one panics, and
\* the frame of an iterator has none, although the iterator captures them.
Upvalue ==
  /\ At({"LoadUpvalue", "StoreUpvalue"})
  /\ IF frame.clo = "" THEN Panic
     ELSE stack' = (IF Instr.op = "LoadUpvalue" THEN Append(stack, Val) ELSE Popped(1)) /\ Next1

\* A closure or an iterator that captures a variable from beyond an iterator.
CaptureFails ==
  /\ At({"NewClosure", "LoadIterator"})
  /\ Program(frame.prog).kind = "iter" /\ NeedsClosure(module, Instr.f)
  /\ Panic

\* Evaluator.Config, which builds the configuration, sees scopes begin and end.
ConfigPush ==
  /\ At({"ConfigPush"}) /\ config < MaxConfig
  /\ config' = config + 1 /\ pc' = pc + 1
  /\ UNCHANGED <<module, stack, frame, go, mode>>

ConfigPop ==
  /\ At({"ConfigPop"})
  /\ config' = config - 1 /\ pc' = pc + 1
  /\ UNCHANGED <<module, stack, frame, go, mode>>

\* A condition: a flag is known, any other value may be true or false.
Holds(cell, b) == IF cell.k = "flag" THEN cell.b = b ELSE TRUE

\* Jump, Jfalse, Jtrue; And and Or keep the value they jump with; Ternary
\* keeps the value below the condition if it jumps.
DoJump ==
  /\ At({"Jump", "Jfalse", "Jtrue", "And", "Or", "Ternary"})
  /\ \E jumps \in BOOLEAN :
       /\ CASE Instr.op = "Jump" -> jumps /\ stack' = stack
            [] Instr.op = "Jfalse" -> Holds(Top(0), ~jumps) /\ stack' = Popped(1)
            [] Instr.op = "Jtrue" -> Holds(Top(0), jumps) /\ stack' = Popped(1)
            [] Instr.op = "And" -> Holds(Top(0), ~jumps) /\ stack' = Popped(IF jumps THEN 0 ELSE 1)
            [] Instr.op = "Or" -> Holds(Top(0), jumps) /\ stack' = Popped(IF jumps THEN 0 ELSE 1)
            [] Instr.op = "Ternary" -> Holds(Top(0), jumps) /\ stack' = Popped(IF jumps THEN 1 ELSE 2)
       /\ pc' = IF jumps THEN Instr.arg ELSE pc + 1
  /\ UNCHANGED <<module, config, frame, go, mode>>

PushException ==
  /\ At({"PushException"})
  /\ frame' = [frame EXCEPT !.excep = Append(@, [pc |-> Instr.arg, size |-> Len(stack)])]
  /\ pc' = pc + 1
  /\ UNCHANGED <<module, config, stack, go, mode>>

PopException ==
  /\ At({"PopException"})
  /\ IF frame.excep = <<>> THEN Panic
     ELSE /\ frame' = [frame EXCEPT !.excep = Front(@)]
          /\ pc' = Instr.arg
          /\ UNCHANGED <<module, config, stack, go, mode>>

-----------------------------------------------------------------------------
(* Calls.  A native function has the frame it runs on; cb is the closure    *)
(* among its arguments, called whether it called it already, and from       *)
(* whether the machine called it or another native function (runNFunc).     *)

Native(cb, from) == [k |-> "native", cb |-> cb, called |-> FALSE, from |-> from]

\* bcSCall, and bcVCall of a script closure.  A function that is called by name
\* must need no closure.
CallScript ==
  /\ At({"SCall", "VCall"}) /\ Instr.f # ""
  /\ LET n == Instr.arg
     IN IF Instr.op = "SCall" /\ NeedsClosure(module, Instr.f) THEN Panic
        ELSE /\ Prologue(stack, pc + 1, IF Instr.op = "SCall" THEN "script" ELSE "sfunc", n, Instr.f,
                         IF Instr.op = "SCall" THEN "" ELSE Instr.f)
             /\ IF n = Program(Instr.f).args THEN mode' = mode /\ pc' = 0
                ELSE mode' = "throw" /\ pc' = pc
             /\ UNCHANGED <<module, config, go>>

\* bcICall, bcVCall of a native function or of a method, and bcMCall
CallNative ==
  /\ At({"ICall", "MCall"}) \/ (At({"VCall"}) /\ Instr.f = "")
  /\ Prologue(stack, pc + 1, IF Instr.op = "ICall" THEN "intrinsic" ELSE "method", Instr.arg, "", "")
  /\ Enter(go, Native(Instr.f, "vm"))
  /\ UNCHANGED <<module, config, pc, mode>>

InNative == mode = "run" /\ Last(go).k = "native"

\* Closure.Call of a script closure: runSFunc.  It refuses a wrong number of
\* arguments, which the native function sees as an error.
NativeCalls ==
  /\ InNative
  /\ Last(go).cb # "" /\ ~Last(go).called
  /\ LET n == Program(Last(go).cb).args
     IN Prologue(Pushed(stack, 1 + n), 0, "sfunc", n, Last(go).cb, Last(go).cb)
  /\ Enter([go EXCEPT ![Len(go)].called = TRUE], [k |-> "sfunc", clo |-> Last(go).cb])
  /\ pc' = 0
  /\ UNCHANGED <<module, config, mode>>

\* Closure.Call of the native function that bind made of it: runNFunc.
NativeCallsBound ==
  /\ InNative
  /\ Last(go).cb # "" /\ ~Last(go).called /\ Last(go).from = "vm"
  /\ Prologue(Pushed(stack, 1), 0, "nfunc", 0, "", "")
  /\ Enter([go EXCEPT ![Len(go)].called = TRUE], Native(Last(go).cb, "native"))
  /\ UNCHANGED <<module, config, pc, mode>>

\* The native function is done and its frame ends (epilogue).  Called by the
\* machine, it leaves its result and runP goes on; runNFunc pops the result.
NativeReturns ==
  /\ InNative
  /\ IF ~HasPrev(stack, frame) THEN Panic
     ELSE /\ frame' = Prev(stack, frame).fr
          /\ go' = Front(go)
          /\ IF Last(go).from = "native"
             THEN stack' = PopTo(frame.framep) /\ UNCHANGED <<pc, mode>>
             ELSE /\ stack' = Append(PopTo(frame.framep), Val)
                  /\ IF Prev(stack, frame).fr.prog = "" THEN mode' = "panic" /\ pc' = pc
                     ELSE mode' = mode /\ pc' = Prev(stack, frame).pc
          /\ UNCHANGED <<module, config>>

\* It returns an error: runP returns it too.
NativeFails ==
  /\ InNative
  /\ Last(go).from = "vm"
  /\ go' = Front(go)
  /\ Throw
  /\ UNCHANGED stack

-----------------------------------------------------------------------------
(* Iterators.  A running script iterator has the stack to itself; what was  *)
(* the stack is kept by runSIter, with the position of the iterator in it.  *)

NewIterator ==
  /\ At({"NewIterator"})
  /\ \E more \in BOOLEAN : stack' = Append(Popped(1), Iterator("", more))
  /\ Next1

LoadIterator ==
  /\ At({"LoadIterator"})
  /\ Program(Instr.f).kind = "iter"
  /\ stack' = Append(stack, Iterator(Instr.f, FALSE))
  /\ Next1

\* The function named is no iterator, or the other way round.
LoadRefused ==
  /\ \/ At({"LoadIterator"}) /\ Program(Instr.f).kind # "iter"
     \/ At({"NewClosure"}) /\ Program(Instr.f).kind # "fn"
  /\ Throw
  /\ UNCHANGED <<stack, go>>

\* scriptIter.SetUp: runSIter.  LoadIterator left an iterator below the
\* arguments.
SetUpIterator ==
  /\ At({"SetUpIterator"})
  /\ LET n == Instr.arg
         it == Top(n)
     IN /\ it.k = "iter"
        /\ Prologue(Pushed(it.stack, 1 + n), 0, "siter", n, it.prog, "")
        /\ Enter(go, [k |-> "siter", at |-> Len(stack) - n, outer |-> stack, pc |-> pc, setup |-> TRUE])
        /\ pc' = it.pc
  /\ UNCHANGED <<module, config, mode>>

HasIterator ==
  /\ At({"HasIterator"})
  /\ IF Top(0).k # "iter" THEN Panic
     ELSE stack' = Append(stack, Flag(Top(0).next)) /\ Next1

\* What a call returned may also be an iterator, as a value.
HasCalledIterator ==
  /\ At({"HasIterator"})
  /\ Top(0).k # "iter"
  /\ \E more \in BOOLEAN : stack' = Popped(1) \o <<Iterator("", more), Flag(more)>>
  /\ Next1

DerefIterator ==
  /\ At({"DerefIterator"})
  /\ IF Top(0).k # "iter" THEN Panic
     ELSE Top(0).next /\ stack' = Pushed(stack, 2) /\ Next1

\* out of bound, or the value of the last yield is no pair
DerefFails ==
  /\ At({"DerefIterator"})
  /\ Top(0).k = "iter"
  /\ Throw
  /\ UNCHANGED <<stack, go>>

\* Next of a native iterator
NextNative ==
  /\ At({"NextIterator"})
  /\ IF Top(0).k # "iter" THEN Panic
     ELSE /\ Top(0).prog = ""
          /\ \E more \in BOOLEAN : stack' = Popped(1) \o <<Iterator("", more), Flag(more)>>
          /\ Next1

\* scriptIter.Next: resumeSIter puts the current frame in the place of the one
\* that was saved.
ResumeIterator ==
  /\ At({"NextIterator"})
  /\ LET it == Top(0)
     IN /\ it.k = "iter" /\ it.prog # ""
        /\ IF ~HasPrev(it.stack, it.fr) THEN Panic
           ELSE /\ stack' = [it.stack EXCEPT ![PrevPos(it.fr)] = Frame(frame, 0)]
                /\ frame' = it.fr
                /\ pc' = it.pc
                /\ Enter(go, [k |-> "siter", at |-> Len(stack), outer |-> stack, pc |-> pc, setup |-> FALSE])
                /\ UNCHANGED <<module, config, mode>>

\* Back in runP of the caller: the iterator is in its slot again, SetUp popped
\* its arguments, Next pushed what it returned.
BackFrom(act, it) ==
  LET st == Append(SubSeq(act.outer, 1, act.at - 1), it)
  IN /\ stack' = IF act.setup THEN st ELSE Append(st, Flag(it.next))
     /\ pc' = act.pc + 1
     /\ go' = Front(go)
     /\ UNCHANGED <<module, config, mode>>

\* A fault: the value stays on the iterator's stack.
YieldKeeps ==
  /\ At({"Yield"})
  /\ LET act == Last(go)
         it == [act.outer[act.at] EXCEPT !.pc = pc + 1, !.next = TRUE, !.stack = stack, !.fr = frame]
     IN frame' = Prev(stack, frame).fr /\ BackFrom(act, it)

\* runSIterRest keeps the iterator's frame and restores the caller's.
Yield ==
  /\ At({"Yield"})
  /\ IF Last(go).k # "siter" \/ ~HasPrev(Popped(1), frame) THEN Panic
     ELSE LET act == Last(go)
              it == [act.outer[act.at] EXCEPT !.pc = pc + 1, !.next = TRUE, !.stack = Popped(1), !.fr = frame]
          IN frame' = Prev(stack, frame).fr /\ BackFrom(act, it)

-----------------------------------------------------------------------------
(* Return and the end of runP. *)

\* bcReturn: the epilogue, and on with the caller if it is a script and this
\* was no iterator; otherwise runP is done.
ReturnToScript ==
  /\ At({"Return"})
  /\ HasPrev(stack, frame) /\ Prev(stack, frame).fr.prog # "" /\ frame.ftype # "siter"
  /\ stack' = Append(PopTo(frame.framep), Val)
  /\ frame' = Prev(stack, frame).fr
  /\ pc' = Prev(stack, frame).pc
  /\ UNCHANGED <<module, config, go, mode>>

\* The end of a rule, of a callback (its value stays on the stack of the
\* native function) and of an iterator, whichever called runP.
Done(f, st) ==
  /\ frame' = f
  /\ LET act == Last(go)
     IN CASE act.k = "rule" -> stack' = st /\ mode' = "done" /\ UNCHANGED <<module, config, pc, go>>
          [] act.k = "sfunc" -> stack' = Append(st, Val) /\ go' = Front(go) /\ UNCHANGED <<module, config, pc, mode>>
          [] act.k = "siter" ->
               BackFrom(act, [act.outer[act.at] EXCEPT !.pc = 0, !.next = FALSE, !.stack = st])

ReturnToGo ==
  /\ At({"Return"})
  /\ IF ~HasPrev(stack, frame) THEN Panic
     ELSE /\ Prev(stack, frame).fr.prog = "" \/ frame.ftype = "siter"
          /\ Done(Prev(stack, frame).fr, PopTo(frame.framep))

Halt ==
  /\ At({"Halt"})
  /\ Done(frame, stack)

-----------------------------------------------------------------------------
(* Exceptions.  unwindForExcep looks at one frame after the other: the      *)
(* breaker of the Go function that runs, a handler of the frame, the next.  *)

Breaks(act) == CASE act.k = "rule" -> FALSE
                 [] act.k = "sfunc" -> frame.clo = act.clo
                 [] act.k = "siter" -> frame.ftype = "siter"

Unwinding == mode = "throw" /\ frame.ftype # "top" /\ ~Breaks(Last(go))
HasHandler == frame.excep # <<>> /\ frame.prog # "" /\ frame.ftype # "siter"

\* A fault: the handler stays.
CatchKept ==
  /\ Unwinding /\ HasHandler
  /\ stack' = PopTo(Last(frame.excep).size)
  /\ pc' = Last(frame.excep).pc
  /\ mode' = "run"
  /\ UNCHANGED <<module, config, frame, go>>

Catch ==
  /\ Unwinding /\ HasHandler
  /\ LET x == Last(frame.excep)
     IN IF Len(stack) < x.size THEN Panic
        ELSE /\ stack' = PopTo(x.size)
             /\ pc' = x.pc
             /\ frame' = [frame EXCEPT !.excep = Front(@)]
             /\ mode' = "run"
             /\ UNCHANGED <<module, config, go>>

Unwind ==
  /\ Unwinding /\ ~HasHandler
  /\ IF ~HasPrev(stack, frame) THEN Panic
     ELSE /\ frame' = Prev(stack, frame).fr
          /\ stack' = PopTo(frame.framep)
          /\ UNCHANGED <<module, config, pc, go, mode>>

\* runRule returns the error.
RuleFails ==
  /\ mode = "throw" /\ Last(go).k = "rule" /\ frame.ftype = "top"
  /\ mode' = "failed"
  /\ UNCHANGED <<module, config, stack, frame, pc, go>>

\* A fault: the frame of the callback stays.
CallbackFailsKept ==
  /\ mode = "throw" /\ Last(go).k = "sfunc" /\ (frame.ftype = "top" \/ Breaks(Last(go)))
  /\ go' = Front(go)
  /\ mode' = "run"
  /\ UNCHANGED <<module, config, stack, frame, pc>>

\* runSFunc pops the frame and returns the error to the native function.
CallbackFails ==
  /\ mode = "throw" /\ Last(go).k = "sfunc" /\ (frame.ftype = "top" \/ Breaks(Last(go)))
  /\ IF ~HasPrev(stack, frame) THEN Panic
     ELSE /\ frame' = Prev(stack, frame).fr
          /\ stack' = PopTo(frame.framep)
          /\ go' = Front(go)
          /\ mode' = "run"
          /\ UNCHANGED <<module, config, pc>>

\* runSIter restores the caller's stack and frame, whose runP returns the
\* error of SetUp or Next in turn.
IteratorFails ==
  /\ mode = "throw" /\ Last(go).k = "siter" /\ (frame.ftype = "top" \/ Breaks(Last(go)))
  /\ IF ~HasPrev(stack, frame) THEN Panic
     ELSE /\ frame' = Prev(stack, frame).fr
          /\ stack' = [Last(go).outer EXCEPT ![Last(go).at].next = FALSE, ![Last(go).at].pc = pc,
                                             ![Last(go).at].stack = stack, ![Last(go).at].fr = frame]
          /\ pc' = Last(go).pc
          /\ go' = Front(go)
          /\ UNCHANGED <<module, config, mode>>

-----------------------------------------------------------------------------
\* runRule: a null and the event, a frame, pc 0.
Init ==
  /\ module \in Modules
  /\ stack = <<Val, Val, Frame(TopFrame, 1)>>
  /\ frame = [ftype |-> "rule", farg |-> 1, framep |-> 0, prog |-> "rule", excep |-> <<>>, clo |-> ""]
  /\ pc = 0
  /\ go = <<[k |-> "rule"]>>
  /\ config = 0
  /\ mode = "run"

Next ==
  \/ DoPlain \/ MapKeyFails \/ InstrFails \/ Upvalue \/ CaptureFails \/ ConfigPush \/ ConfigPop \/ DoJump \/ PushException \/ PopException
  \/ CallScript \/ CallNative \/ NativeCalls \/ NativeCallsBound \/ NativeReturns \/ NativeFails
  \/ NewIterator \/ LoadIterator \/ LoadRefused \/ SetUpIterator \/ HasIterator \/ HasCalledIterator
  \/ DerefIterator \/ DerefFails \/ NextNative \/ ResumeIterator \/ Yield
  \/ ReturnToScript \/ ReturnToGo \/ Halt
  \/ Catch \/ Unwind \/ RuleFails \/ CallbackFails \/ IteratorFails

Spec == Init /\ [][Next]_vars

-----------------------------------------------------------------------------
(* Properties. *)

\* Cells that belong to a frame below its local variables.
Base(f) == f.framep + f.farg + 2

\* Wherever an instruction is executed, by whatever path, jump, exception,
\* return of a call or resumption of an iterator, the stack has the depth that
\* the parse function which emitted it relied on (pl/parser.go, pl/eval.go).
StackDiscipline == Interpreting => Len(stack) = Base(frame) + Instr.d

\* The handlers of a frame are those of the try blocks around the
\* instruction, innermost last, each with the depth of its try.
HandlersMatch ==
  Interpreting => frame.excep = [i \in DOMAIN Instr.h |->
                                   [pc |-> Instr.h[i].pc, size |-> Base(frame) + Instr.h[i].d]]

\* No jump and no handler of the rule leaves a config scope.
ScopesWhole(m) ==
  \A i \in 1 .. Len(m["rule"].code) :
    LET I == m["rule"].code[i]
    IN /\ I.h # <<>> => m["rule"].code[Last(I.h).pc + 1].c = I.c
       /\ I.op = "Jump" => m["rule"].code[I.arg + 1].c = I.c

\* In a config program the scopes around the instruction are open, so that no
\* property is set further out than it is written; and only these, so that it
\* is set where it is written, unless a break, or a try around a scope, leaves
\* one (pl/eval.go:1458, pl/parser.go:4307, 4083).
ConfigNested ==
  Interpreting /\ frame.prog = "rule" =>
    config >= Instr.c /\ (ScopesWhole(module) => config = Instr.c)

\* What a script can do to fail an assertion: a map literal with a key that is
\* no string (pl/eval.go:1080), a loop over iter f(...) where f is no name of an
\* iterator or function, which goes over whatever the call returned (1631), and
\* a variable from around an iterator in it (1282, 1271, 1601).
KnownFault ==
  \/ Instr.op = "AddMap" /\ Instr.f = "computed"
  \/ Instr.op = "HasIterator" /\ \A x \in Instr.its : x.d # Instr.d
  \/ /\ Program(frame.prog).kind = "iter"
     /\ Instr.op \in {"LoadUpvalue", "StoreUpvalue", "NewClosure", "LoadIterator"}

\* No other of the machine's must assertions fails, on the depth of the stack,
\* handlers, frames, iterators and closures, whatever a script does.
OnlyKnownPanics == mode = "panic" => Last(go).k # "native" /\ frame.prog # "" /\ KnownFault

\* An iterator in a slot that has a next value stands behind a yield, in its
\* own frame and at the depth of that yield: what happened on other stacks
\* since, calls, callbacks, other iterators and exceptions, did not touch it.
IteratorsSuspended ==
  \A i \in DOMAIN stack :
    LET it == stack[i]
    IN it.k = "iter" => \/ it.prog = "" \/ ~it.next
                        \/ LET instr == Program(it.prog).code[it.pc]
                           IN /\ instr.op = "Yield" /\ it.fr.prog = it.prog
                              /\ Len(it.stack) = Base(it.fr) + instr.d - 1

\* Native functions that run, and frames of native functions, on the current
\* stack: a callback that returns or fails leaves its caller's frame current.
NativesOnFrames ==
  LET entries == {i \in DOMAIN go : go[i].k = "siter"}
      running == {i \in DOMAIN go : go[i].k = "native" /\ \A j \in entries : j < i}
      isNative(f) == f.ftype \in {"nfunc", "intrinsic", "method"}
      saved == {i \in DOMAIN stack : stack[i].k = "frame" /\ isNative(stack[i].fr)}
  IN mode = "run" => Cardinality(running) = Cardinality(saved) + (IF isNative(frame) THEN 1 ELSE 0)

\* An exception that reaches a frame inside a try resumes at its else: the
\* machine unwinds until it finds an else block that can handle it
\* (doc/pl-cn.md:775, eval.go:1684).
ElseCatches ==
  [][mode = "throw" /\ frame.excep # <<>> => mode' = "run" /\ pc' = Last(frame.excep).pc]_vars
=============================================================================
