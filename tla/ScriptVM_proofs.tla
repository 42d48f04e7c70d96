--------------------------- MODULE ScriptVM_proofs ---------------------------
(***************************************************************************)
(* Proofs about ScriptVM, for all modules whose code is Verified and any   *)
(* number of frames and Go functions: the machine keeps the promises that  *)
(* ScriptVM states, whatever scripts do.                                   *)
(*                                                                         *)
(* What the machine will do depends on what lies deep in it: callers, of   *)
(* which each waits with a stack and Go functions of its own, and          *)
(* iterators in cells, whose stacks have cells in turn.  The invariant     *)
(* says what each of them keeps in terms of the next: there is a set G of  *)
(* cells and waiting callers that is closed under these steps, Closed, and *)
(* the machine is on top of one of its callers.                            *)
(***************************************************************************)
EXTENDS ScriptVM, ScriptVerifier, FiniteSetTheorems, TLAPS

NativeTypes == {"nfunc", "intrinsic", "method"}
ScriptTypes == {"rule", "script", "sfunc", "siter"}
ProgramNames(m) == DOMAIN m \cup {""}
Handler == [pc : Nat, size : Nat]
FrameRecords(m) ==
  [ftype : NativeTypes \cup ScriptTypes \cup {"top"}, farg : Nat, framep : Nat, prog : ProgramNames(m),
   excep : Seq(Handler), clo : ProgramNames(m)]

(* A slot holds the iterator that the code expects in it.                  *)
Keeps(x, is) ==
  /\ x.k = "iter"
  /\ is = "loaded" => x.prog # "" /\ x.stack = <<>> /\ x.pc = 0
  /\ is = "ready" => x.prog = "" \/ x.next

(* Of cf open config scopes, c are around the instruction of the rule.     *)
Opened(m, cf, c) == cf \in Int /\ cf >= c /\ (ScopesWhole(m) => cf = c)

(* The handlers of frame f are those around an instruction; frame f, with  *)
(* stack st and cf open config scopes, may execute the instruction at p.   *)
Handlers(f, h) == [i \in DOMAIN h |-> [pc |-> h[i].pc, size |-> Base(f) + h[i].d]]
InstrAt(m, f, p) == m[f.prog].code[p + 1]
Fits(m, cf, f, st, I) ==
  /\ Len(st) = Base(f) + I.d
  /\ f.excep = Handlers(f, I.h)
  /\ \A x \in I.its : Keeps(st[Base(f) + x.d], x.is)
  /\ f.prog = "rule" => Opened(m, cf, I.c)
Stands(m, cf, f, st, p) ==
  /\ f.prog \in DOMAIN m
  /\ p \in 0 .. Len(m[f.prog].code) - 1
  /\ Fits(m, cf, f, st, InstrAt(m, f, p))

(* The innermost handler of the frame can take over.                       *)
Catches(m, cf, f, st) ==
  f.excep # <<>> =>
    /\ Last(f.excep).size \in Base(f) .. Len(st)
    /\ Stands(m, cf, [f EXCEPT !.excep = Front(f.excep)], SubSeq(st, 1, Last(f.excep).size),
              Last(f.excep).pc)

(* The frame below is saved where f was entered, and none since.           *)
Sits(f, st, below) ==
  /\ PrevPos(f) \in DOMAIN st
  /\ st[PrevPos(f)].k = "frame" /\ st[PrevPos(f)].fr = below
  /\ \A i \in f.framep + 1 .. Len(st) : st[i].k = "frame" => i = PrevPos(f)
Alone(f, st) ==
  /\ PrevPos(f) \in DOMAIN st /\ st[PrevPos(f)].k = "frame"
  /\ \A i \in DOMAIN st : st[i].k = "frame" => i = PrevPos(f)

ScriptFrame(m, f) ==
  /\ f.ftype \in ScriptTypes /\ f.prog \in DOMAIN m
  /\ NeedsClosure(m, f.prog) => f.clo # "" \/ m[f.prog].kind = "iter"
NativeFrame(f) == f.ftype \in NativeTypes /\ f.prog = "" /\ f.excep = <<>> /\ f.clo = ""

(* What an iterator keeps.                                                 *)
IterFrame(m, f, p) ==
  /\ f.ftype = "siter" /\ f.clo = "" /\ f.prog = p
  /\ ScriptFrame(m, f) /\ m[p].kind = "iter"
Suspended(m, x) ==
  /\ x.pc > 0 /\ m[x.prog].code[x.pc].op = "Yield"
  /\ IterFrame(m, x.fr, x.prog)
  /\ Len(x.stack) = Base(x.fr) + m[x.prog].code[x.pc].d - 1
  /\ Stands(m, 0, x.fr, x.stack, x.pc)
  /\ Alone(x.fr, x.stack)
Sound(m, G, x) ==
  /\ x \in [k : {"iter"}, prog : ProgramNames(m), pc : Nat, next : BOOLEAN, stack : Seq(G),
            fr : FrameRecords(m)]
  /\ x.prog # "" => m[x.prog].kind = "iter"
  /\ x.prog # "" /\ x.next => Suspended(m, x)

(* NativesOnFrames, of one stack.                                          *)
Running(gos) ==
  {i \in DOMAIN gos : gos[i].k = "native" /\ \A j \in {j \in DOMAIN gos : gos[j].k = "siter"} : j < i}
Saved(st) == {i \in DOMAIN st : st[i].k = "frame" /\ st[i].fr.ftype \in NativeTypes}
Matched(gos, st, f) ==
  Cardinality(Running(gos)) = Cardinality(Saved(st)) + (IF f.ftype \in NativeTypes THEN 1 ELSE 0)

(* A caller that waits: its frame, stack and Go functions, the pc that it  *)
(* goes on at, the open config scopes, and its own caller.                 *)
Waiting(u, cf, f, st, p, gos) ==
  [k |-> "waiting", up |-> u, cf |-> cf, fr |-> f, st |-> st, pc |-> p, go |-> gos]
Nobody == [k |-> "nobody"]

(* It is a script, which goes on with a value, a native function, or a     *)
(* script at an instruction that runs an iterator.                         *)
ScriptWaits(m, c) ==
  /\ ScriptFrame(m, c.fr) /\ Last(c.go).k # "native"
  /\ Stands(m, c.cf, c.fr, Append(c.st, Val), c.pc) /\ Catches(m, c.cf, c.fr, c.st)
NativeWaits(c) == NativeFrame(c.fr) /\ Last(c.go).k = "native"
LoopWaits(m, c) ==
  /\ ScriptFrame(m, c.fr) /\ Last(c.go).k # "native"
  /\ Stands(m, c.cf, c.fr, c.st, c.pc)

(* How the frame f, on st, was entered from c, and the Go functions gos.   *)
OnTop(c, f, st) == f.framep = Len(c.st) /\ SubSeq(st, 1, f.framep) = c.st
Entered(c, gos, k) == Front(gos) = c.go /\ Last(gos).k = k

FromScript(m, c, f, st) == ScriptWaits(m, c) /\ OnTop(c, f, st) /\ st[PrevPos(f)].pc = c.pc
CalledScript(m, c, f, st, gos) ==
  /\ FromScript(m, c, f, st)
  /\ ScriptFrame(m, f) /\ f.ftype \in {"script", "sfunc"} /\ m[f.prog].kind = "fn"
  /\ f.clo \notin CalledBack(m)
  /\ gos = c.go
CalledNative(m, c, f, st, gos) ==
  /\ FromScript(m, c, f, st) /\ NativeFrame(f)
  /\ Entered(c, gos, "native") /\ Last(gos).from = "vm"
CalledBound(c, f, st, gos) ==
  /\ NativeWaits(c) /\ OnTop(c, f, st) /\ NativeFrame(f)
  /\ Entered(c, gos, "native") /\ Last(gos).from = "native"
CalledClosure(m, c, f, st, gos) ==
  /\ NativeWaits(c) /\ OnTop(c, f, st)
  /\ ScriptFrame(m, f) /\ f.ftype = "sfunc" /\ m[f.prog].kind = "fn"
  /\ Entered(c, gos, "sfunc") /\ Last(gos).clo = f.clo
Holder(m, c, a, name) ==
  /\ a.setup \in BOOLEAN
  /\ a.setup => InstrAt(m, c.fr, c.pc).op = "SetUpIterator" /\ a.at = Len(c.st) - InstrAt(m, c.fr, c.pc).arg
  /\ ~a.setup => InstrAt(m, c.fr, c.pc).op = "NextIterator" /\ a.at = Len(c.st)
  /\ a.at \in DOMAIN c.st /\ c.st[a.at].k = "iter" /\ c.st[a.at].prog = name
Iterating(m, c, f, st, gos) ==
  /\ LoopWaits(m, c) /\ Alone(f, st) /\ IterFrame(m, f, f.prog)
  /\ Entered(c, gos, "siter")
  /\ Last(gos).outer = c.st /\ Last(gos).pc = c.pc /\ Holder(m, c, Last(gos), f.prog)

Linked(m, c, f, st, gos) ==
  /\ Sits(f, st, c.fr) /\ f.prog # "rule"
  /\ \/ CalledScript(m, c, f, st, gos)
     \/ CalledNative(m, c, f, st, gos)
     \/ CalledBound(c, f, st, gos)
     \/ CalledClosure(m, c, f, st, gos)
     \/ Iterating(m, c, f, st, gos)
OfRule(m, f, st, gos) ==
  /\ Sits(f, st, TopFrame)
  /\ ScriptFrame(m, f) /\ f.ftype = "rule" /\ f.prog = "rule" /\ f.clo = "" /\ f.framep = 0
  /\ gos = <<[k |-> "rule"]>>

(* The frame f is on top of st, above the caller u.                        *)
NativeFunctions(m) == [k : {"native"}, cb : CalledBack(m) \cup {""}, called : BOOLEAN, from : {"vm", "native"}]
GoFunctions(m, G, gos) ==
  /\ gos \in Seq(G) /\ gos # <<>>
  /\ Last(gos).k \in {"rule", "native", "sfunc", "siter"}
  /\ Last(gos).k = "sfunc" => Last(gos).clo \in CalledBack(m)
  /\ Last(gos).k = "native" => Last(gos) \in NativeFunctions(m)
Caller(G, u, cf) == u \in G /\ u.k = "waiting" /\ u.cf = cf
Above(m, G, u, cf, f, st, gos) ==
  /\ f \in FrameRecords(m) /\ st \in Seq(G) /\ GoFunctions(m, G, gos)
  /\ Matched(gos, st, f)
  /\ \/ u = Nobody /\ OfRule(m, f, st, gos)
     \/ Caller(G, u, cf) /\ Linked(m, u, f, st, gos)

(* What is added to the set must itself be sound, with all of it.          *)
Fine(m, H, x) ==
  /\ x.k = "iter" => Sound(m, H, x)
  /\ x.k = "waiting" => Above(m, H, x.up, x.cf, x.fr, x.st, x.go)
Closed(m, G) ==
  /\ Val \in G /\ Flag(TRUE) \in G /\ Flag(FALSE) \in G
  /\ \A x \in G : Fine(m, G, x)

(* What goes on: a script executes instructions, an exception looks for a  *)
(* handler, a native function runs or has failed, no frame is left.        *)
Executes(m, G, u, cf, st, f, p, gos) ==
  /\ Above(m, G, u, cf, f, st, gos)
  /\ Last(gos).k # "native" /\ ScriptFrame(m, f) /\ Stands(m, cf, f, st, p)
Throws(m, G, u, cf, st, f, gos) ==
  /\ Above(m, G, u, cf, f, st, gos)
  /\ Last(gos).k # "native" /\ ScriptFrame(m, f) /\ Catches(m, cf, f, st)
RunsNative(m, G, u, cf, st, f, gos) ==
  /\ Above(m, G, u, cf, f, st, gos)
  /\ Last(gos).k = "native" /\ NativeFrame(f)
FailedNative(m, G, u, cf, st, f, gos) ==
  /\ Caller(G, u, cf) /\ f \in FrameRecords(m) /\ st \in Seq(G)
  /\ Sits(f, st, u.fr) /\ FromScript(m, u, f, st) /\ NativeFrame(f) /\ gos = u.go
NothingLeft(st, f, gos) == st = <<>> /\ f = TopFrame /\ gos = <<[k |-> "rule"]>>

Current(m, G, u, cf, md, st, f, p, gos) ==
  \/ md = "run" /\ Executes(m, G, u, cf, st, f, p, gos)
  \/ md = "run" /\ RunsNative(m, G, u, cf, st, f, gos)
  \/ md = "throw" /\ Throws(m, G, u, cf, st, f, gos)
  \/ md = "throw" /\ FailedNative(m, G, u, cf, st, f, gos)
  \/ md = "throw" /\ NothingLeft(st, f, gos)
  \/ md \in {"done", "failed"} /\ st \in Seq(G)

Machine(m, cf, md, st, f, p, gos) ==
  \E G, u : Closed(m, G) /\ p \in Nat /\ Current(m, G, u, cf, md, st, f, p, gos)

(* It panicked for a known reason.                                         *)
Stopped ==
  /\ mode = "panic" /\ OnlyKnownPanics
  /\ \E G : Closed(module, G) /\ stack \in Seq(G)

Works == module \in Modules /\ (Machine(module, config, mode, stack, frame, pc, go) \/ Stopped)
-----------------------------------------------------------------------------
(* Sequences.                                                              *)

LEMMA CutFacts ==
  ASSUME NEW G, NEW s \in Seq(G), NEW n \in 0 .. Len(s)
  PROVE  /\ SubSeq(s, 1, n) \in Seq(G) /\ Len(SubSeq(s, 1, n)) = n
         /\ \A i \in 1 .. n : SubSeq(s, 1, n)[i] = s[i]
OBVIOUS

(* Append, and what Last and Front give back of it.                        *)
LEMMA AppendFacts ==
  ASSUME NEW G, NEW s \in Seq(G), NEW x \in G
  PROVE  /\ Append(s, x) \in Seq(G) /\ Len(Append(s, x)) = Len(s) + 1 /\ Len(s) \in Nat
         /\ \A i \in 1 .. Len(s) : Append(s, x)[i] = s[i]
         /\ Append(s, x)[Len(s) + 1] = x
         /\ Append(s, x) # <<>> /\ Last(Append(s, x)) = x /\ Front(Append(s, x)) = s
<1>1. /\ Append(s, x) \in Seq(G) /\ Len(Append(s, x)) = Len(s) + 1 /\ Len(s) \in Nat
      /\ \A i \in 1 .. Len(s) : Append(s, x)[i] = s[i]
      /\ Append(s, x)[Len(s) + 1] = x
      /\ Append(s, x) # <<>>
  OBVIOUS
<1>2. Last(Append(s, x)) = x
  BY <1>1 DEF Last
<1>3. Front(Append(s, x)) = s
  BY <1>1 DEF Front
<1> QED
  BY <1>1, <1>2, <1>3

(* A sequence is its Front with its Last behind it.                        *)
LEMMA FrontFacts ==
  ASSUME NEW G, NEW s \in Seq(G), s # <<>>
  PROVE  /\ Front(s) \in Seq(G) /\ Len(Front(s)) = Len(s) - 1 /\ Len(s) \in Nat /\ Len(s) > 0
         /\ \A i \in 1 .. Len(s) - 1 : Front(s)[i] = s[i]
         /\ Last(s) \in G /\ Last(s) = s[Len(s)]
         /\ s = Append(Front(s), Last(s))
<1>1. Len(s) \in Nat /\ Len(s) > 0
  OBVIOUS
<1>2. /\ Front(s) \in Seq(G) /\ Len(Front(s)) = Len(s) - 1
      /\ \A i \in 1 .. Len(s) - 1 : Front(s)[i] = s[i]
  <2>1. Len(s) - 1 \in 0 .. Len(s)
    BY <1>1
  <2> QED
    BY <2>1, CutFacts DEF Front
<1>3. Last(s) \in G /\ Last(s) = s[Len(s)]
  BY <1>1 DEF Last
<1>4. s = Append(Front(s), Last(s))
  BY <1>1, <1>2, <1>3
<1> QED
  BY <1>1, <1>2, <1>3, <1>4

(* Sequences with the same elements are equal.                             *)
LEMMA SameSequence ==
  ASSUME NEW G, NEW s \in Seq(G), NEW t \in Seq(G), Len(s) = Len(t), \A i \in 1 .. Len(s) : s[i] = t[i]
  PROVE  s = t
OBVIOUS

(* Sequences that agree so far are cut to the same.                        *)
LEMMA CutOfSame ==
  ASSUME NEW G, NEW s \in Seq(G), NEW t \in Seq(G), NEW n \in 0 .. Len(s), n <= Len(t),
         \A i \in 1 .. n : s[i] = t[i]
  PROVE  SubSeq(s, 1, n) = SubSeq(t, 1, n)
<1>1. n \in 0 .. Len(t)
  OBVIOUS
<1>2. /\ SubSeq(s, 1, n) \in Seq(G) /\ Len(SubSeq(s, 1, n)) = n
      /\ \A i \in 1 .. n : SubSeq(s, 1, n)[i] = s[i]
  BY CutFacts
<1>3. /\ SubSeq(t, 1, n) \in Seq(G) /\ Len(SubSeq(t, 1, n)) = n
      /\ \A i \in 1 .. n : SubSeq(t, 1, n)[i] = t[i]
  BY <1>1, CutFacts
<1> QED
  BY <1>2, <1>3, SameSequence

(* Pushed values lie on top of what was there.                             *)
LEMMA PushedFacts ==
  ASSUME NEW G, NEW s \in Seq(G), Val \in G, NEW n \in Nat
  PROVE  /\ Pushed(s, n) \in Seq(G) /\ Len(Pushed(s, n)) = Len(s) + n /\ Len(s) \in Nat
         /\ \A i \in 1 .. Len(s) : Pushed(s, n)[i] = s[i]
         /\ \A i \in Len(s) + 1 .. Len(s) + n : Pushed(s, n)[i] = Val
<1> DEFINE v == [i \in 1 .. n |-> Val]
<1>1. v \in Seq(G) /\ Len(v) = n /\ \A i \in 1 .. n : v[i] = Val
  OBVIOUS
<1> HIDE DEF v
<1>2. /\ s \o v \in Seq(G) /\ Len(s \o v) = Len(s) + n /\ Len(s) \in Nat
      /\ \A i \in 1 .. Len(s) : (s \o v)[i] = s[i]
  BY <1>1
<1>3. \A i \in Len(s) + 1 .. Len(s) + n : (s \o v)[i] = Val
  BY <1>1
<1> QED
  BY <1>2, <1>3 DEF Pushed, v

(* The empty stack.                                                        *)
LEMMA NoCells ==
  ASSUME NEW G
  PROVE  <<>> \in Seq(G)
OBVIOUS

(* More cells to choose from.                                              *)
LEMMA MoreCells ==
  ASSUME NEW G, NEW H, G \subseteq H, NEW s \in Seq(G)
  PROVE  s \in Seq(H)
OBVIOUS

-----------------------------------------------------------------------------
(* Frames and handlers.                                                    *)

LEMMA FrameFacts ==
  ASSUME NEW m, NEW f \in FrameRecords(m)
  PROVE  /\ f.framep \in Nat /\ f.farg \in Nat /\ f.excep \in Seq(Handler)
         /\ Base(f) \in Nat /\ Base(f) = f.framep + f.farg + 2 /\ PrevPos(f) = Base(f)
         /\ f.prog \in ProgramNames(m) /\ f.clo \in ProgramNames(m)
BY DEF FrameRecords, Base, PrevPos

(* A frame with other handlers is otherwise the same frame.                *)
LEMMA OtherHandlers ==
  ASSUME NEW m, NEW f \in FrameRecords(m), NEW e \in Seq(Handler), NEW g, g = [f EXCEPT !.excep = e]
  PROVE  /\ g \in FrameRecords(m)
         /\ g.excep = e /\ g.ftype = f.ftype /\ g.farg = f.farg /\ g.framep = f.framep
         /\ g.prog = f.prog /\ g.clo = f.clo
         /\ Base(g) = Base(f) /\ PrevPos(g) = PrevPos(f)
         /\ \A h : Handlers(g, h) = Handlers(f, h)
         /\ \A p : InstrAt(m, g, p) = InstrAt(m, f, p)
         /\ ScriptFrame(m, f) => ScriptFrame(m, g)
<1>1. /\ g \in FrameRecords(m)
      /\ g.excep = e /\ g.ftype = f.ftype /\ g.farg = f.farg /\ g.framep = f.framep
      /\ g.prog = f.prog /\ g.clo = f.clo
  BY DEF FrameRecords
<1>2. Base(g) = Base(f) /\ PrevPos(g) = PrevPos(f)
  BY <1>1, Zenon DEF Base, PrevPos
<1>3. \A h : Handlers(g, h) = Handlers(f, h)
  BY <1>2, Zenon DEF Handlers
<1>4. \A p : InstrAt(m, g, p) = InstrAt(m, f, p)
  BY <1>1, Zenon DEF InstrAt
<1>5. ScriptFrame(m, f) => ScriptFrame(m, g)
  BY <1>1, Zenon DEF ScriptFrame
<1> QED
  BY <1>1, <1>2, <1>3, <1>4, <1>5

(* Frame handlers move as the try blocks around an instruction do.         *)
LEMMA HandlersFacts ==
  ASSUME NEW f, Base(f) \in Nat, NEW h \in Seq([pc : Nat, d : Nat])
  PROVE  /\ Handlers(f, h) \in Seq(Handler)
         /\ Handlers(f, h) = <<>> <=> h = <<>>
         /\ h # <<>> => /\ Last(h) \in [pc : Nat, d : Nat]
                        /\ Last(Handlers(f, h)) = [pc |-> Last(h).pc, size |-> Base(f) + Last(h).d]
                        /\ Front(Handlers(f, h)) = Handlers(f, Front(h))
         /\ \A x \in [pc : Nat, d : Nat] :
              Handlers(f, Append(h, x)) = Append(Handlers(f, h), [pc |-> x.pc, size |-> Base(f) + x.d])
<1> DEFINE D == [pc : Nat, d : Nat]
<1> DEFINE ex(x) == [pc |-> x.pc, size |-> Base(f) + x.d]
<1>1. \A x \in D : ex(x) \in Handler
  BY DEF Handler
<1>2. ASSUME NEW s \in Seq(D)
      PROVE  /\ Handlers(f, s) \in Seq(Handler) /\ Len(Handlers(f, s)) = Len(s) /\ Len(s) \in Nat
             /\ \A i \in 1 .. Len(s) : Handlers(f, s)[i] = ex(s[i])
  <2> HIDE DEF D
  <2>1. DOMAIN s = 1 .. Len(s) /\ Len(s) \in Nat /\ \A i \in 1 .. Len(s) : s[i] \in D
    OBVIOUS
  <2>2. Handlers(f, s) = [i \in 1 .. Len(s) |-> ex(s[i])]
    BY <2>1, Zenon DEF Handlers
  <2>3. \A i \in 1 .. Len(s) : ex(s[i]) \in Handler
    BY <1>1, <2>1, Zenon
  <2> HIDE DEF ex
  <2> QED
    BY <2>1, <2>2, <2>3
<1>3. Handlers(f, h) = <<>> <=> h = <<>>
  <2>1. Len(Handlers(f, h)) = Len(h) /\ Handlers(f, h) \in Seq(Handler) /\ h \in Seq(D)
    BY <1>2
  <2> HIDE DEF D
  <2> QED
    BY <2>1
<1>4. ASSUME h # <<>>
      PROVE  /\ Last(h) \in D /\ Last(Handlers(f, h)) = ex(Last(h))
             /\ Front(Handlers(f, h)) = Handlers(f, Front(h))
  <2> HIDE DEF D, ex
  <2>1. /\ Front(h) \in Seq(D) /\ Len(Front(h)) = Len(h) - 1 /\ Len(h) \in Nat /\ Len(h) > 0
        /\ \A i \in 1 .. Len(h) - 1 : Front(h)[i] = h[i]
        /\ Last(h) \in D /\ Last(h) = h[Len(h)]
    BY <1>4, FrontFacts DEF D
  <2> DEFINE t == Handlers(f, h)
  <2>2. t \in Seq(Handler) /\ Len(t) = Len(h) /\ \A i \in 1 .. Len(h) : t[i] = ex(h[i])
    BY <1>2 DEF D
  <2>3. t # <<>>
    BY <1>3, <1>4
  <2> HIDE DEF t
  <2>4. /\ Front(t) \in Seq(Handler) /\ Len(Front(t)) = Len(t) - 1
        /\ \A i \in 1 .. Len(t) - 1 : Front(t)[i] = t[i]
        /\ Last(t) = t[Len(t)]
    BY <2>2, <2>3, FrontFacts
  <2>5. /\ Handlers(f, Front(h)) \in Seq(Handler) /\ Len(Handlers(f, Front(h))) = Len(Front(h))
        /\ \A i \in 1 .. Len(Front(h)) : Handlers(f, Front(h))[i] = ex(Front(h)[i])
    BY <1>2, <2>1
  <2>6. Front(t) = Handlers(f, Front(h))
    <3>1. Len(Front(t)) = Len(Handlers(f, Front(h)))
      BY <2>1, <2>2, <2>4, <2>5
    <3>2. \A i \in 1 .. Len(Front(t)) : Front(t)[i] = Handlers(f, Front(h))[i]
      BY <2>1, <2>2, <2>4, <2>5
    <3> QED
      BY <2>4, <2>5, <3>1, <3>2, SameSequence
  <2>7. Last(t) = ex(Last(h))
    BY <2>1, <2>2, <2>4
  <2> QED
    BY <2>1, <2>6, <2>7 DEF t
<1>5. ASSUME NEW x \in D
      PROVE  Handlers(f, Append(h, x)) = Append(Handlers(f, h), ex(x))
  <2> HIDE DEF D, ex
  <2>1. h \in Seq(D) /\ ex(x) \in Handler
    BY <1>1, <1>5 DEF D
  <2>2. /\ Append(h, x) \in Seq(D) /\ Len(Append(h, x)) = Len(h) + 1 /\ Len(h) \in Nat
        /\ \A i \in 1 .. Len(h) : Append(h, x)[i] = h[i]
        /\ Append(h, x)[Len(h) + 1] = x
    BY <1>5, <2>1, AppendFacts
  <2> DEFINE t == Handlers(f, h)
             v == Handlers(f, Append(h, x))
  <2>3. t \in Seq(Handler) /\ Len(t) = Len(h) /\ \A i \in 1 .. Len(h) : t[i] = ex(h[i])
    BY <1>2, <2>1
  <2>4. /\ v \in Seq(Handler) /\ Len(v) = Len(h) + 1
        /\ \A i \in 1 .. Len(h) + 1 : v[i] = ex(Append(h, x)[i])
    BY <1>2, <2>2
  <2> HIDE DEF t, v
  <2>5. /\ Append(t, ex(x)) \in Seq(Handler) /\ Len(Append(t, ex(x))) = Len(t) + 1
        /\ \A i \in 1 .. Len(t) : Append(t, ex(x))[i] = t[i]
        /\ Append(t, ex(x))[Len(t) + 1] = ex(x)
    BY <2>1, <2>3, AppendFacts
  <2>6. \A i \in 1 .. Len(v) : v[i] = Append(t, ex(x))[i]
    BY <2>2, <2>3, <2>4, <2>5
  <2>7. v = Append(t, ex(x))
    BY <2>2, <2>3, <2>4, <2>5, <2>6, SameSequence
  <2> QED
    BY <2>7 DEF t, v
<1> QED
  BY <1>2, <1>3, <1>4, <1>5

-----------------------------------------------------------------------------
(* What the verifier says of the instruction that a frame stands at.       *)
LEMMA CodeFacts ==
  ASSUME NEW m, Verified(m), NEW cf, NEW f, NEW st, NEW p, Stands(m, cf, f, st, p)
  PROVE  /\ Flows(m, f.prog, m[f.prog].code, InstrAt(m, f, p), p)
         /\ Typed(InstrAt(m, f, p)) /\ Lands(m[f.prog].code, InstrAt(m, f, p))
         /\ Fits(m, cf, f, st, InstrAt(m, f, p))
         /\ p \in Nat /\ Len(m[f.prog].code) \in Nat /\ f.prog \in DOMAIN m
<1>1. f.prog \in DOMAIN m /\ p \in 0 .. Len(m[f.prog].code) - 1 /\ Fits(m, cf, f, st, InstrAt(m, f, p))
  BY Zenon DEF Stands
<1>2. /\ Len(m[f.prog].code) \in Nat
      /\ Flows(m, f.prog, m[f.prog].code, m[f.prog].code[p + 1], p)
  BY <1>1, Zenon DEF Verified
<1>3. p \in Nat
  BY <1>1, <1>2
<1> QED
  BY <1>1, <1>2, <1>3, Zenon DEF InstrAt, Flows

(* What frame f needs for an instruction that expects all this.            *)
Ready(m, cf, f, st, p, d, h, c, slots) ==
  /\ f.prog \in DOMAIN m /\ Expects(m[f.prog].code, p, d, h, c, slots)
  /\ Len(st) = Base(f) + d /\ f.excep = Handlers(f, h)
  /\ \A x \in slots : Keeps(st[Base(f) + x.d], x.is)
  /\ f.prog = "rule" => Opened(m, cf, c)

(* A frame stands where it is ready for what is expected.                  *)
LEMMA Reached ==
  ASSUME NEW m, NEW cf, NEW f, NEW st, NEW p, NEW d, NEW h, NEW c, NEW slots,
         Ready(m, cf, f, st, p, d, h, c, slots)
  PROVE  Stands(m, cf, f, st, p)
<1>1. /\ f.prog \in DOMAIN m /\ p \in 0 .. Len(m[f.prog].code) - 1
      /\ InstrAt(m, f, p).d = d /\ InstrAt(m, f, p).h = h /\ InstrAt(m, f, p).c = c
      /\ InstrAt(m, f, p).its \subseteq slots
  BY Zenon DEF Ready, Expects, InstrAt
<1>2. Fits(m, cf, f, st, InstrAt(m, f, p))
  <2>1. \A x \in InstrAt(m, f, p).its : x \in slots
    BY <1>1, Zenon
  <2>2. Len(st) = Base(f) + InstrAt(m, f, p).d /\ f.excep = Handlers(f, InstrAt(m, f, p).h)
    BY <1>1, Zenon DEF Ready
  <2> QED
    BY <1>1, <2>1, <2>2, Zenon DEF Ready, Fits
<1> QED
  BY <1>1, <1>2, Zenon DEF Stands

(* A jump or a handler leaves no more scopes open than it may.             *)
LEMMA ScopesLeft ==
  ASSUME NEW m, Verified(m), NEW cf, NEW f, NEW st, NEW p, Stands(m, cf, f, st, p),
         NEW q \in 0 .. Len(m[f.prog].code) - 1, Leaving(m[f.prog].code, InstrAt(m, f, p), q),
         \/ InstrAt(m, f, p).op = "Jump" /\ q = InstrAt(m, f, p).arg
         \/ InstrAt(m, f, p).h # <<>> /\ q = Last(InstrAt(m, f, p).h).pc
  PROVE  f.prog = "rule" => Opened(m, cf, m[f.prog].code[q + 1].c)
<1> DEFINE I == InstrAt(m, f, p)
           J == m[f.prog].code[q + 1]
<1>1. SUFFICES ASSUME f.prog = "rule" PROVE Opened(m, cf, J.c)
  OBVIOUS
<1>2. /\ Typed(I) /\ Fits(m, cf, f, st, I) /\ f.prog \in DOMAIN m /\ Len(m[f.prog].code) \in Nat
      /\ p \in 0 .. Len(m[f.prog].code) - 1
  BY CodeFacts, Zenon DEF Stands
<1>3. Typed(J)
  BY <1>2, Zenon DEF Verified, Flows
<1>4. I.c \in Int /\ J.c \in Int /\ J.c <= I.c
  BY <1>2, <1>3, Zenon DEF Typed, Leaving
<1>5. Opened(m, cf, I.c)
  BY <1>1, <1>2, Zenon DEF Fits
<1>6. ScopesWhole(m) => J.c = I.c
  <2>1. p + 1 \in 1 .. Len(m[f.prog].code)
    BY <1>2
  <2>2. I = m["rule"].code[p + 1] /\ J = m["rule"].code[q + 1] /\ f.prog = "rule"
    BY <1>1, Zenon DEF InstrAt
  <2> QED
    BY <2>1, <2>2, Zenon DEF ScopesWhole
<1> HIDE DEF I, J
<1>7. cf \in Int /\ cf >= J.c
  BY <1>4, <1>5 DEF Opened
<1> QED
  BY <1>5, <1>6, <1>7, Zenon DEF Opened

(* The handler around the instruction can take over from a stack of which  *)
(* the instruction touched no more than it may.                            *)
LEMMA Landing ==
  ASSUME NEW m, Verified(m), NEW G, NEW cf, NEW f \in FrameRecords(m), NEW st \in Seq(G), NEW p,
         Stands(m, cf, f, st, p),
         NEW n \in Nat, Takes(InstrAt(m, f, p), n),
         NEW su \in Seq(G), Len(st) - n <= Len(su), \A i \in 1 .. Len(st) - n : su[i] = st[i]
  PROVE  Catches(m, cf, f, su)
<1> DEFINE I == InstrAt(m, f, p)
           x == Last(I.h)
           size == Base(f) + x.d
           g == [f EXCEPT !.excep = Front(f.excep)]
           sv == SubSeq(su, 1, size)
<1>1. SUFFICES ASSUME f.excep # <<>>
               PROVE  /\ Last(f.excep).size \in Base(f) .. Len(su)
                      /\ Stands(m, cf, g, SubSeq(su, 1, Last(f.excep).size), Last(f.excep).pc)
  BY Zenon DEF Catches
<1>2. /\ Typed(I) /\ Lands(m[f.prog].code, I) /\ Fits(m, cf, f, st, I) /\ f.prog \in DOMAIN m
  BY CodeFacts, Zenon
<1>3. Base(f) \in Nat /\ f.excep \in Seq(Handler)
  BY FrameFacts
<1>4. I.d \in Nat /\ I.h \in Seq([pc : Nat, d : Nat]) /\ I.its \subseteq [d : 1 .. I.d, is : {"loaded", "set", "ready"}]
  BY <1>2, Zenon DEF Typed
<1>5. f.excep = Handlers(f, I.h) /\ Len(st) = Base(f) + I.d
  BY <1>2, Zenon DEF Fits
<1> HIDE DEF I
<1>6. /\ I.h # <<>> /\ x \in [pc : Nat, d : Nat]
      /\ Last(f.excep) = [pc |-> x.pc, size |-> Base(f) + x.d]
      /\ Front(f.excep) = Handlers(f, Front(I.h))
  BY <1>1, <1>3, <1>4, <1>5, HandlersFacts
<1>7. Last(f.excep).size = size /\ Last(f.excep).pc = x.pc /\ x.d \in Nat
  BY <1>6
<1> DEFINE c == m[f.prog].code[x.pc + 1].c
<1>8. /\ Expects(m[f.prog].code, x.pc, x.d, Front(I.h), c, Upto(I.its, x.d))
      /\ Leaving(m[f.prog].code, I, x.pc)
  BY <1>2, <1>6, Zenon DEF Lands
<1>9. x.d <= I.d - n
  BY <1>6, Zenon DEF Takes, I
<1>15. f.prog = "rule" => Opened(m, cf, c)
  <2>1. x.pc \in 0 .. Len(m[f.prog].code) - 1
    BY <1>8, Zenon DEF Expects
  <2> QED
    BY <1>6, <1>8, <2>1, ScopesLeft, Zenon DEF I
<1> HIDE DEF x, c
<1>10. size \in Base(f) .. Len(su) /\ size <= Len(st) - n /\ size \in 0 .. Len(su)
  BY <1>3, <1>4, <1>5, <1>7, <1>9
<1>11. Len(sv) = size /\ \A i \in 1 .. size : sv[i] = st[i]
  <2>1. Len(sv) = size /\ \A i \in 1 .. size : sv[i] = su[i]
    BY <1>10, CutFacts
  <2> QED
    BY <2>1, <1>10, <1>5, <1>4, <1>3
<1>12. Front(f.excep) \in Seq(Handler)
  BY <1>1, <1>3, FrontFacts
<1>13. /\ g.excep = Front(f.excep) /\ g.prog = f.prog /\ Base(g) = Base(f)
       /\ \A h : Handlers(g, h) = Handlers(f, h)
  BY <1>12, OtherHandlers
<1> HIDE DEF g, sv
<1>14. \A y \in Upto(I.its, x.d) : Keeps(sv[Base(f) + y.d], y.is)
  <2>1. SUFFICES ASSUME NEW y \in I.its, y.d <= x.d PROVE Keeps(sv[Base(f) + y.d], y.is)
    BY Zenon DEF Upto
  <2>2. y.d \in 1 .. I.d
    BY <1>4, <2>1
  <2>3. Base(f) + y.d \in 1 .. size
    BY <1>3, <1>4, <1>7, <2>1, <2>2
  <2>4. Keeps(st[Base(f) + y.d], y.is)
    BY <1>2, <2>1, Zenon DEF Fits
  <2> QED
    BY <1>11, <2>3, <2>4, Zenon
<1>16. Ready(m, cf, g, sv, x.pc, x.d, Front(I.h), c, Upto(I.its, x.d))
  BY <1>2, <1>6, <1>8, <1>11, <1>13, <1>14, <1>15, Zenon DEF Ready
<1>17. Stands(m, cf, g, sv, x.pc)
  BY <1>16, Reached, Zenon
<1> QED
  BY <1>7, <1>10, <1>17 DEF sv

-----------------------------------------------------------------------------
(* More cells and callers.                                                 *)
LEMMA MoreAbove ==
  ASSUME NEW m, NEW G, NEW H, G \subseteq H, NEW u, NEW cf, NEW f, NEW st, NEW gos,
         Above(m, G, u, cf, f, st, gos)
  PROVE  Above(m, H, u, cf, f, st, gos)
<1>1. st \in Seq(H) /\ gos \in Seq(H)
  BY MoreCells, Zenon DEF Above, GoFunctions
<1>2. GoFunctions(m, H, gos)
  BY <1>1, Zenon DEF Above, GoFunctions
<1>3. Caller(G, u, cf) => Caller(H, u, cf)
  BY Zenon DEF Caller
<1> QED
  BY <1>1, <1>2, <1>3, Zenon DEF Above

(* An iterator is sound among more cells.                                  *)
LEMMA MoreSound ==
  ASSUME NEW m, NEW G, NEW H, G \subseteq H, NEW x, Sound(m, G, x)
  PROVE  Sound(m, H, x)
<1> DEFINE P == ProgramNames(m)
           F == FrameRecords(m)
           SG == Seq(G)
           SH == Seq(H)
<1>1. SG \subseteq SH
  BY MoreCells, Zenon
<1>2. x \in [k : {"iter"}, prog : P, pc : Nat, next : BOOLEAN, stack : SG, fr : F]
  BY Zenon DEF Sound
<1> HIDE DEF P, F, SG, SH
<1>3. x \in [k : {"iter"}, prog : P, pc : Nat, next : BOOLEAN, stack : SH, fr : F]
  BY <1>1, <1>2
<1> QED
  BY <1>3, Zenon DEF Sound, P, F, SH

(* A closed set with fine additions is closed.                             *)
LEMMA StaysClosed ==
  ASSUME NEW m, NEW G, NEW H, Closed(m, G), G \subseteq H, \A x \in H \ G : Fine(m, H, x)
  PROVE  Closed(m, H)
<1>1. ASSUME NEW x \in H PROVE Fine(m, H, x)
  <2>1. CASE x \in G
    <3>1. Fine(m, G, x)
      BY <2>1, Zenon DEF Closed
    <3>2. x.k = "iter" => Sound(m, H, x)
      BY <3>1, MoreSound, Zenon DEF Fine
    <3>3. x.k = "waiting" => Above(m, H, x.up, x.cf, x.fr, x.st, x.go)
      BY <3>1, MoreAbove, Zenon DEF Fine
    <3> QED
      BY <3>2, <3>3, Zenon DEF Fine
  <2>2. CASE x \notin G
    BY <2>2, Zenon
  <2> QED
    BY <2>1, <2>2
<1>2. Val \in H /\ Flag(TRUE) \in H /\ Flag(FALSE) \in H
  BY Zenon DEF Closed
<1> QED
  BY <1>1, <1>2, Zenon DEF Closed

(* One cell more.                                                          *)
LEMMA OneMore ==
  ASSUME NEW m, NEW G, Closed(m, G), NEW x, Fine(m, G \cup {x}, x)
  PROVE  Closed(m, G \cup {x}) /\ G \subseteq G \cup {x} /\ x \in G \cup {x}
<1>1. G \subseteq G \cup {x} /\ x \in G \cup {x} /\ \A y \in (G \cup {x}) \ G : y = x
  BY Zenon
<1>2. \A y \in (G \cup {x}) \ G : Fine(m, G \cup {x}, y)
  BY <1>1, Zenon
<1> QED
  BY <1>1, <1>2, StaysClosed, Zenon

(* Cells and functions that say nothing of others.                         *)
LEMMA Inert ==
  ASSUME NEW m, NEW H, NEW x, x.k \notin {"iter", "waiting"}
  PROVE  Fine(m, H, x)
BY Zenon DEF Fine

(* Flags are cells.                                                        *)
LEMMA Flags ==
  ASSUME NEW m, NEW G, Closed(m, G), NEW b \in BOOLEAN
  PROVE  Flag(b) \in G /\ Flag(b).k # "frame" /\ Flag(b).k # "iter"
<1>1. b = TRUE \/ b = FALSE
  OBVIOUS
<1>2. Flag(b).k = "flag"
  BY DEF Flag
<1> QED
  BY <1>1, <1>2, Zenon DEF Closed

-----------------------------------------------------------------------------
(* A frame that goes on.  Of its stack n cells are replaced by k others,    *)
(* none of which is a frame.                                               *)
Changes(H, st, su, n, k) ==
  /\ su \in Seq(H) /\ n \in Nat /\ k \in Nat /\ n <= Len(st) /\ Len(su) = Len(st) - n + k
  /\ \A i \in 1 .. Len(st) - n : su[i] = st[i]
  /\ \A i \in Len(st) - n + 1 .. Len(su) : su[i].k # "frame"
SameCall(f, g) ==
  /\ g.ftype = f.ftype /\ g.farg = f.farg /\ g.framep = f.framep /\ g.prog = f.prog /\ g.clo = f.clo
  /\ NativeFrame(f) => g.excep = <<>>

(* What the verifier says of the next instruction, the frame finds there.  *)
LEMMA Advance ==
  ASSUME NEW m, Verified(m), NEW G, NEW H, NEW cf, NEW f \in FrameRecords(m), NEW st \in Seq(G), NEW p,
         Stands(m, cf, f, st, p),
         NEW q, NEW n, NEW k, NEW new, NEW su, Changes(H, st, su, n, k), n <= InstrAt(m, f, p).d,
         Goes(m[f.prog].code, InstrAt(m, f, p), q, n, k, new),
         \A x \in new : Keeps(su[Base(f) + x.d], x.is)
  PROVE  Stands(m, cf, f, su, q)
<1> DEFINE I == InstrAt(m, f, p)
           slots == Upto(I.its, I.d - n) \cup new
<1>1. Typed(I) /\ Fits(m, cf, f, st, I) /\ f.prog \in DOMAIN m
  BY CodeFacts, Zenon
<1>2. Base(f) \in Nat
  BY FrameFacts
<1>3. I.d \in Nat /\ I.its \subseteq [d : 1 .. I.d, is : {"loaded", "set", "ready"}]
  BY <1>1, Zenon DEF Typed
<1>4. /\ Len(st) = Base(f) + I.d /\ f.excep = Handlers(f, I.h)
      /\ \A x \in I.its : Keeps(st[Base(f) + x.d], x.is)
      /\ f.prog = "rule" => Opened(m, cf, I.c)
  BY <1>1, Zenon DEF Fits
<1>5. Expects(m[f.prog].code, q, I.d - n + k, I.h, I.c, slots)
  BY Zenon DEF Goes
<1>6. n \in Nat /\ k \in Nat /\ n <= I.d
  BY Zenon DEF Changes
<1>7. Len(su) = Len(st) - n + k /\ \A i \in 1 .. Len(st) - n : su[i] = st[i]
  BY Zenon DEF Changes
<1> HIDE DEF I
<1>8. Len(su) = Base(f) + (I.d - n + k)
  <2> HIDE DEF slots
  <2>1. Len(st) = Base(f) + I.d /\ Len(su) = Len(st) - n + k
    BY <1>4, <1>7, Zenon
  <2>2. I.d \in Nat
    BY <1>3, Zenon
  <2> HIDE DEF I
  <2>3. \A b \in Nat, d \in Nat : ((b + d) - n) + k = b + ((d - n) + k)
    BY <1>6
  <2>4. ((Base(f) + I.d) - n) + k = Base(f) + ((I.d - n) + k)
    BY <1>2, <2>2, <2>3, Zenon
  <2> QED
    BY <2>1, <2>4, Zenon
<1>9. \A x \in slots : Keeps(su[Base(f) + x.d], x.is)
  <2>1. SUFFICES ASSUME NEW x \in I.its, x.d <= I.d - n PROVE Keeps(su[Base(f) + x.d], x.is)
    BY Zenon DEF Upto
  <2>2. x.d \in 1 .. I.d
    BY <1>3, <2>1
  <2>3. Base(f) + x.d \in 1 .. Len(st) - n
    BY <1>2, <1>3, <1>4, <1>6, <2>1, <2>2
  <2> QED
    BY <1>4, <1>7, <2>1, <2>3, Zenon
<1>10. Ready(m, cf, f, su, q, I.d - n + k, I.h, I.c, slots)
  BY <1>1, <1>4, <1>5, <1>8, <1>9, Zenon DEF Ready
<1> QED
  BY <1>10, Reached, Zenon

LeftAlone(f, st, g, su) ==
  /\ PrevPos(g) = PrevPos(f) /\ su[PrevPos(f)] = st[PrevPos(f)]
  /\ g.framep = f.framep /\ SubSeq(su, 1, f.framep) = SubSeq(st, 1, f.framep)
  /\ Alone(f, st) => Alone(g, su)
  /\ Saved(su) = Saved(st)

(* A frame that changed only what is above its base sits where it sat.     *)
LEMMA SitsOn ==
  ASSUME NEW m, NEW G, NEW H, NEW f \in FrameRecords(m), NEW g \in FrameRecords(m), SameCall(f, g),
         NEW st \in Seq(G), NEW below, Sits(f, st, below),
         NEW su, NEW n, NEW k, Changes(H, st, su, n, k), Base(f) <= Len(st) - n
  PROVE  Sits(g, su, below) /\ LeftAlone(f, st, g, su)
<1> DEFINE P == PrevPos(f)
           l == Len(st) - n
<1>1. f.framep \in Nat /\ P \in Nat /\ P > f.framep /\ P = Base(f)
  <2>1. f.framep \in Nat /\ f.farg \in Nat /\ Base(f) = f.framep + f.farg + 2 /\ P = Base(f)
    BY FrameFacts
  <2> HIDE DEF P
  <2> QED
    BY <2>1
<1>2. g.framep = f.framep /\ PrevPos(g) = P
  BY DEF SameCall, PrevPos
<1>3. /\ su \in Seq(H) /\ Len(su) \in Nat /\ Len(st) \in Nat /\ l \in Nat /\ l <= Len(su) /\ l <= Len(st)
      /\ DOMAIN su = 1 .. Len(su) /\ DOMAIN st = 1 .. Len(st)
      /\ \A i \in 1 .. l : su[i] = st[i]
      /\ \A i \in l + 1 .. Len(su) : su[i].k # "frame"
  BY DEF Changes
<1>4. /\ P \in DOMAIN st /\ st[P].k = "frame" /\ st[P].fr = below
      /\ \A i \in f.framep + 1 .. Len(st) : st[i].k = "frame" => i = P
  BY Zenon DEF Sits
<1>5. P <= l
  BY <1>1
<1> HIDE DEF P, l
<1>6. P \in 1 .. l /\ P \in DOMAIN su /\ su[P] = st[P]
  BY <1>1, <1>3, <1>4, <1>5
<1>7. \A i \in DOMAIN su : su[i].k = "frame" => i \in 1 .. l
  BY <1>3
<1>8. \A i \in DOMAIN st : st[i].k = "frame" => i \in 1 .. l
  <2>1. SUFFICES ASSUME NEW i \in DOMAIN st, st[i].k = "frame", i > l PROVE FALSE
    BY <1>3
  <2>2. i \in f.framep + 1 .. Len(st)
    BY <1>1, <1>3, <1>5, <2>1
  <2>3. i = P
    BY <1>4, <2>1, <2>2
  <2> QED
    BY <1>1, <1>3, <1>5, <2>1, <2>3
<1>9. Sits(g, su, below)
  <2>1. \A i \in f.framep + 1 .. Len(su) : su[i].k = "frame" => i = P
    <3>1. SUFFICES ASSUME NEW i \in f.framep + 1 .. Len(su), su[i].k = "frame" PROVE i = P
      OBVIOUS
    <3>2. i \in DOMAIN su
      BY <1>1, <1>3, <3>1
    <3>3. i \in 1 .. l
      BY <1>7, <3>1, <3>2
    <3>4. st[i].k = "frame" /\ i \in f.framep + 1 .. Len(st)
      BY <1>1, <1>3, <3>1, <3>3
    <3> QED
      BY <1>4, <3>4
  <2> QED
    BY <1>2, <1>4, <1>6, <2>1, Zenon DEF Sits
<1>10. SubSeq(su, 1, f.framep) = SubSeq(st, 1, f.framep)
  <2>1. f.framep \in 0 .. Len(su) /\ f.framep <= Len(st)
    BY <1>1, <1>3, <1>5
  <2>2. \A i \in 1 .. f.framep : su[i] = st[i]
    BY <1>1, <1>3, <1>5
  <2>3. G \subseteq G \cup H /\ H \subseteq G \cup H
    OBVIOUS
  <2>4. su \in Seq(G \cup H) /\ st \in Seq(G \cup H)
    BY <1>3, <2>3, MoreCells
  <2> QED
    BY <2>1, <2>2, <2>4, CutOfSame
<1>11. Alone(f, st) => Alone(g, su)
  <2>1. SUFFICES ASSUME Alone(f, st), NEW i \in DOMAIN su, su[i].k = "frame" PROVE i = P
    BY <1>2, <1>4, <1>6, Zenon DEF Alone
  <2>2. i \in 1 .. l
    BY <1>7, <2>1
  <2>3. i \in DOMAIN st /\ st[i].k = "frame"
    BY <1>3, <2>1, <2>2
  <2> QED
    BY <2>1, <2>3, Zenon DEF Alone, P
<1>12. Saved(su) = Saved(st)
  <2>1. \A i \in 1 .. l : i \in DOMAIN su /\ i \in DOMAIN st /\ su[i] = st[i]
    BY <1>3
  <2> QED
    BY <1>7, <1>8, <2>1, Zenon DEF Saved
<1> QED
  BY <1>2, <1>6, <1>9, <1>10, <1>11, <1>12, Zenon DEF LeftAlone, P

(* However it entered, a frame goes on above its caller.                   *)
LEMMA LinkedOn ==
  ASSUME NEW m, NEW G, NEW H, NEW f \in FrameRecords(m), NEW g \in FrameRecords(m), SameCall(f, g),
         NEW st \in Seq(G), NEW c, NEW gos, Linked(m, c, f, st, gos),
         NEW su, NEW n, NEW k, Changes(H, st, su, n, k), Base(f) <= Len(st) - n
  PROVE  Linked(m, c, g, su, gos)
<1>1. Sits(f, st, c.fr) /\ f.prog # "rule"
  BY Zenon DEF Linked
<1>2. Sits(g, su, c.fr) /\ LeftAlone(f, st, g, su)
  BY <1>1, SitsOn, Zenon
<1>3. /\ g.ftype = f.ftype /\ g.framep = f.framep /\ g.prog = f.prog /\ g.clo = f.clo
      /\ NativeFrame(f) => NativeFrame(g)
  BY Zenon DEF SameCall, NativeFrame
<1>4. ScriptFrame(m, f) => ScriptFrame(m, g)
  BY <1>3, Zenon DEF ScriptFrame
<1>5. OnTop(c, f, st) => OnTop(c, g, su)
  BY <1>2, Zenon DEF LeftAlone, OnTop
<1>6. FromScript(m, c, f, st) => FromScript(m, c, g, su)
  BY <1>2, <1>5, Zenon DEF LeftAlone, FromScript
<1>7. CalledScript(m, c, f, st, gos) => CalledScript(m, c, g, su, gos)
  BY <1>3, <1>4, <1>6, Zenon DEF CalledScript
<1>8. CalledNative(m, c, f, st, gos) => CalledNative(m, c, g, su, gos)
  BY <1>3, <1>6, Zenon DEF CalledNative
<1>9. CalledBound(c, f, st, gos) => CalledBound(c, g, su, gos)
  BY <1>3, <1>5, Zenon DEF CalledBound
<1>10. CalledClosure(m, c, f, st, gos) => CalledClosure(m, c, g, su, gos)
  BY <1>3, <1>4, <1>5, Zenon DEF CalledClosure
<1>11. Iterating(m, c, f, st, gos) => Iterating(m, c, g, su, gos)
  <2>1. IterFrame(m, f, f.prog) => IterFrame(m, g, g.prog)
    BY <1>3, <1>4, Zenon DEF IterFrame
  <2> QED
    BY <1>2, <1>3, <2>1, Zenon DEF LeftAlone, Iterating
<1> QED
  BY <1>1, <1>2, <1>3, <1>7, <1>8, <1>9, <1>10, <1>11, Zenon DEF Linked

(* The same with callers among more cells.                                 *)
LEMMA Onward ==
  ASSUME NEW m, NEW G, NEW H, G \subseteq H, NEW u, NEW cf, NEW f, NEW st, NEW gos,
         Above(m, G, u, cf, f, st, gos),
         NEW g \in FrameRecords(m), SameCall(f, g),
         NEW su, NEW n, NEW k, Changes(H, st, su, n, k), Base(f) <= Len(st) - n
  PROVE  Above(m, H, u, cf, g, su, gos)
<1>1. f \in FrameRecords(m) /\ st \in Seq(G) /\ Matched(gos, st, f)
  BY Zenon DEF Above
<1>2. Above(m, H, u, cf, f, st, gos)
  BY MoreAbove, Zenon
<1>3. GoFunctions(m, H, gos)
  BY <1>2, Zenon DEF Above
<1>4. su \in Seq(H)
  BY Zenon DEF Changes
<1>5. g.ftype = f.ftype /\ g.framep = f.framep /\ g.prog = f.prog /\ g.clo = f.clo
  BY Zenon DEF SameCall
<1>6. ASSUME OfRule(m, f, st, gos) PROVE OfRule(m, g, su, gos) /\ LeftAlone(f, st, g, su)
  <2>1. Sits(f, st, TopFrame)
    BY <1>6, Zenon DEF OfRule
  <2>2. Sits(g, su, TopFrame) /\ LeftAlone(f, st, g, su)
    BY <1>1, <2>1, SitsOn, Zenon
  <2>3. ScriptFrame(m, g)
    BY <1>5, <1>6, Zenon DEF OfRule, ScriptFrame
  <2> QED
    BY <1>5, <1>6, <2>2, <2>3, Zenon DEF OfRule
<1>7. ASSUME Linked(m, u, f, st, gos) PROVE Linked(m, u, g, su, gos) /\ LeftAlone(f, st, g, su)
  <2>1. Sits(f, st, u.fr)
    BY <1>7, Zenon DEF Linked
  <2>2. LeftAlone(f, st, g, su)
    BY <1>1, <2>1, SitsOn, Zenon
  <2>3. Linked(m, u, g, su, gos)
    BY <1>1, <1>7, LinkedOn, Zenon
  <2> QED
    BY <2>2, <2>3
<1>8. \/ u = Nobody /\ OfRule(m, g, su, gos) /\ LeftAlone(f, st, g, su)
      \/ Caller(H, u, cf) /\ Linked(m, u, g, su, gos) /\ LeftAlone(f, st, g, su)
  BY <1>2, <1>6, <1>7, Zenon DEF Above
<1>9. Matched(gos, su, g)
  <2>1. Saved(su) = Saved(st)
    BY <1>8, Zenon DEF LeftAlone
  <2> QED
    BY <1>1, <1>5, <2>1, Zenon DEF Matched
<1> QED
  BY <1>3, <1>4, <1>8, <1>9, Zenon DEF Above

(* Handlers do not make another call of a frame.                           *)
LEMMA SameCalls ==
  ASSUME NEW m, NEW f \in FrameRecords(m)
  PROVE  /\ SameCall(f, f)
         /\ \A e \in Seq(Handler) : ScriptFrame(m, f) => SameCall(f, [f EXCEPT !.excep = e])
<1>1. SameCall(f, f)
  BY Zenon DEF SameCall, NativeFrame
<1>2. ASSUME NEW e \in Seq(Handler), ScriptFrame(m, f) PROVE SameCall(f, [f EXCEPT !.excep = e])
  <2> DEFINE g == [f EXCEPT !.excep = e]
  <2>1. g.ftype = f.ftype /\ g.farg = f.farg /\ g.framep = f.framep /\ g.prog = f.prog /\ g.clo = f.clo
    BY OtherHandlers
  <2>2. f.ftype \notin NativeTypes
    <3>1. f.ftype \in ScriptTypes
      BY <1>2, Zenon DEF ScriptFrame
    <3> QED
      BY <3>1 DEF ScriptTypes, NativeTypes
  <2> QED
    BY <2>1, <2>2, Zenon DEF SameCall, NativeFrame
<1> QED
  BY <1>1, <1>2

Passes(m, H, f, st, I, q, n, k, new, su) ==
  /\ Goes(m[f.prog].code, I, q, n, k, new) /\ n <= I.d
  /\ Changes(H, st, su, n, k)
  /\ \A x \in new : Keeps(su[Base(f) + x.d], x.is)

(* A script that passes an instruction executes the next one.              *)
LEMMA Steps ==
  ASSUME NEW m, Verified(m), NEW G, NEW H, G \subseteq H, NEW u, NEW cf, NEW f, NEW st, NEW p, NEW gos,
         Executes(m, G, u, cf, st, f, p, gos),
         NEW q, NEW n, NEW k, NEW new, NEW su, Passes(m, H, f, st, InstrAt(m, f, p), q, n, k, new, su)
  PROVE  Executes(m, H, u, cf, su, f, q, gos) /\ q \in Nat
<1>1. /\ Above(m, G, u, cf, f, st, gos) /\ Last(gos).k # "native" /\ ScriptFrame(m, f)
      /\ Stands(m, cf, f, st, p)
  BY Zenon DEF Executes
<1>2. f \in FrameRecords(m) /\ st \in Seq(G)
  BY <1>1, Zenon DEF Above
<1>3. /\ Goes(m[f.prog].code, InstrAt(m, f, p), q, n, k, new) /\ n <= InstrAt(m, f, p).d
      /\ Changes(H, st, su, n, k)
      /\ \A x \in new : Keeps(su[Base(f) + x.d], x.is)
  BY Zenon DEF Passes
<1>4. Stands(m, cf, f, su, q)
  BY <1>1, <1>2, <1>3, Advance, Zenon
<1>5. Base(f) <= Len(st) - n
  <2>1. Typed(InstrAt(m, f, p)) /\ Fits(m, cf, f, st, InstrAt(m, f, p))
    BY <1>1, CodeFacts, Zenon
  <2>2. InstrAt(m, f, p).d \in Nat /\ Len(st) = Base(f) + InstrAt(m, f, p).d
    BY <2>1, Zenon DEF Typed, Fits
  <2>3. Base(f) \in Nat /\ n \in Nat
    BY <1>2, <1>3, FrameFacts DEF Changes
  <2> QED
    BY <1>3, <2>2, <2>3
<1>6. SameCall(f, f)
  BY <1>2, SameCalls
<1>7. Above(m, H, u, cf, f, su, gos)
  BY <1>1, <1>2, <1>3, <1>5, <1>6, Onward, Zenon
<1>8. q \in Nat
  <2>1. q \in 0 .. Len(m[f.prog].code) - 1 /\ Len(m[f.prog].code) \in Nat
    BY <1>3, <1>1, CodeFacts, Zenon DEF Goes, Expects
  <2> QED
    BY <2>1
<1> QED
  BY <1>1, <1>4, <1>7, <1>8, Zenon DEF Executes

-----------------------------------------------------------------------------
(* Changes of a stack: none; n cells popped; a cell or values pushed.      *)
LEMMA NoChange ==
  ASSUME NEW G, NEW st \in Seq(G)
  PROVE  Changes(G, st, st, 0, 0)
<1>1. Len(st) \in Nat
  OBVIOUS
<1> QED
  BY <1>1 DEF Changes

LEMMA CutChange ==
  ASSUME NEW G, NEW st \in Seq(G), NEW n \in Nat, n <= Len(st)
  PROVE  Changes(G, st, SubSeq(st, 1, Len(st) - n), n, 0)
<1> DEFINE su == SubSeq(st, 1, Len(st) - n)
<1>1. Len(st) \in Nat /\ Len(st) - n \in 0 .. Len(st)
  OBVIOUS
<1>2. su \in Seq(G) /\ Len(su) = Len(st) - n /\ \A i \in 1 .. Len(st) - n : su[i] = st[i]
  BY <1>1, CutFacts
<1> HIDE DEF su
<1>3. \A i \in Len(st) - n + 1 .. Len(su) : su[i].k # "frame"
  BY <1>1, <1>2
<1>4. Len(su) = Len(st) - n + 0
  BY <1>1, <1>2
<1> QED
  BY <1>2, <1>3, <1>4, Zenon DEF Changes, su

LEMMA AppendChange ==
  ASSUME NEW G, NEW st \in Seq(G), NEW su, NEW n, NEW k, Changes(G, st, su, n, k),
         NEW x \in G, x.k # "frame"
  PROVE  Changes(G, st, Append(su, x), n, k + 1)
<1> DEFINE sv == Append(su, x)
<1>1. /\ su \in Seq(G) /\ n \in Nat /\ k \in Nat /\ n <= Len(st) /\ Len(su) = Len(st) - n + k
      /\ \A i \in 1 .. Len(st) - n : su[i] = st[i]
      /\ \A i \in Len(st) - n + 1 .. Len(su) : su[i].k # "frame"
  BY Zenon DEF Changes
<1>2. /\ sv \in Seq(G) /\ Len(sv) = Len(su) + 1 /\ Len(su) \in Nat
      /\ \A i \in 1 .. Len(su) : sv[i] = su[i]
      /\ sv[Len(su) + 1] = x
  BY <1>1, AppendFacts
<1> HIDE DEF sv
<1>3. Len(st) \in Nat
  OBVIOUS
<1>4. Len(sv) = Len(st) - n + (k + 1) /\ k + 1 \in Nat
  BY <1>1, <1>2, <1>3
<1>5. \A i \in 1 .. Len(st) - n : sv[i] = st[i]
  BY <1>1, <1>2, <1>3
<1>6. \A i \in Len(st) - n + 1 .. Len(sv) : sv[i].k # "frame"
  <2>1. SUFFICES ASSUME NEW i \in Len(st) - n + 1 .. Len(sv) PROVE sv[i].k # "frame"
    OBVIOUS
  <2>2. CASE i = Len(su) + 1
    BY <1>2, <2>2
  <2>3. CASE i # Len(su) + 1
    <3>1. i \in Len(st) - n + 1 .. Len(su) + 1 /\ n \in Nat /\ n <= Len(st) /\ Len(su) \in Nat
      BY <1>1, <1>2, <2>1, Zenon
    <3>2. i \in Len(st) - n + 1 .. Len(su) /\ i \in 1 .. Len(su)
      BY <1>3, <2>3, <3>1
    <3> QED
      BY <1>1, <1>2, <3>2
  <2> QED
    BY <2>2, <2>3
<1> QED
  BY <1>1, <1>2, <1>4, <1>5, <1>6, Zenon DEF Changes, sv

LEMMA PushChange ==
  ASSUME NEW G, NEW st \in Seq(G), NEW su, NEW n, NEW k, Changes(G, st, su, n, k),
         Val \in G, NEW j \in Nat
  PROVE  Changes(G, st, Pushed(su, j), n, k + j)
<1> DEFINE sv == Pushed(su, j)
<1>1. /\ su \in Seq(G) /\ n \in Nat /\ k \in Nat /\ n <= Len(st) /\ Len(su) = Len(st) - n + k
      /\ \A i \in 1 .. Len(st) - n : su[i] = st[i]
      /\ \A i \in Len(st) - n + 1 .. Len(su) : su[i].k # "frame"
  BY Zenon DEF Changes
<1>2. /\ sv \in Seq(G) /\ Len(sv) = Len(su) + j /\ Len(su) \in Nat
      /\ \A i \in 1 .. Len(su) : sv[i] = su[i]
      /\ \A i \in Len(su) + 1 .. Len(su) + j : sv[i] = Val
  <2>1. su \in Seq(G)
    BY <1>1, Zenon
  <2> QED
    BY <2>1, PushedFacts, Zenon
<1> HIDE DEF sv
<1>3. Len(st) \in Nat /\ Val.k # "frame"
  BY DEF Val
<1>4. Len(sv) = Len(st) - n + (k + j) /\ k + j \in Nat
  BY <1>1, <1>2, <1>3
<1>5. \A i \in 1 .. Len(st) - n : sv[i] = st[i]
  BY <1>1, <1>2, <1>3
<1>6. \A i \in Len(st) - n + 1 .. Len(sv) : sv[i].k # "frame"
  <2>1. SUFFICES ASSUME NEW i \in Len(st) - n + 1 .. Len(sv) PROVE sv[i].k # "frame"
    OBVIOUS
  <2>2. CASE i > Len(su)
    <3>1. sv[i] = Val
      BY <1>2, <1>3, <2>1, <2>2, <1>1
    <3> QED
      BY <1>3, <3>1
  <2>3. CASE i <= Len(su)
    <3>1. i \in Len(st) - n + 1 .. Len(su) /\ i \in 1 .. Len(su)
      BY <1>1, <1>2, <1>3, <2>1, <2>3
    <3> QED
      BY <1>1, <1>2, <3>1
  <2>4. i \in Int /\ Len(su) \in Nat
    BY <1>2, <2>1
  <2> QED
    BY <2>2, <2>3, <2>4
<1> QED
  BY <1>1, <1>2, <1>4, <1>5, <1>6, Zenon DEF Changes, sv

(* Among more cells.                                                       *)
LEMMA MoreChange ==
  ASSUME NEW G, NEW H, G \subseteq H, NEW st, NEW su, NEW n, NEW k, Changes(G, st, su, n, k)
  PROVE  Changes(H, st, su, n, k)
<1>1. su \in Seq(H)
  BY MoreCells, Zenon DEF Changes
<1> QED
  BY <1>1, Zenon DEF Changes

-----------------------------------------------------------------------------
(* A script that executes an instruction.                                  *)
Doing(G, u) ==
  /\ module \in Modules /\ Verified(module) /\ Closed(module, G) /\ mode = "run"
  /\ Executes(module, G, u, config, stack, frame, pc, go)

LEMMA Begins ==
  ASSUME Works, Verified(module), Interpreting
  PROVE  \E G, u : Doing(G, u)
<1>2. mode = "run" /\ Last(go).k # "native" /\ mode # "panic"
  BY DEF Interpreting
<1>1. PICK G, u : Closed(module, G) /\ Current(module, G, u, config, mode, stack, frame, pc, go)
  BY <1>2, Zenon DEF Works, Machine, Stopped
<1>3. Executes(module, G, u, config, stack, frame, pc, go)
  <2>1. ~RunsNative(module, G, u, config, stack, frame, go)
    BY <1>2, Zenon DEF RunsNative
  <2>2. mode # "throw" /\ mode \notin {"done", "failed"}
    BY <1>2
  <2> QED
    BY <1>1, <2>1, <2>2, Zenon DEF Current
<1> QED
  BY <1>1, <1>2, <1>3, Zenon DEF Works, Doing

(* Where it is, and what the verifier says of the instruction.             *)
LEMMA Situation ==
  ASSUME NEW G, NEW u, Doing(G, u)
  PROVE  /\ Instr = InstrAt(module, frame, pc) /\ pc \in Nat
         /\ Flows(module, frame.prog, module[frame.prog].code, Instr, pc)
         /\ Instr.d \in Nat /\ Instr.arg \in Nat
         /\ frame \in FrameRecords(module) /\ stack \in Seq(G) /\ GoFunctions(module, G, go)
         /\ Base(frame) \in Nat /\ Len(stack) \in Nat /\ Len(stack) = Base(frame) + Instr.d
         /\ Above(module, G, u, config, frame, stack, go) /\ Last(go).k # "native"
         /\ ScriptFrame(module, frame) /\ frame.prog \in DOMAIN module
         /\ Stands(module, config, frame, stack, pc) /\ Fits(module, config, frame, stack, Instr)
<1>1. /\ Above(module, G, u, config, frame, stack, go) /\ Last(go).k # "native"
      /\ ScriptFrame(module, frame) /\ Stands(module, config, frame, stack, pc)
  BY Zenon DEF Doing, Executes
<1>2. Instr = InstrAt(module, frame, pc)
  BY Zenon DEF Instr, Program, InstrAt
<1>3. /\ Flows(module, frame.prog, module[frame.prog].code, Instr, pc)
      /\ Typed(Instr) /\ Fits(module, config, frame, stack, Instr) /\ pc \in Nat /\ frame.prog \in DOMAIN module
  BY <1>1, <1>2, CodeFacts, Zenon DEF Doing
<1>4. Instr.d \in Nat /\ Instr.arg \in Nat /\ Len(stack) = Base(frame) + Instr.d
  BY <1>3, Zenon DEF Typed, Fits
<1>5. frame \in FrameRecords(module) /\ stack \in Seq(G) /\ GoFunctions(module, G, go)
  BY <1>1, Zenon DEF Above
<1>6. Base(frame) \in Nat
  BY <1>5, FrameFacts
<1>7. Len(stack) \in Nat
  BY <1>5
<1> QED
  BY <1>1, <1>2, <1>3, <1>4, <1>5, <1>6, <1>7

(* The machine works where a script executes instructions.                 *)
LEMMA Runs ==
  ASSUME module \in Modules, UNCHANGED module, mode' = "run", NEW H, NEW u, Closed(module, H),
         Executes(module, H, u, config', stack', frame', pc', go'), pc' \in Nat
  PROVE  Works'
BY Zenon DEF Works, Machine, Current

(* A script that passes the instruction works on.                          *)
LEMMA GoesOn ==
  ASSUME NEW G, NEW u, Doing(G, u), NEW H, G \subseteq H, Closed(module, H),
         NEW n, NEW k, NEW new, Passes(module, H, frame, stack, Instr, pc', n, k, new, stack'),
         UNCHANGED <<module, config, frame, go, mode>>
  PROVE  Works'
<1>1. Instr = InstrAt(module, frame, pc)
  BY Situation, Zenon
<1>2. Executes(module, H, u, config, stack', frame, pc', go) /\ pc' \in Nat
  BY <1>1, Steps, Zenon DEF Doing
<1>3. config' = config /\ frame' = frame /\ go' = go /\ mode' = "run" /\ module' = module
  BY Zenon DEF Doing
<1>4. Executes(module, H, u, config', stack', frame', pc', go')
  BY <1>2, <1>3, Zenon
<1> QED
  BY <1>2, <1>3, <1>4, Runs, Zenon DEF Doing

-----------------------------------------------------------------------------
(* Instructions that only work on the stack, jumps, config scopes.         *)

(* How many values the plain instructions pop and push.                    *)
LEMMA PlainFacts ==
  ASSUME NEW a \in Nat, NEW i \in PlainInstr(a)
  PROVE  i.pops \in Nat /\ i.pushes \in Nat
BY DEF PlainInstr, Plain

LEMMA PopsChange ==
  ASSUME NEW G, NEW u, Doing(G, u), NEW n \in Nat, n <= Instr.d
  PROVE  Changes(G, stack, Popped(n), n, 0) /\ Popped(n) \in Seq(G) /\ n <= Len(stack)
<1>1. /\ stack \in Seq(G) /\ Base(frame) \in Nat /\ Len(stack) = Base(frame) + Instr.d
      /\ Instr.d \in Nat
  BY Situation, Zenon
<1>2. n <= Len(stack)
  BY <1>1
<1>3. Changes(G, stack, Popped(n), n, 0)
  BY <1>1, <1>2, CutChange, Zenon DEF Popped
<1> QED
  BY <1>2, <1>3, Zenon DEF Changes

(* No iterator comes with what is pushed.                                  *)
LEMMA NoSlots ==
  ASSUME NEW G, NEW u, Doing(G, u), NEW n, NEW k, n <= Instr.d, Changes(G, stack, stack', n, k),
         Goes(module[frame.prog].code, Instr, pc', n, k, {}),
         UNCHANGED <<module, config, frame, go, mode>>
  PROVE  Works'
<1>1. Passes(module, G, frame, stack, Instr, pc', n, k, {}, stack')
  BY Zenon DEF Passes
<1>2. Closed(module, G) /\ G \subseteq G
  BY Zenon DEF Doing
<1> QED
  BY <1>1, <1>2, GoesOn, Zenon

LEMMA DoPlainWorks ==
  ASSUME Works, Verified(module), DoPlain
  PROVE  Works'
<1>1. PICK G, u : Doing(G, u)
  BY Begins, Zenon DEF DoPlain
<1>2. PICK i \in PlainInstr(Instr.arg) :
        /\ i.op = Instr.op
        /\ IF Len(stack) < i.pops THEN Panic
           ELSE stack' = Pushed(Popped(i.pops), i.pushes) /\ Next1
  BY Zenon DEF DoPlain
<1>3. /\ Flows(module, frame.prog, module[frame.prog].code, Instr, pc) /\ Instr.arg \in Nat
      /\ Instr.d \in Nat /\ Len(stack) \in Nat
  BY <1>1, Situation, Zenon
<1>4. i.pops \in Nat /\ i.pushes \in Nat
  BY <1>3, PlainFacts
<1>5. /\ i.pops <= Instr.d
      /\ Goes(module[frame.prog].code, Instr, pc + 1, i.pops, i.pushes, {})
  BY <1>2, <1>3, Zenon DEF Flows, Values, Takes
<1>6. Changes(G, stack, Popped(i.pops), i.pops, 0) /\ i.pops <= Len(stack) /\ stack \in Seq(G)
  BY <1>1, <1>4, <1>5, PopsChange, Situation, Zenon
<1>7. stack' = Pushed(Popped(i.pops), i.pushes) /\ Next1
  <2>1. ~(Len(stack) < i.pops)
    BY <1>3, <1>4, <1>6
  <2> QED
    BY <1>2, <2>1, Zenon
<1>8. Changes(G, stack, stack', i.pops, i.pushes)
  <2>1. Val \in G
    BY <1>1, Zenon DEF Doing, Closed
  <2>2. Changes(G, stack, stack', i.pops, 0 + i.pushes)
    BY <1>4, <1>6, <1>7, <2>1, PushChange, Zenon
  <2>3. 0 + i.pushes = i.pushes
    BY <1>4
  <2> QED
    BY <2>2, <2>3, Zenon
<1>9. pc' = pc + 1 /\ UNCHANGED <<module, config, frame, go, mode>>
  BY <1>7, Zenon DEF Next1
<1> QED
  BY <1>1, <1>5, <1>8, <1>9, NoSlots, Zenon

(* An error before an instruction did anything.                            *)
LEMMA Raises ==
  ASSUME Works, Verified(module), Interpreting, Throw, UNCHANGED <<stack, go>>
  PROVE  Works'
<1>1. PICK G, u : Doing(G, u)
  BY Begins
<1>2. /\ Flows(module, frame.prog, module[frame.prog].code, Instr, pc) /\ frame \in FrameRecords(module)
      /\ Above(module, G, u, config, frame, stack, go) /\ Last(go).k # "native"
      /\ ScriptFrame(module, frame) /\ Stands(module, config, frame, stack, pc)
      /\ Instr = InstrAt(module, frame, pc) /\ stack \in Seq(G) /\ Len(stack) \in Nat /\ pc \in Nat
  BY <1>1, Situation, Zenon
<1>3. Catches(module, config, frame, stack)
  <2>1. Takes(Instr, 0)
    BY <1>2, Zenon DEF Flows, Lands
  <2>2. 0 \in Nat /\ Len(stack) - 0 <= Len(stack)
    BY <1>2
  <2>3. \A i \in 1 .. Len(stack) - 0 : stack[i] = stack[i]
    OBVIOUS
  <2> QED
    BY <1>2, <2>1, <2>2, <2>3, Landing, Zenon
<1>4. Throws(module, G, u, config, stack, frame, go)
  BY <1>2, <1>3, Zenon DEF Throws
<1>5. mode' = "throw" /\ UNCHANGED <<module, config, frame, pc, stack, go>>
  BY Zenon DEF Throw
<1>6. Throws(module', G, u, config', stack', frame', go')
  BY <1>4, <1>5, Zenon
<1> QED
  BY <1>1, <1>2, <1>5, <1>6, Zenon DEF Works, Machine, Current, Doing

(* The machine panics for a known reason.                                  *)
LEMMA Panics ==
  ASSUME Works, Verified(module), Interpreting, Panic, KnownFault
  PROVE  Works'
<1>1. PICK G, u : Doing(G, u)
  BY Begins
<1>2. /\ frame.prog \in DOMAIN module /\ Last(go).k # "native" /\ stack \in Seq(G)
      /\ module \in Modules /\ Closed(module, G) /\ "" \notin DOMAIN module
  BY <1>1, Situation, Zenon DEF Doing, Verified
<1>3. mode' = "panic" /\ UNCHANGED <<module, config, stack, frame, pc, go>>
  BY Zenon DEF Panic
<1>4. KnownFault'
  BY <1>3, Zenon DEF KnownFault, Instr, Program
<1>5. OnlyKnownPanics'
  BY <1>2, <1>3, <1>4, Zenon DEF OnlyKnownPanics
<1> QED
  BY <1>2, <1>3, <1>5, Zenon DEF Works, Stopped

(* A computed key, or a captured variable in an iterator, panics.          *)
LEMMA KnownFaultsPanic ==
  ASSUME Works, Verified(module), MapKeyFails \/ CaptureFails
  PROVE  Works'
<1>1. Interpreting /\ Panic /\ KnownFault
  BY Zenon DEF MapKeyFails, CaptureFails, At, KnownFault, Program
<1> QED
  BY <1>1, Panics

(* A frame without a closure has no instruction that needs one, except in  *)
(* an iterator.                                                            *)
LEMMA UpvalueWorks ==
  ASSUME Works, Verified(module), Upvalue
  PROVE  Works'
<1>1. PICK G, u : Doing(G, u)
  BY Begins, Zenon DEF Upvalue, At
<1>2. Instr.op \in {"LoadUpvalue", "StoreUpvalue"}
  BY Zenon DEF Upvalue, At
<1>3. /\ Flows(module, frame.prog, module[frame.prog].code, Instr, pc) /\ Instr.d \in Nat
      /\ ScriptFrame(module, frame) /\ stack \in Seq(G) /\ Instr = module[frame.prog].code[pc + 1]
      /\ Stands(module, config, frame, stack, pc) /\ Val \in G /\ pc \in Nat
  BY <1>1, Situation, Zenon DEF InstrAt, Doing, Closed
<1>8. CASE frame.clo = ""
  <2>1. pc \in 0 .. Len(module[frame.prog].code) - 1
    BY <1>3, Zenon DEF Stands
  <2>2. pc + 1 \in 1 .. Len(module[frame.prog].code)
    BY <2>1
  <2>3. NeedsClosure(module, frame.prog)
    BY <1>2, <1>3, <2>2, Zenon DEF NeedsClosure
  <2>4. module[frame.prog].kind = "iter"
    BY <1>3, <1>8, <2>3, Zenon DEF ScriptFrame
  <2>5. KnownFault
    BY <1>2, <2>4, Zenon DEF KnownFault, Program
  <2>6. Interpreting /\ Panic
    BY <1>8, Zenon DEF Upvalue, At
  <2> QED
    BY <2>5, <2>6, Panics
<1>4. SUFFICES ASSUME frame.clo # "" PROVE Works'
  BY <1>8, Zenon
<1>5. /\ stack' = (IF Instr.op = "LoadUpvalue" THEN Append(stack, Val) ELSE Popped(1))
      /\ pc' = pc + 1 /\ UNCHANGED <<module, config, frame, go, mode>>
  BY <1>4, Zenon DEF Upvalue, Next1
<1>6. CASE Instr.op = "LoadUpvalue"
  <2>1. Goes(module[frame.prog].code, Instr, pc + 1, 0, 1, {})
    BY <1>3, <1>6, Zenon DEF Flows, Values
  <2>2. Changes(G, stack, stack', 0, 0 + 1)
    <3>1. Val.k # "frame"
      BY DEF Val
    <3>2. Changes(G, stack, stack, 0, 0)
      BY <1>3, NoChange, Zenon
    <3> QED
      BY <1>3, <1>5, <1>6, <3>1, <3>2, AppendChange, Zenon
  <2>3. 0 + 1 = 1 /\ 0 <= Instr.d
    BY <1>3
  <2> QED
    BY <1>1, <1>5, <2>1, <2>2, <2>3, NoSlots, Zenon
<1>7. CASE Instr.op # "LoadUpvalue"
  <2>1. 1 <= Instr.d /\ Goes(module[frame.prog].code, Instr, pc + 1, 1, 0, {})
    BY <1>2, <1>3, <1>7, Zenon DEF Flows, Values, Takes
  <2>2. Changes(G, stack, stack', 1, 0)
    <3>1. 1 \in Nat
      OBVIOUS
    <3> QED
      BY <1>1, <1>5, <1>7, <2>1, <3>1, PopsChange, Zenon
  <2> QED
    BY <1>1, <1>5, <2>1, <2>2, NoSlots, Zenon
<1> QED
  BY <1>6, <1>7

LEMMA InstrFailsWorks ==
  ASSUME Works, Verified(module), InstrFails \/ LoadRefused \/ DerefFails
  PROVE  Works'
<1>1. Interpreting /\ Throw /\ UNCHANGED <<stack, go>>
  BY Zenon DEF InstrFails, LoadRefused, DerefFails, At
<1> QED
  BY <1>1, Raises

(* The stack stays: other handlers, other scopes around the instruction.   *)
LEMMA HandlersChange ==
  ASSUME NEW G, NEW u, Doing(G, u), NEW e \in Seq(Handler), NEW h, e = Handlers(frame, h), NEW c,
         frame' = [frame EXCEPT !.excep = e],
         Expects(module[frame.prog].code, pc', Instr.d, h, c, Instr.its),
         frame.prog = "rule" => Opened(module, config, c),
         UNCHANGED <<module, config, stack, go, mode>>
  PROVE  Works'
<1> DEFINE g == [frame EXCEPT !.excep = e]
<1>1. /\ frame \in FrameRecords(module) /\ stack \in Seq(G) /\ Base(frame) \in Nat
      /\ Len(stack) \in Nat /\ Len(stack) = Base(frame) + Instr.d /\ Instr.d \in Nat
      /\ Above(module, G, u, config, frame, stack, go) /\ Last(go).k # "native"
      /\ ScriptFrame(module, frame) /\ frame.prog \in DOMAIN module
      /\ Fits(module, config, frame, stack, Instr)
      /\ Stands(module, config, frame, stack, pc)
  BY Situation, Zenon
<1>2. /\ g \in FrameRecords(module) /\ g.excep = e /\ g.prog = frame.prog
      /\ Base(g) = Base(frame) /\ Handlers(g, h) = Handlers(frame, h) /\ ScriptFrame(module, g)
  BY <1>1, OtherHandlers
<1>3. SameCall(frame, g)
  BY <1>1, SameCalls
<1> HIDE DEF g
<1>4. Ready(module, config, g, stack, pc', Instr.d, h, c, Instr.its)
  BY <1>1, <1>2, Zenon DEF Ready, Fits
<1>5. Stands(module, config, g, stack, pc')
  BY <1>4, Reached, Zenon
<1>6. Above(module, G, u, config, g, stack, go)
  <2>1. Changes(G, stack, stack, 0, 0)
    BY <1>1, NoChange, Zenon
  <2>2. Base(frame) <= Len(stack) - 0
    BY <1>1
  <2>3. G \subseteq G
    OBVIOUS
  <2> QED
    BY <1>1, <1>2, <1>3, <2>1, <2>2, <2>3, Onward, Zenon
<1>7. frame' = g /\ UNCHANGED <<module, config, stack, go, mode>>
  BY Zenon DEF g
<1>8. Executes(module, G, u, config', stack', frame', pc', go')
  BY <1>1, <1>2, <1>5, <1>6, <1>7, Zenon DEF Executes
<1>9. pc' \in Nat
  <2>1. pc' \in 0 .. Len(module[frame.prog].code) - 1
    BY Zenon DEF Expects
  <2>2. Len(module[frame.prog].code) \in Nat
    BY <1>1, CodeFacts, Zenon DEF Doing
  <2> QED
    BY <2>1, <2>2
<1> QED
  BY <1>7, <1>8, <1>9, Runs, Zenon DEF Doing

LEMMA DoJumpWorks ==
  ASSUME Works, Verified(module), DoJump
  PROVE  Works'
<1>1. PICK G, u : Doing(G, u)
  BY Begins, Zenon DEF DoJump, At
<1>2. Instr.op \in {"Jump", "Jfalse", "Jtrue", "And", "Or", "Ternary"}
  BY Zenon DEF DoJump, At
<1> DEFINE code == module[frame.prog].code
<1>3. Jumps(code, Instr, pc) /\ Instr.d \in Nat /\ stack \in Seq(G)
  BY <1>1, Situation, Zenon DEF Flows
<1>4. PICK jumps \in BOOLEAN :
       /\ CASE Instr.op = "Jump" -> jumps /\ stack' = stack
            [] Instr.op = "Jfalse" -> Holds(Top(0), ~jumps) /\ stack' = Popped(1)
            [] Instr.op = "Jtrue" -> Holds(Top(0), jumps) /\ stack' = Popped(1)
            [] Instr.op = "And" -> Holds(Top(0), ~jumps) /\ stack' = Popped(IF jumps THEN 0 ELSE 1)
            [] Instr.op = "Or" -> Holds(Top(0), jumps) /\ stack' = Popped(IF jumps THEN 0 ELSE 1)
            [] Instr.op = "Ternary" -> Holds(Top(0), jumps) /\ stack' = Popped(IF jumps THEN 1 ELSE 2)
       /\ pc' = IF jumps THEN Instr.arg ELSE pc + 1
  BY Zenon DEF DoJump
<1>5. UNCHANGED <<module, config, frame, go, mode>>
  BY Zenon DEF DoJump
<1> HIDE DEF code
<1>6. ASSUME NEW n \in Nat, n <= Instr.d, stack' = Popped(n), Goes(code, Instr, pc', n, 0, {})
      PROVE  Works'
  <2>1. Changes(G, stack, stack', n, 0)
    BY <1>1, <1>6, PopsChange, Zenon
  <2> QED
    BY <1>1, <1>5, <1>6, <2>1, NoSlots, Zenon DEF code
<1>7. CASE Instr.op = "Jump"
  <2>1. stack' = stack /\ pc' = Instr.arg
    BY <1>4, <1>7
  <2> DEFINE c == code[Instr.arg + 1].c
  <2>2. Expects(code, pc', Instr.d, Instr.h, c, Instr.its) /\ Leaving(code, Instr, Instr.arg)
    BY <1>3, <1>7, <2>1, Zenon DEF Jumps
  <2>3. /\ Verified(module) /\ Stands(module, config, frame, stack, pc)
        /\ Instr = InstrAt(module, frame, pc)
    BY <1>1, Situation, Zenon
  <2>4. frame.prog = "rule" => Opened(module, config, c)
    <3>1. Instr.arg \in 0 .. Len(code) - 1
      BY <2>1, <2>2, Zenon DEF Expects
    <3> QED
      BY <1>7, <2>2, <2>3, <3>1, ScopesLeft, Zenon DEF code
  <2>5. /\ frame.excep = Handlers(frame, Instr.h) /\ frame.excep \in Seq(Handler)
        /\ frame' = [frame EXCEPT !.excep = frame.excep]
    <3>1. frame \in FrameRecords(module) /\ Fits(module, config, frame, stack, Instr)
      BY <1>1, Situation, Zenon
    <3>2. frame = [frame EXCEPT !.excep = frame.excep]
      BY <3>1 DEF FrameRecords
    <3>3. frame.excep \in Seq(Handler)
      BY <3>1, FrameFacts
    <3> QED
      BY <1>5, <3>1, <3>2, <3>3, Zenon DEF Fits
  <2> HIDE DEF c
  <2>6. UNCHANGED <<module, config, stack, go, mode>>
    BY <1>5, <2>1, Zenon
  <2> QED
    BY <1>1, <2>2, <2>4, <2>5, <2>6, HandlersChange, Zenon DEF code
<1>8. CASE Instr.op \in {"Jfalse", "Jtrue"}
  <2>1. stack' = Popped(1) /\ pc' = IF jumps THEN Instr.arg ELSE pc + 1
    BY <1>4, <1>8
  <2>2. 1 <= Instr.d /\ Goes(code, Instr, Instr.arg, 1, 0, {}) /\ Goes(code, Instr, pc + 1, 1, 0, {})
    BY <1>3, <1>8, Zenon DEF Jumps, Takes
  <2>3. Goes(code, Instr, pc', 1, 0, {})
    BY <2>1, <2>2, Zenon
  <2>4. 1 \in Nat
    OBVIOUS
  <2> QED
    BY <1>6, <2>1, <2>2, <2>3, <2>4, Zenon
<1>9. CASE Instr.op \in {"And", "Or"}
  <2>1. stack' = Popped(IF jumps THEN 0 ELSE 1) /\ pc' = IF jumps THEN Instr.arg ELSE pc + 1
    BY <1>4, <1>9
  <2>2. 1 <= Instr.d /\ Goes(code, Instr, Instr.arg, 0, 0, {}) /\ Goes(code, Instr, pc + 1, 1, 0, {})
    BY <1>3, <1>9, Zenon DEF Jumps, Takes
  <2>3. 0 \in Nat /\ 1 \in Nat /\ 0 <= Instr.d
    BY <1>3
  <2>4. CASE jumps
    <3>1. stack' = Popped(0) /\ Goes(code, Instr, pc', 0, 0, {})
      BY <2>1, <2>2, <2>4, Zenon
    <3> QED
      BY <1>6, <2>3, <3>1, Zenon
  <2>5. CASE ~jumps
    <3>1. stack' = Popped(1) /\ Goes(code, Instr, pc', 1, 0, {})
      BY <2>1, <2>2, <2>5, Zenon
    <3> QED
      BY <1>6, <2>2, <2>3, <3>1, Zenon
  <2> QED
    BY <2>4, <2>5
<1>10. CASE Instr.op = "Ternary"
  <2>1. stack' = Popped(IF jumps THEN 1 ELSE 2) /\ pc' = IF jumps THEN Instr.arg ELSE pc + 1
    BY <1>4, <1>10
  <2>2. 2 <= Instr.d /\ Goes(code, Instr, Instr.arg, 1, 0, {}) /\ Goes(code, Instr, pc + 1, 2, 0, {})
    BY <1>3, <1>10, Zenon DEF Jumps, Takes
  <2>3. 1 \in Nat /\ 2 \in Nat /\ 1 <= Instr.d
    BY <1>3, <2>2
  <2>4. CASE jumps
    <3>1. stack' = Popped(1) /\ Goes(code, Instr, pc', 1, 0, {})
      BY <2>1, <2>2, <2>4, Zenon
    <3> QED
      BY <1>6, <2>3, <3>1, Zenon
  <2>5. CASE ~jumps
    <3>1. stack' = Popped(2) /\ Goes(code, Instr, pc', 2, 0, {})
      BY <2>1, <2>2, <2>5, Zenon
    <3> QED
      BY <1>6, <2>2, <2>3, <3>1, Zenon
  <2> QED
    BY <2>4, <2>5
<1> QED
  BY <1>2, <1>7, <1>8, <1>9, <1>10

(* Only the rule, which has no caller, has config scopes.                  *)
LEMMA ConfigWorks ==
  ASSUME Works, Verified(module), ConfigPush \/ ConfigPop
  PROVE  Works'
<1>1. PICK G, u : Doing(G, u)
  BY Begins, Zenon DEF ConfigPush, ConfigPop, At
<1> DEFINE code == module[frame.prog].code
<1>2. /\ Instr.op \in {"ConfigPush", "ConfigPop"} /\ pc' = pc + 1
      /\ UNCHANGED <<module, stack, frame, go, mode>>
      /\ Instr.op = "ConfigPush" => config' = config + 1
      /\ Instr.op = "ConfigPop" => config' = config - 1
  BY DEF ConfigPush, ConfigPop, At
<1>3. /\ Configures(frame.prog, code, Instr, pc) /\ pc \in Nat
      /\ Above(module, G, u, config, frame, stack, go) /\ Last(go).k # "native"
      /\ ScriptFrame(module, frame) /\ frame.prog \in DOMAIN module
      /\ Fits(module, config, frame, stack, Instr)
      /\ Typed(Instr)
  BY <1>1, Situation, Zenon DEF Flows
<1> HIDE DEF code
<1>4. frame.prog = "rule"
  BY <1>2, <1>3, Zenon DEF Configures
<1>5. Opened(module, config, Instr.c) /\ Instr.c \in Int
  BY <1>3, <1>4, Zenon DEF Fits, Typed
<1>6. /\ Instr.op = "ConfigPush" => /\ Expects(code, pc', Instr.d, Instr.h, Instr.c + 1, Instr.its)
                                    /\ Opened(module, config', Instr.c + 1)
      /\ Instr.op = "ConfigPop" => /\ Expects(code, pc', Instr.d, Instr.h, Instr.c - 1, Instr.its)
                                   /\ Opened(module, config', Instr.c - 1)
  <2>1. /\ Opened(module, config + 1, Instr.c + 1)
        /\ Opened(module, config - 1, Instr.c - 1)
    BY <1>5 DEF Opened
  <2> QED
    BY <1>2, <1>3, <2>1, Zenon DEF Configures
<1>7. \E c : Ready(module, config', frame, stack, pc', Instr.d, Instr.h, c, Instr.its)
  BY <1>2, <1>3, <1>6, Zenon DEF Ready, Fits, code
<1>8. Stands(module, config', frame, stack, pc')
  BY <1>7, Reached, Zenon
<1>9. Above(module, G, u, config', frame, stack, go)
  <2>1. u = Nobody /\ OfRule(module, frame, stack, go)
    BY <1>3, <1>4, Zenon DEF Above, Linked
  <2> QED
    BY <1>3, <2>1, Zenon DEF Above
<1>10. Executes(module', G, u, config', stack', frame', pc', go')
  BY <1>2, <1>3, <1>8, <1>9, Zenon DEF Executes
<1>11. pc' \in Nat
  BY <1>2, <1>3
<1> QED
  BY <1>1, <1>2, <1>10, <1>11, Zenon DEF Works, Machine, Current, Doing

-----------------------------------------------------------------------------
(* A try begins or ends.                                                   *)
LEMMA TryWorks ==
  ASSUME Works, Verified(module), PushException \/ PopException
  PROVE  Works'
<1>1. PICK G, u : Doing(G, u)
  BY Begins, Zenon DEF PushException, PopException, At
<1> DEFINE code == module[frame.prog].code
           x == [pc |-> Instr.arg, d |-> Instr.d]
<1>2. /\ Typed(Instr) /\ Tries(code, Instr, pc) /\ Instr.arg \in Nat /\ Instr.d \in Nat
      /\ frame \in FrameRecords(module) /\ Len(stack) = Base(frame) + Instr.d
      /\ Fits(module, config, frame, stack, Instr) /\ Base(frame) \in Nat
  BY <1>1, Situation, Zenon DEF Flows
<1>3. Instr.h \in Seq([pc : Nat, d : Nat]) /\ frame.excep = Handlers(frame, Instr.h)
  BY <1>2, Zenon DEF Typed, Fits
<1>8. frame.prog = "rule" => Opened(module, config, Instr.c)
  BY <1>2, Zenon DEF Fits
<1>4. frame.excep \in Seq(Handler)
  BY <1>2, FrameFacts
<1>5. x \in [pc : Nat, d : Nat] /\ x.pc = Instr.arg /\ x.d = Instr.d
  BY <1>2
<1> HIDE DEF code, x
<1>6. CASE PushException
  <2> DEFINE y == [pc |-> Instr.arg, size |-> Len(stack)]
             e == Append(frame.excep, y)
  <2>1. /\ Instr.op = "PushException" /\ frame' = [frame EXCEPT !.excep = e]
        /\ pc' = pc + 1 /\ UNCHANGED <<module, config, stack, go, mode>>
    BY <1>6, Zenon DEF PushException, At
  <2>2. y = [pc |-> x.pc, size |-> Base(frame) + x.d]
    BY <1>2, <1>5, Zenon
  <2>3. y \in Handler
    BY <1>2 DEF Handler
  <2> HIDE DEF y
  <2>4. e \in Seq(Handler)
    BY <1>4, <2>3
  <2>5. Handlers(frame, Append(Instr.h, x)) = Append(Handlers(frame, Instr.h), y)
    <3>1. Base(frame) \in Nat /\ Instr.h \in Seq([pc : Nat, d : Nat])
      BY <1>2, <1>3, Zenon
    <3>2. \A z \in [pc : Nat, d : Nat] :
            Handlers(frame, Append(Instr.h, z))
              = Append(Handlers(frame, Instr.h), [pc |-> z.pc, size |-> Base(frame) + z.d])
      BY <3>1, HandlersFacts
    <3> QED
      BY <1>5, <2>2, <3>2, Zenon
  <2>6. e = Handlers(frame, Append(Instr.h, x))
    BY <1>3, <2>5, Zenon
  <2>7. Expects(code, pc', Instr.d, Append(Instr.h, x), Instr.c, Instr.its)
    BY <1>2, <2>1, Zenon DEF Tries, x
  <2> HIDE DEF e
  <2> QED
    BY <1>1, <1>8, <2>1, <2>4, <2>6, <2>7, HandlersChange, Zenon DEF code
<1>7. CASE PopException
  <2> DEFINE e == Front(frame.excep)
  <2>1. Instr.op = "PopException"
    BY <1>7, Zenon DEF PopException, At
  <2>2. Instr.h # <<>> /\ Expects(code, Instr.arg, Instr.d, Front(Instr.h), Instr.c, Instr.its)
    BY <1>2, <2>1, Zenon DEF Tries
  <2>3. /\ frame.excep # <<>> /\ e = Handlers(frame, Front(Instr.h))
    BY <1>2, <1>3, <2>2, HandlersFacts
  <2>4. e \in Seq(Handler)
    BY <1>4, <2>3, FrontFacts
  <2>5. /\ frame' = [frame EXCEPT !.excep = e]
        /\ pc' = Instr.arg /\ UNCHANGED <<module, config, stack, go, mode>>
    BY <1>7, <2>3, Zenon DEF PopException
  <2>6. Expects(code, pc', Instr.d, Front(Instr.h), Instr.c, Instr.its)
    BY <2>2, <2>5, Zenon
  <2> HIDE DEF e
  <2> QED
    BY <1>1, <1>8, <2>3, <2>4, <2>5, <2>6, HandlersChange, Zenon DEF code
<1> QED
  BY <1>6, <1>7

-----------------------------------------------------------------------------
(* Iterators in slots.                                                     *)

(* No name, no program, no closure.                                        *)
NoName == ""

LEMMA TopFrameFacts ==
  ASSUME NEW m
  PROVE  TopFrame \in FrameRecords(m) /\ NoName \in ProgramNames(m)
<1>1. NoName \in ProgramNames(m)
  BY Zenon DEF ProgramNames, NoName
<1>2. TopFrame = [ftype |-> "top", farg |-> 0, framep |-> 0, prog |-> NoName, excep |-> <<>>,
                  clo |-> NoName]
  BY Zenon DEF TopFrame, NoName
<1>3. <<>> \in Seq(Handler)
  BY NoCells
<1> QED
  BY <1>1, <1>2, <1>3 DEF FrameRecords

(* A new iterator is sound.                                                *)
LEMMA NewIterFacts ==
  ASSUME NEW m, NEW H, NEW p \in ProgramNames(m), NEW b \in BOOLEAN,
         p # NoName => m[p].kind = "iter" /\ b = FALSE
  PROVE  /\ Fine(m, H, Iterator(p, b))
         /\ Iterator(p, b).k = "iter" /\ Iterator(p, b).prog = p /\ Iterator(p, b).next = b
         /\ Iterator(p, b).pc = 0 /\ Iterator(p, b).stack = <<>>
<1> DEFINE x == Iterator(p, b)
           F == FrameRecords(m)
           P == ProgramNames(m)
           t == TopFrame
           e == <<>>
<1>1. x = [k |-> "iter", prog |-> p, pc |-> 0, next |-> b, stack |-> e, fr |-> t]
  BY Zenon DEF Iterator
<1>2. t \in F /\ e \in Seq(H) /\ p \in P
  BY TopFrameFacts, NoCells, Zenon
<1> HIDE DEF x, F, P, t, e
<1>3. /\ x.k = "iter" /\ x.prog = p /\ x.next = b /\ x.pc = 0 /\ x.stack = e
      /\ x \in [k : {"iter"}, prog : P, pc : Nat, next : BOOLEAN, stack : Seq(H), fr : F]
  BY <1>1, <1>2
<1>4. Sound(m, H, x)
  BY <1>3, Zenon DEF Sound, F, P, NoName
<1>5. x.k # "waiting"
  BY <1>3
<1>6. Fine(m, H, x)
  BY <1>4, <1>5, Zenon DEF Fine
<1> QED
  BY <1>3, <1>6, Zenon DEF x, e

(* An iterator knows whether it has a next value.                          *)
LEMMA SoundNext ==
  ASSUME NEW m, NEW G, Closed(m, G), NEW it \in G, it.k = "iter"
  PROVE  it.next \in BOOLEAN
<1> DEFINE F == FrameRecords(m)
           P == ProgramNames(m)
           SG == Seq(G)
<1>1. it \in [k : {"iter"}, prog : P, pc : Nat, next : BOOLEAN, stack : SG, fr : F]
  BY Zenon DEF Closed, Fine, Sound
<1> HIDE DEF F, P, SG
<1> QED
  BY <1>1

(* What is in a slot that the instruction knows.                           *)
LEMMA InSlot ==
  ASSUME NEW G, NEW u, Doing(G, u), NEW d, NEW is, Slot(d, is) \in Instr.its
  PROVE  /\ d \in 1 .. Instr.d /\ Base(frame) + d \in DOMAIN stack
         /\ Keeps(stack[Base(frame) + d], is) /\ stack[Base(frame) + d] \in G
         /\ stack[Base(frame) + d].k = "iter" /\ Sound(module, G, stack[Base(frame) + d])
         /\ stack[Base(frame) + d].next \in BOOLEAN
<1>1. /\ Flows(module, frame.prog, module[frame.prog].code, Instr, pc) /\ Instr.d \in Nat
      /\ stack \in Seq(G) /\ Fits(module, config, frame, stack, Instr)
      /\ Base(frame) \in Nat /\ Len(stack) \in Nat /\ Len(stack) = Base(frame) + Instr.d
  BY Situation, Zenon
<1>2. Slot(d, is).d = d /\ Slot(d, is).is = is
  BY DEF Slot
<1>3. Slot(d, is) \in [d : 1 .. Instr.d, is : {"loaded", "set", "ready"}]
  BY <1>1, Zenon DEF Flows, Typed
<1>4. d \in 1 .. Instr.d
  BY <1>2, <1>3
<1>5. Base(frame) + d \in DOMAIN stack
  BY <1>1, <1>4
<1> DEFINE it == stack[Base(frame) + d]
<1>6. it \in G
  BY <1>1, <1>5
<1>7. Keeps(it, is)
  BY <1>1, <1>2, Zenon DEF Fits
<1>8. it.k = "iter" /\ Sound(module, G, it)
  BY <1>6, <1>7, Zenon DEF Keeps, Doing, Closed, Fine
<1>9. it.next \in BOOLEAN
  BY <1>6, <1>8, SoundNext, Zenon DEF Doing
<1> QED
  BY <1>4, <1>5, <1>6, <1>7, <1>8, <1>9

LEMMA TopSlot ==
  ASSUME NEW G, NEW u, Doing(G, u), NEW is, Slot(Instr.d, is) \in Instr.its
  PROVE  /\ Keeps(Top(0), is) /\ Top(0) \in G /\ Top(0).k = "iter" /\ Sound(module, G, Top(0))
         /\ Top(0).next \in BOOLEAN /\ Top(0) = stack[Len(stack)]
         /\ Len(stack) \in DOMAIN stack /\ 1 <= Instr.d /\ Len(stack) = Base(frame) + Instr.d
<1>1. Len(stack) = Base(frame) + Instr.d /\ Len(stack) \in Nat
  BY Situation, Zenon
<1>2. Top(0) = stack[Len(stack)]
  <2>1. Len(stack) - 0 = Len(stack)
    BY <1>1
  <2> QED
    BY <2>1, Zenon DEF Top
<1>3. 1 <= Instr.d
  <2>1. Instr.d \in 1 .. Instr.d
    BY InSlot, Zenon
  <2> QED
    BY <2>1
<1> QED
  BY <1>1, <1>2, <1>3, InSlot, Zenon

(* A script replaces n cells by an iterator.                               *)
LEMMA NewCell ==
  ASSUME NEW G, NEW u, Doing(G, u), NEW x, Fine(module, G \cup {x}, x), x.k # "frame",
         NEW n \in Nat, n <= Instr.d, stack' = Append(Popped(n), x),
         NEW new, Goes(module[frame.prog].code, Instr, pc', n, 1, new),
         \A y \in new : y.d = Instr.d - n + 1 /\ Keeps(x, y.is),
         UNCHANGED <<module, config, frame, go, mode>>
  PROVE  Works'
<1> DEFINE H == G \cup {x}
<1>1. Closed(module, H) /\ G \subseteq H /\ x \in H
  BY OneMore, Zenon DEF Doing
<1> HIDE DEF H
<1>2. /\ stack \in Seq(G) /\ Base(frame) \in Nat /\ Len(stack) \in Nat
      /\ Len(stack) = Base(frame) + Instr.d /\ Instr.d \in Nat
  BY Situation, Zenon
<1>3. Changes(H, stack, Popped(n), n, 0)
  BY <1>1, PopsChange, MoreChange, Zenon
<1>4. Changes(H, stack, stack', n, 1)
  <2>1. stack \in Seq(H)
    BY <1>1, <1>2, MoreCells, Zenon
  <2>2. Changes(H, stack, stack', n, 0 + 1)
    BY <1>1, <1>3, <2>1, AppendChange, Zenon
  <2>3. 0 + 1 = 1
    OBVIOUS
  <2> QED
    BY <2>2, <2>3, Zenon
<1>5. stack'[Base(frame) + (Instr.d - n + 1)] = x
  <2>1. Popped(n) \in Seq(H) /\ Len(Popped(n)) = Len(stack) - n + 0
    BY <1>3, Zenon DEF Changes
  <2>2. stack'[Len(Popped(n)) + 1] = x
    BY <1>1, <2>1, AppendFacts, Zenon
  <2>3. Len(Popped(n)) + 1 = Base(frame) + (Instr.d - n + 1)
    BY <1>2, <2>1
  <2> QED
    BY <2>2, <2>3, Zenon
<1>6. Passes(module, H, frame, stack, Instr, pc', n, 1, new, stack')
  BY <1>4, <1>5, Zenon DEF Passes
<1> QED
  BY <1>1, <1>6, GoesOn, Zenon

LEMMA NewIteratorWorks ==
  ASSUME Works, Verified(module), NewIterator
  PROVE  Works'
<1>1. PICK G, u : Doing(G, u)
  BY Begins, Zenon DEF NewIterator, At
<1>2. PICK more \in BOOLEAN : stack' = Append(Popped(1), Iterator(NoName, more))
  BY Zenon DEF NewIterator, NoName
<1>3. Instr.op = "NewIterator" /\ pc' = pc + 1 /\ UNCHANGED <<module, config, frame, go, mode>>
  BY Zenon DEF NewIterator, At, Next1
<1> DEFINE x == Iterator(NoName, more)
<1>4. Fine(module, G \cup {x}, x) /\ x.k = "iter" /\ x.prog = NoName
  <2>1. NoName \in ProgramNames(module)
    BY TopFrameFacts
  <2> QED
    BY <2>1, NewIterFacts, Zenon
<1> DEFINE new == {Slot(Instr.d, "set"), Slot(Instr.d, "ready")}
<1>5. /\ 1 <= Instr.d /\ Instr.d \in Nat
      /\ Goes(module[frame.prog].code, Instr, pc', 1, 1, new)
  BY <1>1, <1>3, Situation, Zenon DEF Flows, Iterates, Takes
<1>6. \A y \in new : y.d = Instr.d /\ y.is \in {"set", "ready"}
  BY DEF Slot
<1> HIDE DEF x, new
<1>7. \A y \in new : y.d = Instr.d - 1 + 1 /\ Keeps(x, y.is)
  <2>1. Instr.d - 1 + 1 = Instr.d
    BY <1>5
  <2>2. Keeps(x, "set") /\ Keeps(x, "ready")
    BY <1>4, Zenon DEF Keeps, NoName
  <2> QED
    BY <1>6, <2>1, <2>2, Zenon
<1>8. x.k # "frame" /\ 1 \in Nat
  BY <1>4
<1> QED
  BY <1>1, <1>2, <1>3, <1>4, <1>5, <1>7, <1>8, NewCell, Zenon DEF x

LEMMA LoadIteratorWorks ==
  ASSUME Works, Verified(module), LoadIterator
  PROVE  Works'
<1>1. PICK G, u : Doing(G, u)
  BY Begins, Zenon DEF LoadIterator, At
<1> DEFINE x == Iterator(Instr.f, FALSE)
           new == {Slot(Instr.d + 1, "loaded")}
<1>2. /\ Instr.op = "LoadIterator" /\ module[Instr.f].kind = "iter" /\ stack' = Append(stack, x)
      /\ pc' = pc + 1 /\ UNCHANGED <<module, config, frame, go, mode>>
  BY Zenon DEF LoadIterator, At, Next1, Program
<1>3. /\ Instr.f \in DOMAIN module /\ NoName \notin DOMAIN module
      /\ Goes(module[frame.prog].code, Instr, pc', 0, 1, new)
      /\ Instr.d \in Nat /\ stack \in Seq(G)
  BY <1>1, <1>2, Situation, Zenon DEF Flows, Iterates, Doing, Verified, NoName
<1>4. Fine(module, G \cup {x}, x) /\ x.k = "iter" /\ x.prog = Instr.f /\ x.pc = 0 /\ x.stack = <<>>
  <2>1. Instr.f \in ProgramNames(module) /\ FALSE \in BOOLEAN
    BY <1>3, Zenon DEF ProgramNames
  <2> QED
    BY <1>2, <1>3, <2>1, NewIterFacts, Zenon
<1>5. \A y \in new : y.d = Instr.d + 1 /\ y.is = "loaded"
  BY DEF Slot
<1> HIDE DEF x, new
<1>6. \A y \in new : y.d = Instr.d - 0 + 1 /\ Keeps(x, y.is)
  <2>1. Instr.d - 0 + 1 = Instr.d + 1
    BY <1>3
  <2>2. Keeps(x, "loaded")
    BY <1>3, <1>4, Zenon DEF Keeps, NoName
  <2> QED
    BY <1>5, <2>1, <2>2, Zenon
<1>7. x.k # "frame" /\ 0 \in Nat /\ 0 <= Instr.d
  BY <1>3, <1>4
<1>8. stack = Popped(0)
  BY <1>3 DEF Popped
<1>9. stack' = Append(Popped(0), x)
  BY <1>2, <1>8, Zenon
<1> QED
  BY <1>1, <1>2, <1>3, <1>4, <1>6, <1>7, <1>9, NewCell, Zenon

(* The instruction replaces the top of the stack by an iterator, which is  *)
(* new or was there, and pushes whether it goes on.                        *)
LEMMA LeavesIterator ==
  ASSUME NEW G, NEW u, Doing(G, u), 1 <= Instr.d, Instr.d \in Nat,
         Goes(module[frame.prog].code, Instr, pc + 1, 1, 2, {Slot(Instr.d, "set")}),
         NEW more \in BOOLEAN, stack' = Popped(1) \o <<Iterator(NoName, more), Flag(more)>>,
         pc' = pc + 1, UNCHANGED <<module, config, frame, go, mode>>
  PROVE  Works'
<1> DEFINE new == {Slot(Instr.d, "set")}
<1>3. /\ Goes(module[frame.prog].code, Instr, pc + 1, 1, 2, new)
      /\ stack \in Seq(G) /\ Closed(module, G) /\ Len(stack) \in Nat
      /\ Base(frame) \in Nat
  BY Situation, Zenon DEF Doing
<1>4. 1 <= Instr.d /\ Len(stack) = Base(frame) + Instr.d
  BY Situation, Zenon
<1> DEFINE x == Iterator(NoName, more)
           H == G \cup {x}
           y == Flag(more)
           st == Append(Popped(1), x)
<1>7. /\ Fine(module, H, x) /\ x.k = "iter"
  <2>1. NoName \in ProgramNames(module)
    BY TopFrameFacts
  <2> QED
    BY <2>1, NewIterFacts, Zenon
<1>8. Closed(module, H) /\ G \subseteq H /\ x \in H
  BY <1>3, <1>7, OneMore, Zenon
<1>9. y \in H /\ y.k # "frame"
  BY <1>8, Flags, Zenon
<1>10. \A z \in new : z.d = Instr.d /\ z.is = "set"
  BY DEF Slot
<1> HIDE DEF x, H, y, new
<1>11. x.k # "frame"
  BY <1>7
<1>12. Changes(H, stack, Popped(1), 1, 0) /\ Popped(1) \in Seq(H) /\ stack \in Seq(H)
  <2>1. 1 \in Nat
    OBVIOUS
  <2>2. Changes(G, stack, Popped(1), 1, 0) /\ Popped(1) \in Seq(G)
    BY <1>4, <2>1, PopsChange, Zenon
  <2> QED
    BY <1>3, <1>8, <2>2, MoreChange, MoreCells, Zenon
<1>13. stack' = Append(st, y)
  <2>1. stack' = Popped(1) \o <<x, y>>
    BY Zenon DEF x, y
  <2>2. \A s \in Seq(H) : s \o <<x, y>> = Append(Append(s, x), y)
    BY <1>8, <1>9
  <2> QED
    BY <1>12, <2>1, <2>2, Zenon
<1>14. Changes(H, stack, st, 1, 0 + 1)
  BY <1>8, <1>11, <1>12, AppendChange, Zenon
<1>15. Changes(H, stack, stack', 1, (0 + 1) + 1)
  BY <1>9, <1>12, <1>13, <1>14, AppendChange, Zenon
<1>16. (0 + 1) + 1 = 2
  OBVIOUS
<1>17. stack'[Base(frame) + Instr.d] = x
  <2>1. /\ Len(st) = Len(Popped(1)) + 1 /\ st[Len(Popped(1)) + 1] = x /\ st \in Seq(H)
    BY <1>8, <1>12, AppendFacts, Zenon
  <2>5. stack' = Append(st, y)
    BY <1>13
  <2> HIDE DEF st
  <2>6. \A s \in Seq(H), z \in H : \A i \in 1 .. Len(s) : Append(s, z)[i] = s[i]
    OBVIOUS
  <2>2. \A i \in 1 .. Len(st) : stack'[i] = st[i]
    BY <1>9, <2>5, <2>1, <2>6, Zenon
  <2>3. Len(Popped(1)) = Len(stack) - 1 + 0
    BY <1>12, Zenon DEF Changes
  <2>4. Base(frame) + Instr.d = Len(Popped(1)) + 1 /\ Base(frame) + Instr.d \in 1 .. Len(st)
    <3>1. Len(stack) - 1 + 0 = Len(stack) - 1 /\ Len(stack) - 1 \in Nat /\ Len(stack) \in Nat
      BY <1>3, <1>4
    <3>2. Len(Popped(1)) = Len(stack) - 1 /\ Len(st) = Len(stack) - 1 + 1
      BY <2>1, <2>3, <3>1, Zenon
    <3> QED
      BY <1>4, <3>1, <3>2
  <2> QED
    BY <2>1, <2>2, <2>4, Zenon
<1>18. \A z \in new : Keeps(stack'[Base(frame) + z.d], z.is)
  <2>1. Keeps(x, "set")
    BY <1>7, Zenon DEF Keeps
  <2> QED
    BY <1>10, <1>17, <2>1, Zenon
<1>19. Passes(module, H, frame, stack, Instr, pc', 1, 2, new, stack')
  BY <1>3, <1>4, <1>15, <1>16, <1>18, Zenon DEF Passes
<1> QED
  BY <1>8, <1>19, GoesOn, Zenon

LEMMA HasCalledIteratorWorks ==
  ASSUME Works, Verified(module), HasCalledIterator
  PROVE  Works'
<1>1. PICK G, u : Doing(G, u)
  BY Begins, Zenon DEF HasCalledIterator, At
<1>2. /\ Instr.op = "HasIterator" /\ pc' = pc + 1 /\ UNCHANGED <<module, config, frame, go, mode>>
  BY Zenon DEF HasCalledIterator, At, Next1
<1>3. PICK more \in BOOLEAN : stack' = Popped(1) \o <<Iterator(NoName, more), Flag(more)>>
  BY Zenon DEF HasCalledIterator, NoName
<1>4. /\ 1 <= Instr.d /\ Instr.d \in Nat
      /\ Goes(module[frame.prog].code, Instr, pc + 1, 1, 2, {Slot(Instr.d, "set")})
  BY <1>1, <1>2, Situation, Zenon DEF Flows, Iterates, Takes
<1> QED
  BY <1>1, <1>2, <1>3, <1>4, LeavesIterator, Zenon

(* Where no iterator may be found, none is known to be.                    *)
LEMMA HasIteratorWorks ==
  ASSUME Works, Verified(module), HasIterator
  PROVE  Works'
<1>1. PICK G, u : Doing(G, u)
  BY Begins, Zenon DEF HasIterator, At
<1>2. Instr.op = "HasIterator" /\ Interpreting
  BY Zenon DEF HasIterator, At
<1>3. /\ 1 <= Instr.d /\ Instr.d \in Nat /\ stack \in Seq(G) /\ Len(stack) \in Nat
      /\ Goes(module[frame.prog].code, Instr, pc + 1, 1, 2, {Slot(Instr.d, "set")})
      /\ Len(stack) = Base(frame) + Instr.d /\ Base(frame) \in Nat /\ Closed(module, G)
      /\ Fits(module, config, frame, stack, Instr)
  BY <1>1, <1>2, Situation, Zenon DEF Flows, Iterates, Takes, Doing
<1>4. Top(0) = stack[Base(frame) + Instr.d] /\ Base(frame) + Instr.d \in DOMAIN stack
  BY <1>3 DEF Top
<1>5. CASE Top(0).k # "iter"
  <2>1. \A x \in Instr.its : x.d # Instr.d
    BY <1>3, <1>4, <1>5, Zenon DEF Fits, Keeps
  <2>2. KnownFault
    BY <1>2, <2>1, Zenon DEF KnownFault
  <2>3. Panic
    BY <1>5, Zenon DEF HasIterator
  <2> QED
    BY <1>2, <2>2, <2>3, Panics
<1>6. CASE Top(0).k = "iter"
  <2> DEFINE it == Top(0)
             new == {Slot(Instr.d, "set")}
  <2>1. it \in G /\ it = stack[Len(stack)] /\ Len(stack) \in DOMAIN stack
    BY <1>3, <1>4
  <2>2. it.next \in BOOLEAN
    BY <1>3, <1>6, <2>1, SoundNext, Zenon
  <2>3. /\ stack' = Append(stack, Flag(it.next)) /\ pc' = pc + 1
        /\ UNCHANGED <<module, config, frame, go, mode>>
    BY <1>6, Zenon DEF HasIterator, Next1
  <2> HIDE DEF it
  <2>4. Flag(it.next) \in G /\ Flag(it.next).k # "frame"
    BY <1>3, <2>2, Flags, Zenon
  <2>5. /\ stack' \in Seq(G) /\ Len(stack') = Len(stack) + 1
        /\ \A i \in 1 .. Len(stack) : stack'[i] = stack[i]
        /\ stack'[Len(stack) + 1] = Flag(it.next)
    BY <1>3, <2>3, <2>4, AppendFacts
  <2>6. it.k # "frame"
    BY <1>6 DEF it
  <2>7. Changes(G, stack, stack', 1, 2)
    <3>1. 1 <= Len(stack) /\ Len(stack') = Len(stack) - 1 + 2
      BY <1>3, <2>5
    <3>2. \A i \in 1 .. Len(stack) - 1 : stack'[i] = stack[i]
      BY <1>3, <2>5
    <3>3. ASSUME NEW i \in Len(stack) - 1 + 1 .. Len(stack')
          PROVE  stack'[i].k # "frame"
      <4>3. \A l \in Nat : \A j \in l - 1 + 1 .. l + 1 : j = l \/ j = l + 1
        OBVIOUS
      <4>1. i = Len(stack) \/ i = Len(stack) + 1
        BY <1>3, <2>5, <3>3, <4>3, Zenon
      <4>2. Len(stack) \in 1 .. Len(stack)
        BY <1>3, <3>1
      <4> QED
        BY <2>1, <2>4, <2>5, <2>6, <4>1, <4>2
    <3>4. 1 \in Nat /\ 2 \in Nat
      OBVIOUS
    <3> QED
      BY <2>5, <3>1, <3>2, <3>3, <3>4, Zenon DEF Changes
  <2>8. \A z \in new : z.d = Instr.d /\ z.is = "set"
    BY DEF Slot
  <2>9. stack'[Base(frame) + Instr.d] = it
    <3>1. Len(stack) \in 1 .. Len(stack)
      BY <1>3, <2>1
    <3> QED
      BY <1>3, <2>1, <2>5, <3>1, Zenon
  <2>10. Keeps(it, "set")
    BY <1>6 DEF it, Keeps
  <2> HIDE DEF new
  <2>11. \A z \in new : Keeps(stack'[Base(frame) + z.d], z.is)
    BY <2>8, <2>9, <2>10, Zenon
  <2>12. Goes(module[frame.prog].code, Instr, pc', 1, 2, new)
    BY <1>3, <2>3, Zenon DEF new
  <2>13. Passes(module, G, frame, stack, Instr, pc', 1, 2, new, stack')
    BY <1>3, <2>7, <2>11, <2>12, Zenon DEF Passes
  <2>14. G \subseteq G
    OBVIOUS
  <2> QED
    BY <1>1, <1>3, <2>3, <2>13, <2>14, GoesOn, Zenon
<1> QED
  BY <1>5, <1>6

LEMMA DerefIteratorWorks ==
  ASSUME Works, Verified(module), DerefIterator
  PROVE  Works'
<1>1. PICK G, u : Doing(G, u)
  BY Begins, Zenon DEF DerefIterator, At
<1> DEFINE new == {Slot(Instr.d, "ready")}
<1>2. Instr.op = "DerefIterator"
  BY Zenon DEF DerefIterator, At
<1>3. /\ Slot(Instr.d, "set") \in Instr.its
      /\ Goes(module[frame.prog].code, Instr, pc + 1, 0, 2, new)
      /\ Instr.d \in Nat /\ stack \in Seq(G) /\ Val \in G /\ Closed(module, G) /\ Len(stack) \in Nat
  BY <1>1, <1>2, Situation, Zenon DEF Flows, Iterates, Doing, Closed
<1>4. /\ Top(0).k = "iter" /\ Top(0) = stack[Len(stack)] /\ Len(stack) \in DOMAIN stack
      /\ 1 <= Instr.d /\ Len(stack) = Base(frame) + Instr.d
  BY <1>1, <1>3, TopSlot, Zenon
<1>5. /\ Top(0).next /\ stack' = Pushed(stack, 2) /\ pc' = pc + 1
      /\ UNCHANGED <<module, config, frame, go, mode>>
  BY <1>4, Zenon DEF DerefIterator, Next1
<1>6. Changes(G, stack, stack', 0, 2)
  <2>1. Changes(G, stack, stack, 0, 0)
    BY <1>3, NoChange, Zenon
  <2>2. 2 \in Nat /\ 0 + 2 = 2
    OBVIOUS
  <2> QED
    BY <1>3, <1>5, <2>1, <2>2, PushChange, Zenon
<1>7. \A y \in new : y.d = Instr.d /\ y.is = "ready"
  BY DEF Slot
<1> HIDE DEF new
<1>8. stack'[Base(frame) + Instr.d] = Top(0)
  <2>1. \A i \in 1 .. Len(stack) - 0 : stack'[i] = stack[i]
    BY <1>6, Zenon DEF Changes
  <2>2. Len(stack) \in 1 .. Len(stack) - 0
    BY <1>3, <1>4
  <2> QED
    BY <1>4, <2>1, <2>2, Zenon
<1>9. \A y \in new : Keeps(stack'[Base(frame) + y.d], y.is)
  <2>1. Keeps(Top(0), "ready")
    BY <1>4, <1>5, Zenon DEF Keeps
  <2> QED
    BY <1>7, <1>8, <2>1, Zenon
<1>10. 0 <= Instr.d
  BY <1>3
<1>11. Passes(module, G, frame, stack, Instr, pc', 0, 2, new, stack')
  BY <1>3, <1>5, <1>6, <1>9, <1>10, Zenon DEF Passes
<1>12. G \subseteq G
  OBVIOUS
<1> QED
  BY <1>1, <1>3, <1>5, <1>11, <1>12, GoesOn, Zenon

LEMMA NextNativeWorks ==
  ASSUME Works, Verified(module), NextNative
  PROVE  Works'
<1>1. PICK G, u : Doing(G, u)
  BY Begins, Zenon DEF NextNative, At
<1>2. Instr.op = "NextIterator"
  BY Zenon DEF NextNative, At
<1>3. /\ Slot(Instr.d, "ready") \in Instr.its /\ Instr.d \in Nat
      /\ Goes(module[frame.prog].code, Instr, pc + 1, 1, 2, {Slot(Instr.d, "set")})
  BY <1>1, <1>2, Situation, Zenon DEF Flows, Iterates
<1>4. Top(0).k = "iter" /\ 1 <= Instr.d
  BY <1>1, <1>3, TopSlot, Zenon
<1>5. PICK more \in BOOLEAN : stack' = Popped(1) \o <<Iterator(NoName, more), Flag(more)>>
  BY <1>4, Zenon DEF NextNative, NoName
<1>6. pc' = pc + 1 /\ UNCHANGED <<module, config, frame, go, mode>>
  BY <1>4, Zenon DEF NextNative, Next1
<1> QED
  BY <1>1, <1>3, <1>4, <1>5, <1>6, LeavesIterator, Zenon

-----------------------------------------------------------------------------
(* Native functions that run, and their frames, are counted.               *)

LEMMA RunningFacts ==
  ASSUME NEW G, NEW gos \in Seq(G), NEW act \in G
  PROVE  /\ IsFiniteSet(Running(gos)) /\ Cardinality(Running(gos)) \in Nat
         /\ act.k = "native" =>
              Cardinality(Running(Append(gos, act))) = Cardinality(Running(gos)) + 1
         /\ act.k \notin {"native", "siter"} => Running(Append(gos, act)) = Running(gos)
         /\ act.k = "siter" => Cardinality(Running(Append(gos, act))) = 0
<1> DEFINE l == Len(gos)
           a == Append(gos, act)
<1>1. /\ l \in Nat /\ DOMAIN gos = 1 .. l /\ DOMAIN a = 1 .. l + 1
      /\ \A i \in 1 .. l : a[i] = gos[i]
      /\ a[l + 1] = act
  OBVIOUS
<1> HIDE DEF l, a
<1>2. ASSUME NEW s, NEW i
      PROVE  i \in Running(s) <=> /\ i \in DOMAIN s /\ s[i].k = "native"
                                  /\ \A j \in DOMAIN s : s[j].k = "siter" => j < i
  BY Zenon DEF Running
<1>3. IsFiniteSet(Running(gos)) /\ Cardinality(Running(gos)) \in Nat /\ Running(gos) \subseteq 1 .. l
  <2>1. Running(gos) \subseteq 1 .. l
    BY <1>1, <1>2, Zenon
  <2>2. IsFiniteSet(1 .. l)
    BY <1>1, FS_Interval
  <2> QED
    BY <2>1, <2>2, FS_Subset, FS_CardinalityType
<1>4. ASSUME act.k = "native"
      PROVE  Cardinality(Running(a)) = Cardinality(Running(gos)) + 1
  <2>1. ASSUME NEW i
        PROVE  i \in Running(a) <=> i \in Running(gos) \cup {l + 1}
    <3>1. i \in Running(a) => i \in Running(gos) \cup {l + 1}
      <4>1. SUFFICES ASSUME i \in Running(a), i # l + 1 PROVE i \in Running(gos)
        OBVIOUS
      <4>2. /\ i \in 1 .. l + 1 /\ a[i].k = "native"
            /\ \A j \in 1 .. l + 1 : a[j].k = "siter" => j < i
        BY <1>1, <1>2, <4>1
      <4>3. i \in 1 .. l /\ gos[i].k = "native" /\ \A j \in 1 .. l : gos[j].k = "siter" => j < i
        BY <1>1, <4>1, <4>2
      <4> QED
        BY <1>1, <1>2, <4>3
    <3>2. i \in Running(gos) => i \in Running(a)
      <4>1. SUFFICES ASSUME i \in Running(gos) PROVE i \in Running(a)
        OBVIOUS
      <4>2. i \in 1 .. l /\ gos[i].k = "native" /\ \A j \in 1 .. l : gos[j].k = "siter" => j < i
        BY <1>1, <1>2, <4>1
      <4>3. /\ i \in 1 .. l + 1 /\ a[i].k = "native"
            /\ \A j \in 1 .. l + 1 : a[j].k = "siter" => j < i
        BY <1>1, <1>4, <4>2
      <4> QED
        BY <1>1, <1>2, <4>3
    <3>3. l + 1 \in Running(a)
      <4>1. /\ l + 1 \in 1 .. l + 1 /\ a[l + 1].k = "native"
            /\ \A j \in 1 .. l + 1 : a[j].k = "siter" => j < l + 1
        BY <1>1, <1>4
      <4> QED
        BY <1>1, <1>2, <4>1
    <3> QED
      BY <3>1, <3>2, <3>3
  <2>2. Running(a) = Running(gos) \cup {l + 1}
    BY <2>1
  <2>3. l + 1 \notin Running(gos)
    BY <1>1, <1>3
  <2> QED
    BY <1>3, <2>2, <2>3, FS_AddElement
<1>5. ASSUME act.k \notin {"native", "siter"}
      PROVE  Running(a) = Running(gos)
  <2>1. ASSUME NEW i
        PROVE  i \in Running(a) <=> i \in Running(gos)
    <3>1. i \in Running(a) => i \in Running(gos)
      <4>1. SUFFICES ASSUME i \in Running(a) PROVE i \in Running(gos)
        OBVIOUS
      <4>2. /\ i \in 1 .. l + 1 /\ a[i].k = "native"
            /\ \A j \in 1 .. l + 1 : a[j].k = "siter" => j < i
        BY <1>1, <1>2, <4>1
      <4>3. i # l + 1
        BY <1>1, <1>5, <4>2
      <4>4. i \in 1 .. l /\ gos[i].k = "native" /\ \A j \in 1 .. l : gos[j].k = "siter" => j < i
        BY <1>1, <4>2, <4>3
      <4> QED
        BY <1>1, <1>2, <4>4
    <3>2. i \in Running(gos) => i \in Running(a)
      <4>1. SUFFICES ASSUME i \in Running(gos) PROVE i \in Running(a)
        OBVIOUS
      <4>2. i \in 1 .. l /\ gos[i].k = "native" /\ \A j \in 1 .. l : gos[j].k = "siter" => j < i
        BY <1>1, <1>2, <4>1
      <4>3. /\ i \in 1 .. l + 1 /\ a[i].k = "native"
            /\ \A j \in 1 .. l + 1 : a[j].k = "siter" => j < i
        BY <1>1, <1>5, <4>2
      <4> QED
        BY <1>1, <1>2, <4>3
    <3> QED
      BY <3>1, <3>2
  <2> QED
    BY <2>1
<1>6. ASSUME act.k = "siter"
      PROVE  Cardinality(Running(a)) = 0
  <2>1. ASSUME NEW i \in Running(a)
        PROVE  FALSE
    <3>1. /\ i \in 1 .. l + 1
          /\ \A j \in 1 .. l + 1 : a[j].k = "siter" => j < i
      BY <1>1, <1>2, <2>1
    <3>2. a[l + 1].k = "siter" /\ l + 1 \in 1 .. l + 1
      BY <1>1, <1>6
    <3> QED
      BY <1>1, <3>1, <3>2
  <2>2. Running(a) = {}
    BY <2>1
  <2> QED
    BY <2>2, FS_EmptySet
<1> QED
  BY <1>3, <1>4, <1>5, <1>6 DEF a

(* A native function that has called stays the one it is.                  *)
Replaced(gos, a) == [gos EXCEPT ![Len(gos)] = a]

LEMMA Marked ==
  ASSUME NEW G, NEW gos \in Seq(G), gos # <<>>, NEW a, a.k = Last(gos).k, NEW H, G \subseteq H, a \in H
  PROVE  /\ Replaced(gos, a) \in Seq(H) /\ Replaced(gos, a) # <<>> /\ Last(Replaced(gos, a)) = a
         /\ Front(Replaced(gos, a)) = Front(gos)
         /\ Running(Replaced(gos, a)) = Running(gos)
<1> DEFINE l == Len(gos)
           gp == Replaced(gos, a)
<1>1. l \in Nat /\ l > 0 /\ DOMAIN gos = 1 .. l /\ Last(gos) = gos[l] /\ gos \in Seq(H)
  <2>1. l \in Nat /\ l > 0 /\ Last(gos) = gos[l]
    BY FrontFacts
  <2>2. gos \in Seq(H)
    BY MoreCells
  <2> QED
    BY <2>1, <2>2
<1>2. /\ gp \in Seq(H) /\ Len(gp) = l /\ DOMAIN gp = 1 .. l /\ gp[l] = a
      /\ \A i \in 1 .. l : i # l => gp[i] = gos[i]
  <2> HIDE DEF l, gp
  <2>1. gp = [i \in 1 .. l |-> IF i = l THEN a ELSE gos[i]]
    BY <1>1, Zenon DEF l, gp, Replaced
  <2>2. \A i \in 1 .. l : gos[i] \in H
    BY <1>1
  <2>3. DOMAIN gp = 1 .. l /\ \A i \in 1 .. l : gp[i] = (IF i = l THEN a ELSE gos[i])
    BY <2>1, Zenon
  <2>4. gp \in [1 .. l -> H]
    BY <2>1, <2>2, Zenon
  <2>5. gp \in Seq(H) /\ Len(gp) = l
    BY <1>1, <2>4
  <2>6. l \in 1 .. l
    BY <1>1
  <2> QED
    BY <2>3, <2>5, <2>6, Zenon
<1> HIDE DEF l, gp
<1>3. gp # <<>>
  BY <1>1, <1>2
<1>4. Last(gp) = a
  BY <1>2, <1>3, FrontFacts
<1>5. Front(gp) = Front(gos)
  <2>3. Len(gos) = l
    BY DEF l
  <2>4. \A i \in 1 .. l - 1 : i \in 1 .. l /\ i # l
    BY <1>1
  <2>5. l - 1 \in 0 .. l /\ l - 1 <= l
    BY <1>1
  <2>1. l - 1 \in 0 .. Len(gp) /\ l - 1 <= Len(gos) /\ \A i \in 1 .. l - 1 : gp[i] = gos[i]
    BY <1>2, <2>3, <2>4, <2>5, Zenon
  <2>2. SubSeq(gp, 1, l - 1) = SubSeq(gos, 1, l - 1)
    <3>1. gp \in Seq(H) /\ gos \in Seq(H)
      BY <1>1, <1>2, Zenon
    <3> QED
      BY <2>1, <3>1, CutOfSame
  <2> QED
    BY <1>2, <2>2, Zenon DEF Front, l
<1>6. \A i \in 1 .. l : gp[i].k = gos[i].k
  BY <1>1, <1>2
<1>7. Running(gp) = Running(gos)
  BY <1>1, <1>2, <1>6, Zenon DEF Running
<1> QED
  BY <1>2, <1>3, <1>4, <1>5, <1>7, Zenon DEF gp

(* Frames of native functions on the stack, and one more.                  *)
LEMMA SavedFacts ==
  ASSUME NEW G, NEW st \in Seq(G), NEW x \in G
  PROVE  /\ IsFiniteSet(Saved(st)) /\ Cardinality(Saved(st)) \in Nat
         /\ x.k # "frame" \/ x.fr.ftype \notin NativeTypes => Saved(Append(st, x)) = Saved(st)
         /\ x.k = "frame" /\ x.fr.ftype \in NativeTypes =>
              Cardinality(Saved(Append(st, x))) = Cardinality(Saved(st)) + 1
<1> DEFINE l == Len(st)
           a == Append(st, x)
<1>1. /\ l \in Nat /\ DOMAIN st = 1 .. l /\ DOMAIN a = 1 .. l + 1
      /\ \A i \in 1 .. l : a[i] = st[i]
      /\ a[l + 1] = x
  OBVIOUS
<1> HIDE DEF l, a
<1>2. ASSUME NEW s, NEW i
      PROVE  i \in Saved(s) <=> i \in DOMAIN s /\ s[i].k = "frame" /\ s[i].fr.ftype \in NativeTypes
  BY Zenon DEF Saved
<1>3. IsFiniteSet(Saved(st)) /\ Cardinality(Saved(st)) \in Nat /\ Saved(st) \subseteq 1 .. l
  <2>1. Saved(st) \subseteq 1 .. l
    BY <1>1, <1>2, Zenon
  <2>2. IsFiniteSet(1 .. l)
    BY <1>1, FS_Interval
  <2> QED
    BY <2>1, <2>2, FS_Subset, FS_CardinalityType
<1>4. \A i : i \in 1 .. l + 1 <=> i \in 1 .. l \/ i = l + 1
  BY <1>1
<1>5. l + 1 \notin 1 .. l
  BY <1>1
<1>6. ASSUME NEW i
      PROVE  i \in Saved(a)
               <=> (i \in Saved(st) \/ (i = l + 1 /\ x.k = "frame" /\ x.fr.ftype \in NativeTypes))
  <2>1. CASE i = l + 1
    <3>1. i \in DOMAIN a /\ a[i] = x /\ i \notin Saved(st)
      BY <1>1, <1>3, <1>4, <1>5, <2>1, Zenon
    <3> QED
      BY <1>2, <2>1, <3>1, Zenon
  <2>2. CASE i # l + 1
    <3>1. i \in DOMAIN a <=> i \in DOMAIN st
      BY <1>1, <1>4, <2>2, Zenon
    <3>2. i \in DOMAIN st => a[i] = st[i]
      BY <1>1, Zenon
    <3> QED
      BY <1>2, <2>2, <3>1, <3>2, Zenon
  <2> QED
    BY <2>1, <2>2
<1>7. ASSUME x.k # "frame" \/ x.fr.ftype \notin NativeTypes
      PROVE  Saved(a) = Saved(st)
  BY <1>6, <1>7, Zenon
<1>8. ASSUME x.k = "frame" /\ x.fr.ftype \in NativeTypes
      PROVE  Cardinality(Saved(a)) = Cardinality(Saved(st)) + 1
  <2>1. Saved(a) = Saved(st) \cup {l + 1}
    BY <1>6, <1>8, Zenon
  <2>2. l + 1 \notin Saved(st)
    BY <1>3, <1>5
  <2> QED
    BY <1>3, <2>1, <2>2, FS_AddElement
<1> QED
  BY <1>3, <1>7, <1>8 DEF a

(* Values on top are no frames.                                            *)
LEMMA SavedPushed ==
  ASSUME NEW G, NEW st \in Seq(G), Val \in G, NEW n \in Nat
  PROVE  Saved(Pushed(st, n)) = Saved(st)
<1> DEFINE l == Len(st)
           a == Pushed(st, n)
<1>1. /\ a \in Seq(G) /\ Len(a) = l + n /\ l \in Nat
      /\ \A i \in 1 .. l : a[i] = st[i]
      /\ \A i \in l + 1 .. l + n : a[i] = Val
  BY PushedFacts, Zenon
<1>2. DOMAIN st = 1 .. l
  OBVIOUS
<1> HIDE DEF l, a
<1>3. DOMAIN a = 1 .. l + n
  BY <1>1
<1>4. \A i : i \in 1 .. l + n <=> i \in 1 .. l \/ i \in l + 1 .. l + n
  BY <1>1
<1>5. Val.k # "frame"
  BY DEF Val
<1>6. ASSUME NEW i PROVE i \in Saved(a) <=> i \in Saved(st)
  BY <1>1, <1>2, <1>3, <1>4, <1>5, Zenon DEF Saved
<1> QED
  BY <1>6 DEF a

-----------------------------------------------------------------------------
(* A frame that is entered.                                                *)

LEMMA TypesDiffer ==
  ASSUME NEW t \in ScriptTypes
  PROVE  t \notin NativeTypes
BY DEF ScriptTypes, NativeTypes

LEMMA SavedFrame ==
  ASSUME NEW f, NEW p
  PROVE  Frame(f, p).k = "frame" /\ Frame(f, p).fr = f /\ Frame(f, p).pc = p
BY DEF Frame

(* The frame that prologue makes above the cells of st, on the stack su.   *)
Fresh(st, t, n, p, c) ==
  [ftype |-> t, farg |-> n, framep |-> Len(st) - 1 - n, prog |-> p, excep |-> <<>>, clo |-> c]
Callable(m, G, st, t, n, p, c, x) ==
  /\ st \in Seq(G) /\ n \in Nat /\ n + 1 <= Len(st)
  /\ \A i \in Len(st) - n .. Len(st) : st[i].k # "frame"
  /\ t \in NativeTypes \cup ScriptTypes /\ p \in ProgramNames(m) /\ c \in ProgramNames(m)
  /\ x \in G /\ x.k = "frame"
LaidOut(m, G, st, t, n, p, c, x, f, su) ==
  /\ f \in FrameRecords(m) /\ f.ftype = t /\ f.prog = p /\ f.excep = <<>> /\ f.clo = c
  /\ Base(f) = Len(su) /\ PrevPos(f) = Len(su) /\ su \in Seq(G) /\ su[PrevPos(f)] = x
  /\ Sits(f, su, x.fr)
  /\ SubSeq(su, 1, f.framep) = SubSeq(st, 1, Len(st) - (n + 1))
  /\ f.framep = Len(SubSeq(st, 1, Len(st) - (n + 1)))
  /\ f.framep = Len(st) - (n + 1)
  /\ f.framep = 0 => Alone(f, su)

LEMMA FreshFrame ==
  ASSUME NEW m, NEW G, NEW st, NEW t, NEW n, NEW p, NEW c, NEW x, Callable(m, G, st, t, n, p, c, x)
  PROVE  LaidOut(m, G, st, t, n, p, c, x, Fresh(st, t, n, p, c), Append(st, x))
<1> DEFINE f == Fresh(st, t, n, p, c)
           su == Append(st, x)
           l == Len(st)
           T == NativeTypes \cup ScriptTypes \cup {"top"}
<1> SUFFICES ASSUME st \in Seq(G), n \in Nat, n + 1 <= l, \A i \in l - n .. l : st[i].k # "frame",
                    t \in NativeTypes \cup ScriptTypes, p \in ProgramNames(m), c \in ProgramNames(m),
                    x \in G, x.k = "frame"
             PROVE  LaidOut(m, G, st, t, n, p, c, x, f, su)
  BY Zenon DEF Callable
<1>1. l \in Nat /\ n + 1 <= l /\ n \in Nat
  OBVIOUS
<1>2. \A i \in l - n .. l : st[i].k # "frame"
  OBVIOUS
<1>3. /\ su \in Seq(G) /\ Len(su) = l + 1 /\ su[l + 1] = x
      /\ \A i \in 1 .. l : su[i] = st[i]
  BY AppendFacts
<1>4. f = [ftype |-> t, farg |-> n, framep |-> l - 1 - n, prog |-> p, excep |-> <<>>, clo |-> c]
  BY Zenon DEF Fresh
<1>5. t \in T
  OBVIOUS
<1> HIDE DEF f, su, l, T
<1>6. l - 1 - n \in Nat /\ l - 1 - n = l - (n + 1)
  BY <1>1
<1>7. /\ f.ftype = t /\ f.farg = n /\ f.framep = l - 1 - n /\ f.prog = p /\ f.excep = <<>> /\ f.clo = c
  BY <1>4
<1>8. f \in FrameRecords(m)
  <2> DEFINE e == <<>>
             P == ProgramNames(m)
  <2>1. e \in Seq(Handler)
    BY NoCells
  <2>2. f = [ftype |-> t, farg |-> n, framep |-> l - 1 - n, prog |-> p, excep |-> e, clo |-> c]
    BY <1>4, Zenon
  <2>3. p \in P /\ c \in P /\ n \in Nat
    OBVIOUS
  <2> HIDE DEF e, P
  <2>4. f \in [ftype : T, farg : Nat, framep : Nat, prog : P, excep : Seq(Handler), clo : P]
    BY <1>5, <1>6, <2>1, <2>2, <2>3
  <2> QED
    BY <2>4, Zenon DEF FrameRecords, T, P
<1>9. Base(f) = l + 1 /\ PrevPos(f) = l + 1
  <2>1. l - 1 - n + n + 2 = l + 1
    BY <1>1
  <2>2. Base(f) = l - 1 - n + n + 2 /\ PrevPos(f) = l - 1 - n + n + 2
    BY <1>7, Zenon DEF Base, PrevPos
  <2> QED
    BY <2>1, <2>2, Zenon
<1>10. DOMAIN su = 1 .. l + 1 /\ l + 1 \in DOMAIN su
  BY <1>1, <1>3
<1>11. \A i \in f.framep + 1 .. l + 1 : su[i].k = "frame" => i = l + 1
  <2>1. SUFFICES ASSUME NEW i \in f.framep + 1 .. l + 1, i # l + 1 PROVE su[i].k # "frame"
    OBVIOUS
  <2>2. i \in l - n .. l /\ i \in 1 .. l
    <3>1. i \in (l - 1 - n) + 1 .. l + 1 /\ i # l + 1
      BY <1>7, <2>1, Zenon
    <3> QED
      BY <1>1, <3>1
  <2> QED
    BY <1>2, <1>3, <2>2, Zenon
<1>12. Sits(f, su, x.fr)
  BY <1>3, <1>9, <1>10, <1>11, Zenon DEF Sits
<1>13. /\ SubSeq(su, 1, l - (n + 1)) = SubSeq(st, 1, l - (n + 1))
       /\ Len(SubSeq(st, 1, l - (n + 1))) = l - (n + 1)
  <2>1. l - (n + 1) \in 0 .. Len(su) /\ l - (n + 1) \in 0 .. Len(st) /\ l - (n + 1) <= Len(st)
    <3>1. Len(su) = l + 1 /\ Len(st) = l
      BY <1>3 DEF l
    <3> QED
      BY <1>1, <3>1
  <2>2. \A i \in 1 .. l - (n + 1) : su[i] = st[i]
    BY <1>1, <1>3
  <2>3. Len(SubSeq(st, 1, l - (n + 1))) = l - (n + 1)
    BY <2>1, CutFacts
  <2>4. SubSeq(su, 1, l - (n + 1)) = SubSeq(st, 1, l - (n + 1))
    BY <1>3, <2>1, <2>2, CutOfSame
  <2> QED
    BY <2>3, <2>4
<1>14. f.framep = 0 => Alone(f, su)
  <2>1. SUFFICES ASSUME f.framep = 0 PROVE Alone(f, su)
    OBVIOUS
  <2>2. \A i \in DOMAIN su : su[i].k = "frame" => i = PrevPos(f)
    BY <1>9, <1>10, <1>11, <2>1
  <2> QED
    BY <1>3, <1>9, <1>10, <2>2, Zenon DEF Alone
<1> QED
  BY <1>3, <1>6, <1>7, <1>8, <1>9, <1>12, <1>13, <1>14, Zenon DEF LaidOut, f, su, l

(* At the first instruction of a program there is nothing on the stack.    *)
LEMMA FirstInstr ==
  ASSUME NEW m, Verified(m), NEW f, f.prog \in DOMAIN m, f.excep = <<>>, NEW st, Len(st) = Base(f),
         Base(f) \in Nat, NEW cf, f.prog # "rule" \/ cf = 0
  PROVE  Stands(m, cf, f, st, 0) /\ Catches(m, cf, f, st)
<1>1. Expects(m[f.prog].code, 0, 0, <<>>, 0, {})
  BY Zenon DEF Verified
<1>2. Handlers(f, <<>>) = <<>>
  <2>1. <<>> \in Seq([pc : Nat, d : Nat])
    BY NoCells
  <2> QED
    BY <2>1, HandlersFacts
<1>3. Len(st) = Base(f) + 0
  OBVIOUS
<1>5. cf = 0 => Opened(m, cf, 0)
  BY DEF Opened
<1>4. Ready(m, cf, f, st, 0, 0, <<>>, 0, {})
  BY <1>1, <1>2, <1>3, <1>5, Zenon DEF Ready
<1> QED
  BY <1>4, Reached, Zenon DEF Catches

(* A caller, a saved frame and a Go function join the set.                 *)
With(G, c, x, act) == G \cup {c, x, act}

LEMMA Joined ==
  ASSUME NEW m, NEW G, Closed(m, G), NEW c, c.k = "waiting", Above(m, G, c.up, c.cf, c.fr, c.st, c.go),
         NEW x, x.k \notin {"iter", "waiting"}, NEW act, act.k \notin {"iter", "waiting"}
  PROVE  /\ Closed(m, With(G, c, x, act)) /\ G \subseteq With(G, c, x, act)
         /\ c \in With(G, c, x, act) /\ x \in With(G, c, x, act) /\ act \in With(G, c, x, act)
<1> DEFINE H == With(G, c, x, act)
<1>1. G \subseteq H /\ c \in H /\ x \in H /\ act \in H /\ \A y \in H \ G : y = c \/ y = x \/ y = act
  BY Zenon DEF With
<1> HIDE DEF H
<1>2. Above(m, H, c.up, c.cf, c.fr, c.st, c.go)
  BY <1>1, MoreAbove, Zenon
<1>3. c.k # "iter"
  OBVIOUS
<1>4. Fine(m, H, c)
  BY <1>2, <1>3, Zenon DEF Fine
<1>5. Fine(m, H, x) /\ Fine(m, H, act)
  BY Inert, Zenon
<1>6. \A y \in H \ G : Fine(m, H, y)
  BY <1>1, <1>4, <1>5, Zenon
<1> QED
  BY <1>1, <1>6, StaysClosed, Zenon DEF H

(* One more Go function runs.                                              *)
LEMMA Starts ==
  ASSUME NEW m, NEW H, NEW gos \in Seq(H), NEW act \in H,
         act.k \in {"rule", "native", "sfunc", "siter"},
         act.k = "sfunc" => act.clo \in CalledBack(m),
         act.k = "native" => act \in NativeFunctions(m)
  PROVE  GoFunctions(m, H, Append(gos, act)) /\ Front(Append(gos, act)) = gos /\ Last(Append(gos, act)) = act
<1>1. /\ Append(gos, act) \in Seq(H) /\ Append(gos, act) # <<>>
      /\ Last(Append(gos, act)) = act /\ Front(Append(gos, act)) = gos
  BY AppendFacts
<1> QED
  BY <1>1, Zenon DEF GoFunctions

(* A script begins, or fails before it does.                               *)
LEMMA EntersScript ==
  ASSUME module \in Modules, Verified(module), UNCHANGED module,
         NEW H, Closed(module, H), NEW c, Caller(H, c, config'),
         frame' \in FrameRecords(module), stack' \in Seq(H), GoFunctions(module, H, go'),
         Last(go').k # "native", Matched(go', stack', frame'),
         Linked(module, c, frame', stack', go'), ScriptFrame(module, frame'),
         frame'.excep = <<>>, Len(stack') = Base(frame'),
         (mode' = "run" /\ pc' = 0) \/ (mode' = "throw" /\ pc' \in Nat)
  PROVE  Works'
<1>1. Above(module, H, c, config', frame', stack', go')
  BY Zenon DEF Above
<1>2. frame'.prog # "rule"
  BY Zenon DEF Linked
<1>3. Base(frame') \in Nat /\ frame'.prog \in DOMAIN module
  BY FrameFacts, Zenon DEF ScriptFrame
<1>4. Stands(module, config', frame', stack', 0) /\ Catches(module, config', frame', stack')
  BY <1>2, <1>3, FirstInstr, Zenon
<1>5. CASE mode' = "run" /\ pc' = 0
  <2>1. Executes(module, H, c, config', stack', frame', pc', go')
    BY <1>1, <1>4, <1>5, Zenon DEF Executes
  <2>2. pc' \in Nat
    BY <1>5
  <2> QED
    BY <1>5, <2>1, <2>2, Runs, Zenon
<1>6. CASE mode' = "throw" /\ pc' \in Nat
  <2>1. Throws(module, H, c, config', stack', frame', go')
    BY <1>1, <1>4, Zenon DEF Throws
  <2> QED
    BY <1>6, <2>1, Zenon DEF Works, Machine, Current
<1> QED
  BY <1>5, <1>6

-----------------------------------------------------------------------------
(* A script calls.                                                         *)

(* Above the place of its saved frame a stack has no frames.               *)
LEMMA NoFrames ==
  ASSUME NEW m, NEW G, NEW u, NEW cf, NEW f, NEW st, NEW gos, Above(m, G, u, cf, f, st, gos)
  PROVE  /\ \A i \in DOMAIN st : i > Base(f) => st[i].k # "frame"
         /\ Base(f) \in DOMAIN st /\ PrevPos(f) = Base(f) /\ st[Base(f)].k = "frame"
<1>1. PICK below : Sits(f, st, below)
  BY Zenon DEF Above, OfRule, Linked
<1>2. f \in FrameRecords(m) /\ st \in Seq(G)
  BY Zenon DEF Above
<1>3. f.framep \in Nat /\ f.farg \in Nat /\ Base(f) = f.framep + f.farg + 2 /\ PrevPos(f) = Base(f)
  BY <1>2, FrameFacts
<1>4. /\ Base(f) \in DOMAIN st /\ st[Base(f)].k = "frame"
      /\ \A i \in f.framep + 1 .. Len(st) : st[i].k = "frame" => i = Base(f)
  BY <1>1, <1>3, Zenon DEF Sits
<1>5. \A i \in DOMAIN st : i > Base(f) => i \in f.framep + 1 .. Len(st) /\ i # Base(f)
  BY <1>2, <1>3
<1> QED
  BY <1>3, <1>4, <1>5, Zenon

(* The caller waits: it can go on with a value in place of the function    *)
(* and its arguments, and its handler can take over.                       *)
LEMMA Pausing ==
  ASSUME NEW G, NEW u, Doing(G, u), NEW n \in Nat, Takes(Instr, n + 1),
         Goes(module[frame.prog].code, Instr, pc + 1, n + 1, 1, {})
  PROVE  /\ ScriptWaits(module, Waiting(u, config, frame, Popped(n + 1), pc + 1, go))
         /\ Above(module, G, u, config, frame, Popped(n + 1), go)
         /\ n + 1 <= Len(stack) /\ Popped(n + 1) = SubSeq(stack, 1, Len(stack) - (n + 1))
         /\ \A i \in Len(stack) - n .. Len(stack) : stack[i].k # "frame"
<1> DEFINE st == Popped(n + 1)
           c == Waiting(u, config, frame, st, pc + 1, go)
           I == InstrAt(module, frame, pc)
           code == module[frame.prog].code
<1>1. Base(frame) \in Nat /\ Len(stack) \in Nat /\ Len(stack) = Base(frame) + I.d /\ I.d \in Nat
  BY Situation, Zenon
<1>2. /\ frame \in FrameRecords(module) /\ stack \in Seq(G)
      /\ Above(module, G, u, config, frame, stack, go)
      /\ ScriptFrame(module, frame) /\ Stands(module, config, frame, stack, pc)
  BY Situation, Zenon
<1>3. /\ Last(go).k # "native" /\ Verified(module) /\ Closed(module, G) /\ Val \in G
  BY Situation, Zenon DEF Doing, Closed
<1>4. Takes(I, n + 1) /\ Goes(code, I, pc + 1, n + 1, 1, {}) /\ Instr = I
  BY Situation, Zenon
<1>5. n + 1 <= I.d /\ n + 1 \in Nat
  <2>1. n + 1 <= I.d
    BY <1>4, Zenon DEF Takes
  <2>2. n + 1 \in Nat
    OBVIOUS
  <2> QED
    BY <2>1, <2>2
<1>6. /\ Changes(G, stack, st, n + 1, 0) /\ n + 1 <= Len(stack) /\ st \in Seq(G)
  BY <1>4, <1>5, PopsChange, Zenon
<1>7. st = SubSeq(stack, 1, Len(stack) - (n + 1))
  BY Zenon DEF Popped
<1> HIDE DEF st
<1>8. c.cf = config /\ c.fr = frame /\ c.st = st /\ c.pc = pc + 1 /\ c.go = go
  BY DEF Waiting
<1> HIDE DEF c, I, code
<1>9. Len(st) = Len(stack) - (n + 1) + 0 /\ \A i \in 1 .. Len(stack) - (n + 1) : st[i] = stack[i]
  BY <1>6, Zenon DEF Changes
<1>10. Above(module, G, u, config, frame, st, go)
  <2>1. SameCall(frame, frame)
    BY <1>2, SameCalls
  <2>2. Base(frame) <= Len(stack) - (n + 1)
    BY <1>1, <1>5
  <2>3. G \subseteq G
    OBVIOUS
  <2> QED
    BY <1>2, <1>6, <2>1, <2>2, <2>3, Onward, Zenon
<1>11. Stands(module, config, frame, Append(st, Val), pc + 1)
  <2>1. Val.k # "frame" /\ 0 + 1 = 1
    BY DEF Val
  <2>2. Changes(G, stack, Append(st, Val), n + 1, 1)
    BY <1>2, <1>3, <1>6, <2>1, AppendChange, Zenon
  <2> DEFINE new == {}
             I2 == InstrAt(module, frame, pc)
  <2>3. \A x \in new : Keeps(Append(st, Val)[Base(frame) + x.d], x.is)
    OBVIOUS
  <2>4. n + 1 <= I2.d /\ Goes(module[frame.prog].code, I2, pc + 1, n + 1, 1, new)
    BY <1>4, <1>5, Zenon DEF I, code
  <2>5. /\ frame \in FrameRecords(module) /\ stack \in Seq(G)
        /\ Stands(module, config, frame, stack, pc) /\ Verified(module)
    BY <1>2, <1>3
  <2> HIDE DEF new
  <2> QED
    BY <2>2, <2>3, <2>4, <2>5, Advance, Zenon
<1>12. Catches(module, config, frame, st)
  <2>1. Len(stack) - (n + 1) <= Len(st)
    BY <1>1, <1>5, <1>9
  <2> QED
    BY <1>2, <1>3, <1>4, <1>5, <1>6, <1>9, <2>1, Landing, Zenon DEF I
<1>13. \A i \in Len(stack) - n .. Len(stack) : stack[i].k # "frame"
  <2>1. \A i \in DOMAIN stack : i > Base(frame) => stack[i].k # "frame"
    BY <1>2, NoFrames
  <2>2. DOMAIN stack = 1 .. Len(stack)
    BY <1>2
  <2>3. ASSUME NEW b \in Nat, NEW l \in Nat, NEW d \in Nat, l = b + d, n + 1 <= d, NEW i \in l - n .. l
        PROVE  i \in 1 .. l /\ i > b
    BY <2>3
  <2>4. \A i \in Len(stack) - n .. Len(stack) : i \in 1 .. Len(stack) /\ i > Base(frame)
    BY <1>1, <1>5, <2>3, Zenon
  <2> QED
    BY <2>1, <2>2, <2>4, Zenon
<1>14. ScriptWaits(module, c)
  BY <1>2, <1>3, <1>8, <1>11, <1>12, Zenon DEF ScriptWaits
<1> QED
  BY <1>6, <1>7, <1>10, <1>13, <1>14, Zenon DEF st, c

LEMMA CallScriptWorks ==
  ASSUME Works, Verified(module), CallScript
  PROVE  Works'
<1>1. PICK G, u : Doing(G, u)
  BY Begins, Zenon DEF CallScript, At
<1> DEFINE n == Instr.arg
           t == IF Instr.op = "SCall" THEN "script" ELSE "sfunc"
           clo == IF Instr.op = "SCall" THEN NoName ELSE Instr.f
           c == Waiting(u, config, frame, Popped(n + 1), pc + 1, go)
           x == Frame(frame, pc + 1)
           H == With(G, c, x, Val)
<1>2. /\ Instr.op \in {"SCall", "VCall"}
      /\ stack' = Append(stack, x) /\ frame' = Fresh(stack, t, n, Instr.f, clo)
      /\ UNCHANGED <<module, config, go>>
      /\ (mode' = mode /\ pc' = 0) \/ (mode' = "throw" /\ pc' = pc)
  <2>1. Instr.op \in {"SCall", "VCall"} /\ Instr.f # ""
    BY Zenon DEF CallScript, At
  <2>2. ~(Instr.op = "SCall" /\ NeedsClosure(module, Instr.f))
    BY <1>1, Situation, Zenon DEF Flows, Calls
  <2> QED
    BY <2>1, <2>2, Zenon DEF CallScript, Prologue, Fresh, NoName
<1>3. /\ Flows(module, frame.prog, module[frame.prog].code, Instr, pc) /\ n \in Nat /\ pc \in Nat
      /\ stack \in Seq(G) /\ GoFunctions(module, G, go) /\ Last(go).k # "native"
      /\ ScriptFrame(module, frame) /\ Above(module, G, u, config, frame, stack, go)
  BY <1>1, Situation, Zenon
<1>4. /\ Instr.f \in DOMAIN module /\ module[Instr.f].kind = "fn"
      /\ (IF Instr.op = "SCall" THEN ~NeedsClosure(module, Instr.f) ELSE Instr.f \notin CalledBack(module))
      /\ Takes(Instr, n + 1) /\ Goes(module[frame.prog].code, Instr, pc + 1, n + 1, 1, {})
  <2>1. Instr.f # "" /\ Instr.op \in {"SCall", "VCall", "ICall", "MCall"} /\ (Instr.op # "SCall" => Instr.op = "VCall")
    BY Zenon DEF CallScript, At
  <2> QED
    BY <1>3, <2>1, Zenon DEF Flows, Calls
<1>5. /\ module \in Modules /\ Verified(module) /\ Closed(module, G) /\ mode = "run" /\ Val \in G
      /\ NoName \notin DOMAIN module /\ module["rule"].kind \notin {"fn", "iter"}
  BY <1>1, Zenon DEF Doing, Closed, Verified, NoName
<1>6. /\ t \in {"script", "sfunc"} /\ t \in ScriptTypes
  BY DEF ScriptTypes
<1>7. /\ clo \in ProgramNames(module) /\ Instr.f \in ProgramNames(module)
      /\ clo \notin CalledBack(module) /\ Instr.f # "rule"
      /\ NeedsClosure(module, Instr.f) => clo # NoName
  BY <1>4, <1>5, Zenon DEF ProgramNames, CalledBack, NoName
<1>8. x.k = "frame" /\ x.fr = frame /\ x.pc = pc + 1
  BY SavedFrame
<1> HIDE DEF n, t, clo, x
<1>9. /\ ScriptWaits(module, c) /\ Above(module, G, u, config, frame, Popped(n + 1), go)
      /\ n + 1 <= Len(stack) /\ Popped(n + 1) = SubSeq(stack, 1, Len(stack) - (n + 1))
      /\ \A i \in Len(stack) - n .. Len(stack) : stack[i].k # "frame"
  BY <1>1, <1>3, <1>4, Pausing, Zenon DEF c
<1> HIDE DEF c
<1>10. /\ c.k = "waiting" /\ c.up = u /\ c.cf = config /\ c.fr = frame /\ c.st = Popped(n + 1)
       /\ c.pc = pc + 1 /\ c.go = go
  BY DEF Waiting, c
<1>11. x.k \notin {"iter", "waiting"} /\ Val.k \notin {"iter", "waiting"}
  BY <1>8 DEF Val
<1>12. /\ Closed(module, H) /\ G \subseteq H /\ c \in H /\ x \in H
  BY <1>5, <1>9, <1>10, <1>11, Joined, Zenon
<1> HIDE DEF H
<1>13. stack \in Seq(H)
  BY <1>3, <1>12, MoreCells, Zenon
<1>14. t \in NativeTypes \cup ScriptTypes
  BY <1>6, Zenon
<1>15. LaidOut(module, H, stack, t, n, Instr.f, clo, x, frame', stack')
  <2>1. Callable(module, H, stack, t, n, Instr.f, clo, x)
    BY <1>3, <1>7, <1>8, <1>9, <1>12, <1>13, <1>14, Zenon DEF Callable
  <2>2. LaidOut(module, H, stack, t, n, Instr.f, clo, x, Fresh(stack, t, n, Instr.f, clo), Append(stack, x))
    BY <2>1, FreshFrame, Zenon
  <2> QED
    BY <1>2, <2>2, Zenon
<1>16. ScriptFrame(module, frame')
  BY <1>4, <1>6, <1>7, <1>15, Zenon DEF LaidOut, ScriptFrame, NoName
<1>17. FromScript(module, c, frame', stack')
  BY <1>8, <1>9, <1>10, <1>15, Zenon DEF LaidOut, FromScript, OnTop
<1>18. CalledScript(module, c, frame', stack', go')
  BY <1>2, <1>4, <1>6, <1>7, <1>10, <1>15, <1>16, <1>17, Zenon DEF LaidOut, CalledScript
<1>19. Linked(module, c, frame', stack', go')
  BY <1>7, <1>8, <1>10, <1>15, <1>18, Zenon DEF LaidOut, Linked
<1>20. Matched(go', stack', frame')
  <2>1. frame.ftype \notin NativeTypes /\ frame'.ftype \notin NativeTypes
    BY <1>3, <1>6, <1>15, TypesDiffer, Zenon DEF LaidOut, ScriptFrame
  <2>2. Saved(stack') = Saved(stack)
    BY <1>2, <1>8, <1>12, <1>13, <2>1, SavedFacts, Zenon
  <2>3. Matched(go, stack, frame)
    BY <1>3, Zenon DEF Above
  <2> QED
    BY <1>2, <2>1, <2>2, <2>3, Zenon DEF Matched
<1>21. GoFunctions(module, H, go') /\ Last(go').k # "native"
  <2>1. go \in Seq(H)
    BY <1>3, <1>12, MoreCells, Zenon DEF GoFunctions
  <2> QED
    BY <1>2, <1>3, <2>1, Zenon DEF GoFunctions
<1>22. Caller(H, c, config')
  BY <1>2, <1>10, <1>12, Zenon DEF Caller
<1>23. (mode' = "run" /\ pc' = 0) \/ (mode' = "throw" /\ pc' \in Nat)
  BY <1>2, <1>3, <1>5, Zenon
<1> QED
  BY <1>2, <1>5, <1>12, <1>15, <1>16, <1>19, <1>20, <1>21, <1>22, <1>23, EntersScript, Zenon DEF LaidOut

(* A native function begins.                                               *)
LEMMA EntersNative ==
  ASSUME module \in Modules, UNCHANGED module,
         NEW H, Closed(module, H), NEW c, Caller(H, c, config'),
         frame' \in FrameRecords(module), stack' \in Seq(H), GoFunctions(module, H, go'),
         Last(go').k = "native", Matched(go', stack', frame'),
         Linked(module, c, frame', stack', go'), NativeFrame(frame'),
         mode' = "run", pc' \in Nat
  PROVE  Works'
<1>1. Above(module, H, c, config', frame', stack', go')
  BY Zenon DEF Above
<1>2. RunsNative(module, H, c, config', stack', frame', go')
  BY <1>1, Zenon DEF RunsNative
<1> QED
  BY <1>2, Zenon DEF Works, Machine, Current

LEMMA NativeFacts ==
  ASSUME NEW m, NEW cb \in CalledBack(m) \cup {NoName}, NEW from \in {"vm", "native"}
  PROVE  /\ Native(cb, from) \in NativeFunctions(m)
         /\ Native(cb, from).k = "native" /\ Native(cb, from).from = from /\ Native(cb, from).cb = cb
<1> DEFINE C == CalledBack(m) \cup {NoName}
<1>1. cb \in C
  OBVIOUS
<1> HIDE DEF C
<1>2. Native(cb, from) \in [k : {"native"}, cb : C, called : BOOLEAN, from : {"vm", "native"}]
  BY <1>1 DEF Native
<1>3. Native(cb, from).k = "native" /\ Native(cb, from).from = from /\ Native(cb, from).cb = cb
  BY DEF Native
<1> QED
  BY <1>2, <1>3, Zenon DEF NativeFunctions, C, NoName

(* What a script passes to a native function may be called back.           *)
LEMMA CallsBack ==
  ASSUME NEW G, NEW u, Doing(G, u), Instr.op \in {"ICall", "MCall"} \/ Instr.f = NoName
  PROVE  Instr.f \in CalledBack(module) \cup {NoName}
<1> DEFINE code == module[frame.prog].code
<1>1. /\ frame.prog \in DOMAIN module /\ Stands(module, config, frame, stack, pc)
      /\ Instr = code[pc + 1]
  BY Situation, Zenon DEF InstrAt
<1> HIDE DEF code
<1>2. pc \in 0 .. Len(code) - 1
  BY <1>1, Zenon DEF Stands, code
<1>3. pc + 1 \in 1 .. Len(code)
  BY <1>2
<1>7. SUFFICES ASSUME Instr.op \in {"ICall", "MCall"} PROVE Instr.f \in CalledBack(module) \cup {NoName}
  BY Zenon
<1>4. pc + 1 \in {i \in 1 .. Len(code) : code[i].op \in {"ICall", "MCall"}}
  BY <1>1, <1>3, <1>7, Zenon
<1> DEFINE S(p) == {module[p].code[i].f :
                      i \in {i \in 1 .. Len(module[p].code) : module[p].code[i].op \in {"ICall", "MCall"}}}
<1>5. Instr.f \in S(frame.prog)
  BY <1>1, <1>4, Zenon DEF code
<1> HIDE DEF S
<1>6. Instr.f \in UNION {S(p) : p \in DOMAIN module}
  BY <1>1, <1>5
<1> QED
  BY <1>6, Zenon DEF CalledBack, NoName, S

LEMMA CallNativeWorks ==
  ASSUME Works, Verified(module), CallNative
  PROVE  Works'
<1>1. PICK G, u : Doing(G, u)
  BY Begins, Zenon DEF CallNative, At
<1> DEFINE n == Instr.arg
           t == IF Instr.op = "ICall" THEN "intrinsic" ELSE "method"
           act == Native(Instr.f, "vm")
           c == Waiting(u, config, frame, Popped(n + 1), pc + 1, go)
           x == Frame(frame, pc + 1)
           H == With(G, c, x, act)
<1>2. /\ Instr.op \in {"SCall", "VCall", "ICall", "MCall"}
      /\ Instr.op \in {"ICall", "MCall"} \/ Instr.f = NoName
      /\ stack' = Append(stack, x) /\ frame' = Fresh(stack, t, n, NoName, NoName)
      /\ go' = Append(go, act)
      /\ UNCHANGED <<module, config, pc, mode>>
  BY Zenon DEF CallNative, At, Prologue, Enter, Fresh, NoName
<1>3. /\ Flows(module, frame.prog, module[frame.prog].code, Instr, pc) /\ n \in Nat /\ pc \in Nat
      /\ stack \in Seq(G) /\ GoFunctions(module, G, go) /\ Last(go).k # "native"
      /\ ScriptFrame(module, frame) /\ Above(module, G, u, config, frame, stack, go)
  BY <1>1, Situation, Zenon
<1>4. Takes(Instr, n + 1) /\ Goes(module[frame.prog].code, Instr, pc + 1, n + 1, 1, {})
  BY <1>2, <1>3, Zenon DEF Flows, Calls
<1>5. module \in Modules /\ Verified(module) /\ Closed(module, G) /\ mode = "run"
  BY <1>1, Zenon DEF Doing
<1>6. t \in NativeTypes
  BY DEF NativeTypes
<1>7. Instr.f \in CalledBack(module) \cup {NoName} /\ NoName \in ProgramNames(module)
  BY <1>1, <1>2, CallsBack, Zenon DEF ProgramNames, NoName
<1>8. x.k = "frame" /\ x.fr = frame /\ x.pc = pc + 1
  BY SavedFrame
<1>9. act \in NativeFunctions(module) /\ act.k = "native" /\ act.from = "vm"
  <2>1. "vm" \in {"vm", "native"}
    OBVIOUS
  <2> QED
    BY <1>7, <2>1, NativeFacts
<1> HIDE DEF n, t, x, act
<1>10. /\ ScriptWaits(module, c) /\ Above(module, G, u, config, frame, Popped(n + 1), go)
       /\ n + 1 <= Len(stack) /\ Popped(n + 1) = SubSeq(stack, 1, Len(stack) - (n + 1))
       /\ \A i \in Len(stack) - n .. Len(stack) : stack[i].k # "frame"
  BY <1>1, <1>3, <1>4, Pausing, Zenon DEF c
<1> HIDE DEF c
<1>11. /\ c.k = "waiting" /\ c.up = u /\ c.cf = config /\ c.fr = frame /\ c.st = Popped(n + 1)
       /\ c.pc = pc + 1 /\ c.go = go
  BY DEF Waiting, c
<1>12. x.k \notin {"iter", "waiting"} /\ act.k \notin {"iter", "waiting"}
  BY <1>8, <1>9
<1>13. /\ Closed(module, H) /\ G \subseteq H /\ c \in H /\ x \in H /\ act \in H
  BY <1>5, <1>10, <1>11, <1>12, Joined, Zenon
<1> HIDE DEF H
<1>14. stack \in Seq(H) /\ go \in Seq(H)
  BY <1>3, <1>13, MoreCells, Zenon DEF GoFunctions
<1>15. LaidOut(module, H, stack, t, n, NoName, NoName, x, frame', stack')
  <2>1. t \in NativeTypes \cup ScriptTypes
    BY <1>6, Zenon
  <2>2. Callable(module, H, stack, t, n, NoName, NoName, x)
    BY <1>3, <1>7, <1>8, <1>10, <1>13, <1>14, <2>1, Zenon DEF Callable
  <2>3. LaidOut(module, H, stack, t, n, NoName, NoName, x, Fresh(stack, t, n, NoName, NoName), Append(stack, x))
    BY <2>2, FreshFrame, Zenon
  <2> QED
    BY <1>2, <2>3, Zenon
<1>16. NativeFrame(frame')
  BY <1>6, <1>15, Zenon DEF LaidOut, NativeFrame, NoName
<1>17. FromScript(module, c, frame', stack')
  BY <1>8, <1>10, <1>11, <1>15, Zenon DEF LaidOut, FromScript, OnTop
<1>18. GoFunctions(module, H, go') /\ Front(go') = go /\ Last(go') = act
  <2>1. act.k \in {"rule", "native", "sfunc", "siter"} /\ (act.k = "sfunc" => act.clo \in CalledBack(module))
    BY <1>9
  <2> QED
    BY <1>2, <1>9, <1>13, <1>14, <2>1, Starts, Zenon
<1>19. CalledNative(module, c, frame', stack', go')
  BY <1>9, <1>11, <1>16, <1>17, <1>18, Zenon DEF CalledNative, Entered
<1>20. Linked(module, c, frame', stack', go')
  <2>1. frame'.prog # "rule"
    <3>1. frame'.prog = NoName /\ NoName # "rule"
      BY <1>5, <1>15, ModulesAssumption, Zenon DEF LaidOut, Verified, NoName
    <3> QED
      BY <3>1, Zenon
  <2> QED
    BY <1>8, <1>11, <1>15, <1>19, <2>1, Zenon DEF LaidOut, Linked
<1>21. Matched(go', stack', frame')
  <2>1. frame.ftype \notin NativeTypes
    BY <1>3, TypesDiffer, Zenon DEF ScriptFrame
  <2>2. Saved(stack') = Saved(stack) /\ Cardinality(Saved(stack)) \in Nat
    BY <1>2, <1>8, <1>13, <1>14, <2>1, SavedFacts, Zenon
  <2>3. Cardinality(Running(go)) = Cardinality(Saved(stack)) + 0
    BY <1>3, <2>1, Zenon DEF Above, Matched
  <2>4. Cardinality(Running(go')) = Cardinality(Running(go)) + 1
    BY <1>2, <1>9, <1>13, <1>14, RunningFacts, Zenon
  <2>5. Cardinality(Running(go')) = Cardinality(Saved(stack')) + 1
    BY <2>2, <2>3, <2>4
  <2>6. frame'.ftype \in NativeTypes
    BY <1>16, Zenon DEF NativeFrame
  <2> QED
    BY <2>5, <2>6, Zenon DEF Matched
<1>22. Caller(H, c, config')
  BY <1>2, <1>11, <1>13, Zenon DEF Caller
<1>23. mode' = "run" /\ pc' \in Nat /\ Last(go').k = "native"
  BY <1>2, <1>3, <1>5, <1>9, <1>18, Zenon
<1> QED
  BY <1>2, <1>5, <1>13, <1>15, <1>16, <1>18, <1>20, <1>21, <1>22, <1>23, EntersNative, Zenon DEF LaidOut

-----------------------------------------------------------------------------
(* A native function that runs, and calls a closure.                       *)
Inside(G, u) ==
  /\ module \in Modules /\ Verified(module) /\ Closed(module, G) /\ mode = "run" /\ pc \in Nat
  /\ RunsNative(module, G, u, config, stack, frame, go)

LEMMA NativeRuns ==
  ASSUME Works, Verified(module), InNative
  PROVE  \E G, u : Inside(G, u)
<1>0. mode # "panic"
  BY DEF InNative
<1>1. PICK G, u : Closed(module, G) /\ pc \in Nat /\ Current(module, G, u, config, mode, stack, frame, pc, go)
  BY <1>0, Zenon DEF Works, Machine, Stopped
<1>2. mode = "run" /\ Last(go).k = "native"
  BY Zenon DEF InNative
<1>3. RunsNative(module, G, u, config, stack, frame, go)
  <2>1. ~Executes(module, G, u, config, stack, frame, pc, go)
    BY <1>2, Zenon DEF Executes
  <2>2. mode # "throw" /\ mode \notin {"done", "failed"}
    BY <1>2
  <2> QED
    BY <1>1, <2>1, <2>2, Zenon DEF Current
<1> QED
  BY <1>1, <1>2, <1>3, Zenon DEF Works, Inside

(* The closures that may be called back are functions.                     *)
LEMMA CalledBackFacts ==
  ASSUME NEW m, Verified(m), NEW x \in CalledBack(m)
  PROVE  x \in DOMAIN m /\ m[x].kind = "fn" /\ m[x].args \in Nat /\ x # NoName /\ x # "rule"
<1> DEFINE J(p) == {i \in 1 .. Len(m[p].code) : m[p].code[i].op \in {"ICall", "MCall"}}
           S(p) == {m[p].code[i].f : i \in J(p)}
<1>1. x \in UNION {S(p) : p \in DOMAIN m} /\ x # NoName
  BY Zenon DEF CalledBack, NoName
<1>2. PICK p \in DOMAIN m : x \in S(p)
  <2> HIDE DEF S
  <2> QED
    BY <1>1
<1>3. PICK i \in 1 .. Len(m[p].code) : m[p].code[i].op \in {"ICall", "MCall"} /\ x = m[p].code[i].f
  <2>1. PICK i \in J(p) : x = m[p].code[i].f
    BY <1>2, Zenon
  <2> QED
    BY <2>1, Zenon
<1>4. i - 1 \in 0 .. Len(m[p].code) - 1 /\ (i - 1) + 1 = i
  <2>1. Len(m[p].code) \in Nat
    BY <1>2, Zenon DEF Verified
  <2> QED
    BY <1>3, <2>1
<1>5. Calls(m, m[p].code, m[p].code[i], i - 1)
  <2>1. Flows(m, p, m[p].code, m[p].code[(i - 1) + 1], i - 1)
    BY <1>2, <1>4, Zenon DEF Verified
  <2>2. Flows(m, p, m[p].code, m[p].code[i], i - 1)
    BY <1>4, <2>1, Zenon
  <2> QED
    BY <2>2, Zenon DEF Flows
<1>6. x \in DOMAIN m /\ m[x].kind = "fn"
  BY <1>1, <1>3, <1>5, Zenon DEF Calls, NoName
<1>7. m["rule"].kind # "fn" /\ m[x].args \in Nat
  <2>1. m["rule"].kind \notin {"fn", "iter"} /\ m[x].args \in Nat
    BY <1>6, Zenon DEF Verified
  <2> QED
    BY <2>1
<1> QED
  BY <1>1, <1>6, <1>7, Zenon

(* Below values that were pushed is what was there.                        *)
LEMMA BaseFits ==
  ASSUME NEW G, NEW s \in Seq(G), Val \in G, NEW n \in Nat
  PROVE  /\ SubSeq(Pushed(s, n), 1, Len(s)) = s
         /\ Pushed(s, n) \in Seq(G) /\ Len(Pushed(s, n)) = Len(s) + n
         /\ \A i \in Len(s) + 1 .. Len(s) + n : Pushed(s, n)[i].k # "frame"
<1> DEFINE t == Pushed(s, n)
<1>1. /\ t \in Seq(G) /\ Len(t) = Len(s) + n /\ Len(s) \in Nat
      /\ \A i \in 1 .. Len(s) : t[i] = s[i]
      /\ \A i \in Len(s) + 1 .. Len(s) + n : t[i] = Val
  BY PushedFacts, Zenon
<1> HIDE DEF t
<1>2. Len(s) \in 0 .. Len(t)
  BY <1>1
<1>3. /\ SubSeq(t, 1, Len(s)) \in Seq(G) /\ Len(SubSeq(t, 1, Len(s))) = Len(s)
      /\ \A i \in 1 .. Len(s) : SubSeq(t, 1, Len(s))[i] = t[i]
  BY <1>1, <1>2, CutFacts
<1>4. SubSeq(t, 1, Len(s)) = s
  BY <1>1, <1>3, SameSequence
<1>5. Val.k # "frame"
  BY DEF Val
<1> QED
  BY <1>1, <1>4, <1>5, Zenon DEF t

(* A native function that has called runs on its frame as before.          *)
Mark(gos) == [gos EXCEPT ![Len(gos)] = [Last(gos) EXCEPT !.called = TRUE]]

LEMMA Marks ==
  ASSUME NEW G, NEW u, Inside(G, u)
  PROVE  \E H : /\ Closed(module, H) /\ G \subseteq H
                /\ Above(module, H, u, config, frame, stack, Mark(go))
                /\ Last(Mark(go)).k = "native"
                /\ Running(Mark(go)) = Running(go)
<1> DEFINE l == Last(go)
           a == [l EXCEPT !.called = TRUE]
           H == G \cup {a}
           gp == Mark(go)
<1>1. /\ Closed(module, G) /\ Above(module, G, u, config, frame, stack, go)
      /\ l.k = "native" /\ NativeFrame(frame)
  BY Zenon DEF Inside, RunsNative
<1>2. /\ frame \in FrameRecords(module) /\ stack \in Seq(G) /\ GoFunctions(module, G, go)
      /\ Matched(go, stack, frame)
  BY <1>1, Zenon DEF Above
<1>3. go \in Seq(G) /\ go # <<>> /\ l \in NativeFunctions(module)
  BY <1>1, <1>2, Zenon DEF GoFunctions
<1> HIDE DEF l
<1>4. a \in NativeFunctions(module) /\ a.k = "native" /\ a.from = l.from
  <2> DEFINE C == CalledBack(module) \cup {NoName}
  <2>1. l \in [k : {"native"}, cb : C, called : BOOLEAN, from : {"vm", "native"}]
    BY <1>3, Zenon DEF NativeFunctions, NoName
  <2> HIDE DEF C
  <2>2. a \in [k : {"native"}, cb : C, called : BOOLEAN, from : {"vm", "native"}] /\ a.k = "native" /\ a.from = l.from
    BY <2>1
  <2> HIDE DEF a
  <2> QED
    BY <2>2, Zenon DEF NativeFunctions, NoName, C
<1>5. gp = Replaced(go, a)
  BY Zenon DEF Mark, l, Replaced
<1> HIDE DEF a, gp
<1>6. Closed(module, H) /\ G \subseteq H /\ a \in H
  <2>1. a.k \notin {"iter", "waiting"}
    BY <1>4
  <2>2. Fine(module, H, a)
    BY <2>1, Inert, Zenon
  <2> QED
    BY <1>1, <2>2, OneMore, Zenon
<1> HIDE DEF H
<1>7. /\ gp \in Seq(H) /\ gp # <<>> /\ Last(gp) = a /\ Front(gp) = Front(go)
      /\ Running(gp) = Running(go)
  <2>1. a.k = Last(go).k
    BY <1>1, <1>4, Zenon DEF l
  <2>2. go \in Seq(G) /\ go # <<>> /\ G \subseteq H /\ a \in H
    BY <1>3, <1>6
  <2>3. /\ Replaced(go, a) \in Seq(H) /\ Replaced(go, a) # <<>> /\ Last(Replaced(go, a)) = a
        /\ Front(Replaced(go, a)) = Front(go)
        /\ Running(Replaced(go, a)) = Running(go)
    BY <2>1, <2>2, Marked, Zenon
  <2> QED
    BY <1>5, <2>3, Zenon
<1>8. GoFunctions(module, H, gp)
  <2>1. a.k \in {"rule", "native", "sfunc", "siter"} /\ a.k # "sfunc"
    BY <1>4
  <2> QED
    BY <1>4, <1>7, <2>1, Zenon DEF GoFunctions
<1>9. ~OfRule(module, frame, stack, go)
  <2>1. "rule" \notin NativeTypes
    BY DEF NativeTypes
  <2> QED
    BY <1>1, <2>1, Zenon DEF OfRule, NativeFrame
<1>10. Caller(G, u, config) /\ Linked(module, u, frame, stack, go)
  BY <1>1, <1>9, Zenon DEF Above
<1>11. Linked(module, u, frame, stack, gp)
  <2>1. ~CalledScript(module, u, frame, stack, go)
    BY <1>1, Zenon DEF CalledScript, FromScript, ScriptWaits, l
  <2>2. ~CalledClosure(module, u, frame, stack, go) /\ ~Iterating(module, u, frame, stack, go)
    <3>1. l.k # "sfunc" /\ l.k # "siter"
      BY <1>1
    <3> QED
      BY <3>1, Zenon DEF CalledClosure, Iterating, Entered, l
  <2>3. CalledNative(module, u, frame, stack, go) => CalledNative(module, u, frame, stack, gp)
    BY <1>4, <1>7, Zenon DEF CalledNative, Entered, l
  <2>4. CalledBound(u, frame, stack, go) => CalledBound(u, frame, stack, gp)
    BY <1>4, <1>7, Zenon DEF CalledBound, Entered, l
  <2> QED
    BY <1>10, <2>1, <2>2, <2>3, <2>4, Zenon DEF Linked
<1>12. Above(module, H, u, config, frame, stack, gp)
  <2>1. stack \in Seq(H)
    BY <1>2, <1>6, MoreCells
  <2>2. Caller(H, u, config)
    BY <1>6, <1>10, Zenon DEF Caller
  <2>3. Matched(gp, stack, frame)
    BY <1>2, <1>7, Zenon DEF Matched
  <2> QED
    BY <1>2, <1>8, <1>11, <2>1, <2>2, <2>3, Zenon DEF Above
<1> QED
  BY <1>4, <1>6, <1>7, <1>12, Zenon DEF gp

(* It waits below the frame of what it calls with n arguments.             *)
Paused(H, c, st, t, n, p, x, f, su) ==
  /\ Closed(module, H) /\ Caller(H, c, config) /\ Mark(go) \in Seq(H)
  /\ c.fr = frame /\ c.go = Mark(go) /\ NativeWaits(c)
  /\ LaidOut(module, H, st, t, n, p, p, x, f, su) /\ x.fr = frame /\ OnTop(c, f, su)
  /\ Cardinality(Running(Mark(go))) \in Nat
  /\ Cardinality(Running(Mark(go))) = Cardinality(Saved(su))

LEMMA NativePauses ==
  ASSUME NEW G, NEW u, Inside(G, u), NEW n \in Nat, NEW t \in NativeTypes \cup ScriptTypes,
         NEW p \in ProgramNames(module), NEW act, act.k \notin {"iter", "waiting"}
  PROVE  \E H, c : /\ act \in H
                   /\ Paused(H, c, Pushed(stack, 1 + n), t, n, p, Frame(frame, 0),
                             Fresh(Pushed(stack, 1 + n), t, n, p, p),
                             Append(Pushed(stack, 1 + n), Frame(frame, 0)))
<1> DEFINE st == Pushed(stack, 1 + n)
           x == Frame(frame, 0)
           f == Fresh(st, t, n, p, p)
           su == Append(st, x)
           c == Waiting(u, config, frame, stack, 0, Mark(go))
<1>1. PICK G1 : /\ Closed(module, G1) /\ G \subseteq G1
                /\ Above(module, G1, u, config, frame, stack, Mark(go))
                /\ Last(Mark(go)).k = "native"
                /\ Running(Mark(go)) = Running(go)
  BY Marks
<1>2. NativeFrame(frame) /\ Matched(go, stack, frame)
  BY Zenon DEF Inside, RunsNative, Above
<1>3. x.k = "frame" /\ x.fr = frame
  BY SavedFrame
<1>4. /\ c.k = "waiting" /\ c.up = u /\ c.cf = config /\ c.fr = frame /\ c.st = stack /\ c.go = Mark(go)
  BY DEF Waiting
<1> HIDE DEF x, c
<1> DEFINE H == With(G1, c, x, act)
<1>5. Closed(module, H) /\ G1 \subseteq H /\ c \in H /\ x \in H /\ act \in H
  <2>1. x.k \notin {"iter", "waiting"}
    BY <1>3
  <2> QED
    BY <1>1, <1>4, <2>1, Joined, Zenon
<1> HIDE DEF H
<1>6. stack \in Seq(H) /\ Mark(go) \in Seq(H) /\ Val \in H
  <2>1. stack \in Seq(G1) /\ Mark(go) \in Seq(G1)
    BY <1>1, Zenon DEF Above, GoFunctions
  <2> QED
    BY <1>5, <2>1, MoreCells, Zenon DEF Closed
<1>7. /\ st \in Seq(H) /\ SubSeq(st, 1, Len(stack)) = stack /\ Len(st) = Len(stack) + (1 + n)
      /\ \A i \in Len(stack) + 1 .. Len(stack) + (1 + n) : st[i].k # "frame"
  <2>1. 1 + n \in Nat
    OBVIOUS
  <2> QED
    BY <1>6, <2>1, BaseFits, Zenon
<1>8. Saved(st) = Saved(stack)
  <2>1. 1 + n \in Nat
    OBVIOUS
  <2> QED
    BY <1>6, <2>1, SavedPushed, Zenon
<1> HIDE DEF st
<1>9. Len(stack) \in Nat
  BY <1>6
<1>10. /\ n + 1 <= Len(st) /\ Len(st) - (n + 1) = Len(stack)
       /\ Len(st) - n .. Len(st) = Len(stack) + 1 .. Len(stack) + (1 + n)
  BY <1>7, <1>9
<1>11. LaidOut(module, H, st, t, n, p, p, x, f, su)
  <2>1. Callable(module, H, st, t, n, p, p, x)
    BY <1>3, <1>5, <1>7, <1>10, Zenon DEF Callable
  <2> QED
    BY <2>1, FreshFrame, Zenon
<1>12. Cardinality(Saved(su)) = Cardinality(Saved(stack)) + 1
  <2>1. x.fr.ftype \in NativeTypes
    BY <1>2, <1>3, Zenon DEF NativeFrame
  <2> QED
    BY <1>3, <1>5, <1>7, <1>8, <2>1, SavedFacts, Zenon
<1> HIDE DEF f, su
<1>13. OnTop(c, f, su)
  BY <1>4, <1>7, <1>10, <1>11, Zenon DEF LaidOut, OnTop
<1>14. /\ Cardinality(Running(Mark(go))) = Cardinality(Saved(su))
       /\ Cardinality(Running(Mark(go))) \in Nat
  <2>1. Cardinality(Running(go)) = Cardinality(Saved(stack)) + 1
    BY <1>2, Zenon DEF Matched, NativeFrame
  <2>2. Cardinality(Saved(stack)) \in Nat
    BY <1>5, <1>6, SavedFacts
  <2>3. Cardinality(Running(go)) \in Nat
    BY <2>1, <2>2
  <2> QED
    BY <1>1, <1>12, <2>1, <2>3, Zenon
<1>15. NativeWaits(c) /\ Caller(H, c, config)
  BY <1>1, <1>2, <1>4, <1>5, Zenon DEF NativeWaits, Caller
<1>16. Paused(H, c, st, t, n, p, x, f, su)
  BY <1>3, <1>4, <1>5, <1>6, <1>11, <1>13, <1>14, <1>15, Zenon DEF Paused
<1> QED
  BY <1>5, <1>16, Zenon DEF st, x, f, su

LEMMA NativeCallsWorks ==
  ASSUME Works, Verified(module), NativeCalls
  PROVE  Works'
<1>1. PICK G, u : Inside(G, u)
  BY NativeRuns, Zenon DEF NativeCalls
<1> DEFINE p == Last(go).cb
           n == module[p].args
           t == "sfunc"
           act == [k |-> "sfunc", clo |-> p]
           st == Pushed(stack, 1 + n)
           x == Frame(frame, 0)
<1>2. /\ p # NoName
      /\ stack' = Append(st, x) /\ frame' = Fresh(st, t, n, p, p)
      /\ go' = Append(Mark(go), act) /\ pc' = 0
      /\ UNCHANGED <<module, config, mode>>
  BY Zenon DEF NativeCalls, Prologue, Program, Enter, Fresh, NoName, Mark, Last
<1>3. /\ module \in Modules /\ Verified(module) /\ mode = "run"
      /\ Last(go) \in NativeFunctions(module)
  BY <1>1, Zenon DEF Inside, RunsNative, Above, GoFunctions
<1>4. p \in CalledBack(module)
  <2>1. p \in CalledBack(module) \cup {NoName}
    <3> DEFINE C == CalledBack(module) \cup {NoName}
    <3>1. Last(go) \in [k : {"native"}, cb : C, called : BOOLEAN, from : {"vm", "native"}]
      BY <1>3, Zenon DEF NativeFunctions, NoName
    <3> HIDE DEF C
    <3>2. p \in C
      BY <3>1
    <3> QED
      BY <3>2 DEF C
  <2> QED
    BY <1>2, <2>1, Zenon
<1>5. p \in DOMAIN module /\ module[p].kind = "fn" /\ n \in Nat /\ p # "rule" /\ p \in ProgramNames(module)
  BY <1>3, <1>4, CalledBackFacts, Zenon DEF ProgramNames
<1>6. act.k = "sfunc" /\ act.clo = p
  OBVIOUS
<1>7. t \in ScriptTypes /\ t = "sfunc"
  BY DEF ScriptTypes
<1> HIDE DEF p, n, act, t
<1>8. PICK H, c : act \in H /\ Paused(H, c, st, t, n, p, x, Fresh(st, t, n, p, p), Append(st, x))
  <2>1. t \in NativeTypes \cup ScriptTypes /\ act.k \notin {"iter", "waiting"}
    BY <1>6, <1>7
  <2> QED
    BY <1>1, <1>5, <2>1, NativePauses, Zenon
<1> HIDE DEF st, x
<1>9. Paused(H, c, st, t, n, p, x, frame', stack')
  BY <1>2, <1>8, Zenon
<1>10. LaidOut(module, H, st, t, n, p, p, x, frame', stack') /\ OnTop(c, frame', stack')
  BY <1>9, Zenon DEF Paused
<1>11. ScriptFrame(module, frame') /\ frame'.ftype = "sfunc" /\ frame'.prog = p /\ frame'.clo = p
  BY <1>2, <1>5, <1>7, <1>10, Zenon DEF LaidOut, ScriptFrame, NoName
<1>12. GoFunctions(module, H, go') /\ Front(go') = Mark(go) /\ Last(go') = act
  <2>1. act.k \in {"rule", "native", "sfunc", "siter"} /\ act.k # "native"
    BY <1>6
  <2>2. Mark(go) \in Seq(H) /\ (act.k = "sfunc" => act.clo \in CalledBack(module))
    BY <1>4, <1>6, <1>9, Zenon DEF Paused
  <2>3. /\ GoFunctions(module, H, Append(Mark(go), act)) /\ Front(Append(Mark(go), act)) = Mark(go)
        /\ Last(Append(Mark(go), act)) = act
    BY <1>8, <2>1, <2>2, Starts, Zenon
  <2> QED
    BY <1>2, <2>3, Zenon
<1>13. CalledClosure(module, c, frame', stack', go')
  BY <1>5, <1>6, <1>9, <1>10, <1>11, <1>12, Zenon DEF Paused, CalledClosure, Entered
<1>14. Linked(module, c, frame', stack', go')
  BY <1>5, <1>9, <1>10, <1>11, <1>13, Zenon DEF LaidOut, Linked, Paused
<1>15. Matched(go', stack', frame')
  <2>1. act.k \notin {"native", "siter"} /\ frame'.ftype \notin NativeTypes
    BY <1>6, <1>7, <1>11, TypesDiffer
  <2>2. Running(Append(Mark(go), act)) = Running(Mark(go))
    BY <1>8, <1>9, <2>1, RunningFacts, Zenon DEF Paused
  <2>3. Cardinality(Running(go')) = Cardinality(Saved(stack')) /\ Cardinality(Running(go')) \in Nat
    BY <1>2, <1>9, <2>2, Zenon DEF Paused
  <2>4. Cardinality(Running(go')) = Cardinality(Saved(stack')) + 0
    BY <2>3
  <2> QED
    BY <2>1, <2>4, Zenon DEF Matched
<1>16. Closed(module, H) /\ Caller(H, c, config')
  BY <1>2, <1>9, Zenon DEF Paused
<1>17. Last(go').k # "native" /\ mode' = "run" /\ pc' = 0
  BY <1>2, <1>3, <1>6, <1>12
<1> QED
  BY <1>2, <1>3, <1>10, <1>11, <1>12, <1>14, <1>15, <1>16, <1>17, EntersScript, Zenon DEF LaidOut

LEMMA NativeCallsBoundWorks ==
  ASSUME Works, Verified(module), NativeCallsBound
  PROVE  Works'
<1>1. PICK G, u : Inside(G, u)
  BY NativeRuns, Zenon DEF NativeCallsBound
<1> DEFINE act == Native(Last(go).cb, "native")
           t == "nfunc"
           st == Pushed(stack, 1)
           x == Frame(frame, 0)
<1>2. /\ stack' = Append(st, x) /\ frame' = Fresh(st, t, 0, NoName, NoName)
      /\ go' = Append(Mark(go), act)
      /\ UNCHANGED <<module, config, pc, mode>>
  BY Zenon DEF NativeCallsBound, Prologue, Enter, Fresh, NoName, Mark, Last
<1>3. /\ module \in Modules /\ Verified(module) /\ mode = "run" /\ pc \in Nat
      /\ Last(go) \in NativeFunctions(module)
  BY <1>1, Zenon DEF Inside, RunsNative, Above, GoFunctions
<1>4. act \in NativeFunctions(module) /\ act.k = "native" /\ act.from = "native"
  <2>1. Last(go).cb \in CalledBack(module) \cup {NoName}
    <3> DEFINE C == CalledBack(module) \cup {NoName}
    <3>1. Last(go) \in [k : {"native"}, cb : C, called : BOOLEAN, from : {"vm", "native"}]
      BY <1>3, Zenon DEF NativeFunctions, NoName
    <3> HIDE DEF C
    <3>2. Last(go).cb \in C
      BY <3>1
    <3> QED
      BY <3>2 DEF C
  <2>2. "native" \in {"vm", "native"}
    OBVIOUS
  <2> QED
    BY <2>1, <2>2, NativeFacts
<1>5. t \in NativeTypes
  BY DEF NativeTypes
<1>6. NoName \in ProgramNames(module) /\ 0 \in Nat /\ 1 + 0 = 1
  BY TopFrameFacts
<1> HIDE DEF act, t
<1>7. PICK H, c : act \in H /\ Paused(H, c, st, t, 0, NoName, x, Fresh(st, t, 0, NoName, NoName), Append(st, x))
  <2>1. t \in NativeTypes \cup ScriptTypes /\ act.k \notin {"iter", "waiting"}
    BY <1>4, <1>5
  <2> QED
    BY <1>1, <1>6, <2>1, NativePauses, Zenon
<1> HIDE DEF st, x
<1>8. Paused(H, c, st, t, 0, NoName, x, frame', stack')
  BY <1>2, <1>7, Zenon
<1>9. LaidOut(module, H, st, t, 0, NoName, NoName, x, frame', stack') /\ OnTop(c, frame', stack')
  BY <1>8, Zenon DEF Paused
<1>10. NativeFrame(frame') /\ frame'.prog = NoName
  BY <1>5, <1>9, Zenon DEF LaidOut, NativeFrame, NoName
<1>11. GoFunctions(module, H, go') /\ Front(go') = Mark(go) /\ Last(go') = act
  <2>1. act.k \in {"rule", "native", "sfunc", "siter"} /\ (act.k = "sfunc" => act.clo \in CalledBack(module))
    BY <1>4
  <2>2. Mark(go) \in Seq(H)
    BY <1>8, Zenon DEF Paused
  <2>3. /\ GoFunctions(module, H, Append(Mark(go), act)) /\ Front(Append(Mark(go), act)) = Mark(go)
        /\ Last(Append(Mark(go), act)) = act
    BY <1>4, <1>7, <2>1, <2>2, Starts, Zenon
  <2> QED
    BY <1>2, <2>3, Zenon
<1>12. CalledBound(c, frame', stack', go')
  BY <1>4, <1>8, <1>9, <1>10, <1>11, Zenon DEF Paused, CalledBound, Entered
<1>13. Linked(module, c, frame', stack', go')
  <2>1. NoName # "rule"
    BY <1>3, ModulesAssumption, Zenon DEF Verified, NoName
  <2>2. frame'.prog # "rule"
    BY <1>10, <2>1, Zenon
  <2> QED
    BY <1>8, <1>9, <1>12, <2>2, Zenon DEF LaidOut, Linked, Paused
<1>14. Matched(go', stack', frame')
  <2>1. Cardinality(Running(Append(Mark(go), act))) = Cardinality(Running(Mark(go))) + 1
    BY <1>4, <1>7, <1>8, RunningFacts, Zenon DEF Paused
  <2>2. Cardinality(Running(go')) = Cardinality(Saved(stack')) + 1
    BY <1>2, <1>8, <2>1, Zenon DEF Paused
  <2> QED
    BY <1>10, <2>2, Zenon DEF Matched, NativeFrame
<1>15. Closed(module, H) /\ Caller(H, c, config')
  BY <1>2, <1>8, Zenon DEF Paused
<1>16. Last(go').k = "native" /\ mode' = "run" /\ pc' \in Nat
  BY <1>2, <1>3, <1>4, <1>11
<1> QED
  BY <1>2, <1>3, <1>9, <1>10, <1>11, <1>13, <1>14, <1>15, <1>16, EntersNative, Zenon DEF LaidOut

-----------------------------------------------------------------------------
(* A script runs an iterator.                                              *)

LEMMA SoundFacts ==
  ASSUME NEW m, NEW G, NEW x, Sound(m, G, x)
  PROVE  /\ x.k = "iter" /\ x.prog \in ProgramNames(m) /\ x.pc \in Nat /\ x.next \in BOOLEAN
         /\ x.stack \in Seq(G) /\ x.fr \in FrameRecords(m)
         /\ x.prog # NoName => m[x.prog].kind = "iter"
         /\ x.prog # NoName /\ x.next => Suspended(m, x)
<1> DEFINE P == ProgramNames(m)
           F == FrameRecords(m)
           S == Seq(G)
<1>1. x \in [k : {"iter"}, prog : P, pc : Nat, next : BOOLEAN, stack : S, fr : F]
  BY Zenon DEF Sound
<1> HIDE DEF P, F, S
<1>2. x.k = "iter" /\ x.prog \in P /\ x.pc \in Nat /\ x.next \in BOOLEAN /\ x.stack \in S /\ x.fr \in F
  BY <1>1
<1> QED
  BY <1>2, Zenon DEF Sound, P, F, S, NoName

(* It waits at the instruction.                                            *)
LEMMA LoopPauses ==
  ASSUME NEW G, NEW u, Doing(G, u), NEW act, act.k = "siter", NEW x, x.k = "frame"
  PROVE  \E H, c : /\ Closed(module, H) /\ Caller(H, c, config) /\ G \subseteq H /\ x \in H
                   /\ c.fr = frame /\ c.st = stack /\ c.pc = pc /\ c.go = go
                   /\ LoopWaits(module, c)
                   /\ GoFunctions(module, H, Append(go, act))
                   /\ Front(Append(go, act)) = go /\ Last(Append(go, act)) = act
                   /\ Cardinality(Running(Append(go, act))) = 0
<1> DEFINE c == Waiting(u, config, frame, stack, pc, go)
           H == With(G, c, x, act)
<1>1. /\ GoFunctions(module, G, go) /\ Last(go).k # "native"
      /\ ScriptFrame(module, frame) /\ Above(module, G, u, config, frame, stack, go)
      /\ Stands(module, config, frame, stack, pc) /\ Closed(module, G)
  BY Situation, Zenon DEF Doing
<1>2. /\ c.k = "waiting" /\ c.up = u /\ c.cf = config /\ c.fr = frame /\ c.st = stack
      /\ c.pc = pc /\ c.go = go
  BY DEF Waiting
<1> HIDE DEF c
<1>3. Closed(module, H) /\ G \subseteq H /\ c \in H /\ x \in H /\ act \in H
  <2>1. x.k \notin {"iter", "waiting"} /\ act.k \notin {"iter", "waiting"}
    OBVIOUS
  <2> QED
    BY <1>1, <1>2, <2>1, Joined, Zenon
<1> HIDE DEF H
<1>4. go \in Seq(H)
  BY <1>1, <1>3, MoreCells, Zenon DEF GoFunctions
<1>5. /\ GoFunctions(module, H, Append(go, act))
      /\ Front(Append(go, act)) = go /\ Last(Append(go, act)) = act
  <2>1. /\ act.k \in {"rule", "native", "sfunc", "siter"}
        /\ act.k = "sfunc" => act.clo \in CalledBack(module)
        /\ act.k = "native" => act \in NativeFunctions(module)
    OBVIOUS
  <2> QED
    BY <1>3, <1>4, <2>1, Starts
<1>6. Cardinality(Running(Append(go, act))) = 0
  BY <1>3, <1>4, RunningFacts
<1>7. LoopWaits(module, c) /\ Caller(H, c, config)
  BY <1>1, <1>2, <1>3, Zenon DEF LoopWaits, Caller
<1> QED
  BY <1>2, <1>3, <1>5, <1>6, <1>7, Zenon

(* The iterator in its slot is the one that runs.                          *)
LEMMA SetUpIteratorWorks ==
  ASSUME Works, Verified(module), SetUpIterator
  PROVE  Works'
<1>1. PICK G, u : Doing(G, u)
  BY Begins, Zenon DEF SetUpIterator, At
<1> DEFINE n == Instr.arg
           it == Top(n)
           t == "siter"
           act == [k |-> "siter", at |-> Len(stack) - n, outer |-> stack, pc |-> pc, setup |-> TRUE]
           e == <<>>
           st == Pushed(e, 1 + n)
           x == Frame(frame, 0)
<1>2. /\ Flows(module, frame.prog, module[frame.prog].code, Instr, pc) /\ n \in Nat /\ pc \in Nat
      /\ Instr.d \in Nat /\ Len(stack) \in Nat /\ Len(stack) = Base(frame) + Instr.d
      /\ Base(frame) \in Nat
      /\ Instr = InstrAt(module, frame, pc) /\ ScriptFrame(module, frame)
  BY <1>1, Situation, Zenon
<1>3. Instr.op = "SetUpIterator" /\ Slot(Instr.d - n, "loaded") \in Instr.its
  <2>1. Instr.op = "SetUpIterator"
    BY Zenon DEF SetUpIterator, At
  <2> QED
    BY <1>2, <2>1, Zenon DEF Flows, Iterates
<1>4. module \in Modules /\ Verified(module) /\ mode = "run" /\ NoName \in ProgramNames(module)
  BY <1>1, TopFrameFacts, Zenon DEF Doing
<1>5. /\ it.k = "iter" /\ it.prog # NoName /\ it.stack = <<>> /\ it.pc = 0 /\ Sound(module, G, it)
      /\ Len(stack) - n \in DOMAIN stack /\ it = stack[Len(stack) - n]
  <2>1. Base(frame) + (Instr.d - n) = Len(stack) - n
    BY <1>2
  <2>2. it = stack[Len(stack) - n]
    BY Zenon DEF Top
  <2> HIDE DEF it
  <2>3. /\ Base(frame) + (Instr.d - n) \in DOMAIN stack
        /\ Keeps(stack[Base(frame) + (Instr.d - n)], "loaded")
        /\ Sound(module, G, stack[Base(frame) + (Instr.d - n)])
    BY <1>1, <1>3, InSlot, Zenon
  <2>4. /\ Len(stack) - n \in DOMAIN stack
        /\ Keeps(stack[Len(stack) - n], "loaded") /\ Sound(module, G, stack[Len(stack) - n])
    BY <2>1, <2>3
  <2> QED
    BY <2>2, <2>4, Zenon DEF Keeps, NoName
<1>6. /\ it.prog \in DOMAIN module /\ it.prog \in ProgramNames(module)
      /\ module[it.prog].kind = "iter"
  BY <1>5, SoundFacts, Zenon DEF ProgramNames, NoName
<1>7. /\ stack' = Append(st, x) /\ frame' = Fresh(st, t, n, it.prog, NoName)
      /\ go' = Append(go, act) /\ pc' = 0
      /\ UNCHANGED <<module, config, mode>>
  <2>1. /\ stack' = Append(Pushed(it.stack, 1 + n), x)
        /\ frame' = Fresh(Pushed(it.stack, 1 + n), t, n, it.prog, NoName)
        /\ go' = Append(go, act) /\ pc' = it.pc
        /\ UNCHANGED <<module, config, mode>>
    BY Zenon DEF SetUpIterator, Prologue, Enter, Fresh, NoName
  <2> HIDE DEF it, x, act
  <2> QED
    BY <1>5, <2>1
<1>8. /\ act.k = "siter" /\ act.setup = TRUE /\ act.at = Len(stack) - n /\ act.outer = stack /\ act.pc = pc
  OBVIOUS
<1>9. x.k = "frame" /\ x.fr = frame
  BY SavedFrame
<1>10. t \in ScriptTypes /\ t = "siter" /\ t \in NativeTypes \cup ScriptTypes
  BY DEF ScriptTypes
<1> HIDE DEF n, it, t, act, x
<1>11. PICK H, c : /\ Closed(module, H) /\ Caller(H, c, config) /\ G \subseteq H /\ x \in H
                   /\ c.fr = frame /\ c.st = stack /\ c.pc = pc /\ c.go = go
                   /\ LoopWaits(module, c)
                   /\ GoFunctions(module, H, Append(go, act))
                   /\ Front(Append(go, act)) = go /\ Last(Append(go, act)) = act
                   /\ Cardinality(Running(Append(go, act))) = 0
  BY <1>1, <1>8, <1>9, LoopPauses, Zenon
<1>12. e \in Seq(H) /\ Len(e) = 0 /\ Val \in H /\ Saved(e) = {} /\ 1 + n \in Nat
  <2>1. e \in Seq(H) /\ Len(e) = 0 /\ 1 + n \in Nat /\ DOMAIN e = {}
    BY <1>2, NoCells
  <2>2. Val \in H
    BY <1>11, Zenon DEF Closed
  <2> HIDE DEF e
  <2>3. Saved(e) = {}
    BY <2>1, Zenon DEF Saved
  <2> QED
    BY <2>1, <2>2, <2>3
<1> HIDE DEF e
<1>13. /\ st \in Seq(H) /\ Len(st) = 1 + n
       /\ \A i \in 1 .. 1 + n : st[i].k # "frame"
  <2>1. /\ st \in Seq(H) /\ Len(st) = Len(e) + (1 + n)
        /\ \A i \in Len(e) + 1 .. Len(e) + (1 + n) : st[i].k # "frame"
    BY <1>12, BaseFits, Zenon
  <2>2. Len(e) + (1 + n) = 1 + n /\ Len(e) + 1 = 1
    BY <1>2, <1>12
  <2> HIDE DEF st
  <2> QED
    BY <2>1, <2>2
<1>14. Saved(st) = {}
  BY <1>12, SavedPushed, Zenon
<1> HIDE DEF st
<1>15. LaidOut(module, H, st, t, n, it.prog, NoName, x, frame', stack')
  <2>1. n + 1 <= Len(st) /\ \A i \in Len(st) - n .. Len(st) : st[i].k # "frame"
    BY <1>2, <1>13
  <2>2. Callable(module, H, st, t, n, it.prog, NoName, x)
    BY <1>2, <1>4, <1>6, <1>9, <1>10, <1>11, <1>13, <2>1, Zenon DEF Callable
  <2>3. LaidOut(module, H, st, t, n, it.prog, NoName, x, Fresh(st, t, n, it.prog, NoName), Append(st, x))
    BY <2>2, FreshFrame, Zenon
  <2> QED
    BY <1>7, <2>3, Zenon
<1>16. Alone(frame', stack')
  <2>1. Len(st) - (n + 1) = 0
    BY <1>2, <1>13
  <2> QED
    BY <1>15, <2>1, Zenon DEF LaidOut
<1>17. IterFrame(module, frame', frame'.prog) /\ ScriptFrame(module, frame')
  BY <1>6, <1>10, <1>15, Zenon DEF LaidOut, IterFrame, ScriptFrame, NoName
<1>18. Holder(module, c, act, frame'.prog)
  <2>1. act.setup \in BOOLEAN
    BY <1>8
  <2>2. frame'.prog = it.prog
    BY <1>15, Zenon DEF LaidOut
  <2>3. InstrAt(module, c.fr, c.pc).op = "SetUpIterator" /\ act.at = Len(c.st) - InstrAt(module, c.fr, c.pc).arg
    <3>1. InstrAt(module, frame, pc).arg = n
      BY <1>2, Zenon DEF n
    <3>2. InstrAt(module, frame, pc).op = "SetUpIterator"
      BY <1>2, <1>3, Zenon
    <3> QED
      BY <1>8, <1>11, <3>1, <3>2, Zenon
  <2>4. act.at \in DOMAIN c.st /\ c.st[act.at].k = "iter" /\ c.st[act.at].prog = frame'.prog
    BY <1>5, <1>8, <1>11, <2>2, Zenon
  <2>5. ~act.setup => FALSE
    BY <1>8, Zenon
  <2> QED
    BY <2>1, <2>3, <2>4, <2>5, Zenon DEF Holder
<1>19. Iterating(module, c, frame', stack', go')
  BY <1>7, <1>8, <1>11, <1>16, <1>17, <1>18, Zenon DEF Iterating, Entered
<1>20. Linked(module, c, frame', stack', go')
  <2>1. it.prog # "rule"
    <3>1. module["rule"].kind # "iter"
      <4>1. module["rule"].kind \notin {"fn", "iter"}
        BY <1>4, Zenon DEF Verified
      <4> QED
        BY <4>1
    <3> QED
      BY <1>6, <3>1, Zenon
  <2> QED
    BY <1>9, <1>11, <1>15, <1>19, <2>1, Zenon DEF LaidOut, Linked
<1>21. Matched(go', stack', frame')
  <2>1. frame.ftype \notin NativeTypes /\ frame'.ftype \notin NativeTypes
    BY <1>2, <1>17, TypesDiffer, Zenon DEF ScriptFrame
  <2>2. Saved(stack') = {}
    BY <1>7, <1>9, <1>11, <1>13, <1>14, <2>1, SavedFacts, Zenon
  <2>3. Cardinality(Saved(stack')) + 0 = 0
    BY <2>2, FS_EmptySet
  <2>4. Cardinality(Running(go')) = 0
    BY <1>7, <1>11, Zenon
  <2> QED
    BY <2>1, <2>3, <2>4, Zenon DEF Matched
<1>22. GoFunctions(module, H, go') /\ Last(go').k # "native" /\ Caller(H, c, config')
  <2>1. act.k # "native"
    BY <1>8
  <2> QED
    BY <1>7, <1>11, <2>1, Zenon
<1>23. mode' = "run" /\ pc' = 0
  BY <1>4, <1>7
<1> QED
  BY <1>4, <1>7, <1>11, <1>15, <1>17, <1>20, <1>21, <1>22, <1>23, EntersScript, Zenon DEF LaidOut

(* One cell is replaced.                                                   *)
Put(s, i, x) == [s EXCEPT ![i] = x]
ButFor(H, s, i, x, t) ==
  /\ t \in Seq(H) /\ Len(t) = Len(s) /\ DOMAIN t = DOMAIN s
  /\ t[i] = x /\ \A j \in DOMAIN s : j # i => t[j] = s[j]

LEMMA PutFacts ==
  ASSUME NEW H, NEW s \in Seq(H), NEW i \in DOMAIN s, NEW x \in H
  PROVE  ButFor(H, s, i, x, Put(s, i, x))
<1> DEFINE t == Put(s, i, x)
           l == Len(s)
<1>1. l \in Nat /\ DOMAIN s = 1 .. l /\ \A j \in 1 .. l : s[j] \in H
  OBVIOUS
<1> HIDE DEF l
<1>2. t = [j \in 1 .. l |-> IF j = i THEN x ELSE s[j]]
  BY <1>1, Zenon DEF Put
<1> HIDE DEF t
<1>3. DOMAIN t = 1 .. l /\ \A j \in 1 .. l : t[j] = (IF j = i THEN x ELSE s[j])
  BY <1>2, Zenon
<1>4. t \in [1 .. l -> H]
  BY <1>1, <1>2, Zenon
<1>5. t \in Seq(H) /\ Len(t) = l
  BY <1>1, <1>4
<1> QED
  BY <1>1, <1>3, <1>5, Zenon DEF t, l, ButFor

(* The frame that is saved below an iterator does not matter to it.        *)
LEMMA StandsElsewhere ==
  ASSUME NEW m, Verified(m), NEW f \in FrameRecords(m), NEW st, NEW p, Stands(m, 0, f, st, p), f.prog # "rule",
         NEW su, Len(su) = Len(st), \A j \in DOMAIN st : j # PrevPos(f) => su[j] = st[j],
         NEW G, st \in Seq(G), NEW cf
  PROVE  Stands(m, cf, f, su, p)
<1> DEFINE I == InstrAt(m, f, p)
<1>1. Typed(I) /\ Fits(m, 0, f, st, I) /\ f.prog \in DOMAIN m /\ p \in 0 .. Len(m[f.prog].code) - 1
  BY CodeFacts, Zenon DEF Stands
<1>2. I.d \in Nat /\ I.its \subseteq [d : 1 .. I.d, is : {"loaded", "set", "ready"}]
  BY <1>1, Zenon DEF Typed
<1>3. /\ Len(st) = Base(f) + I.d /\ f.excep = Handlers(f, I.h)
      /\ \A x \in I.its : Keeps(st[Base(f) + x.d], x.is)
  BY <1>1, Zenon DEF Fits
<1>4. Base(f) \in Nat /\ PrevPos(f) = Base(f)
  BY FrameFacts
<1> HIDE DEF I
<1>5. \A x \in I.its : Keeps(su[Base(f) + x.d], x.is)
  <2>1. SUFFICES ASSUME NEW x \in I.its PROVE Keeps(su[Base(f) + x.d], x.is)
    OBVIOUS
  <2>2. x.d \in 1 .. I.d
    BY <1>2
  <2>3. Base(f) + x.d \in DOMAIN st /\ Base(f) + x.d # PrevPos(f)
    BY <1>2, <1>3, <1>4, <2>2
  <2> QED
    BY <1>3, <2>3, Zenon
<1>6. Fits(m, cf, f, su, I)
  BY <1>3, <1>5, Zenon DEF Fits
<1> QED
  BY <1>1, <1>6, Zenon DEF Stands, I

LEMMA ResumeIteratorWorks ==
  ASSUME Works, Verified(module), ResumeIterator
  PROVE  Works'
<1>1. PICK G, u : Doing(G, u)
  BY Begins, Zenon DEF ResumeIterator, At
<1> DEFINE it == Top(0)
           g == it.fr
           P == PrevPos(g)
           act == [k |-> "siter", at |-> Len(stack), outer |-> stack, pc |-> pc, setup |-> FALSE]
           x == Frame(frame, 0)
<1>2. /\ Flows(module, frame.prog, module[frame.prog].code, Instr, pc)
      /\ Instr = InstrAt(module, frame, pc) /\ ScriptFrame(module, frame)
  BY <1>1, Situation, Zenon
<1>3. Instr.op = "NextIterator" /\ it.prog # NoName
  BY Zenon DEF ResumeIterator, At, NoName
<1>4. Slot(Instr.d, "ready") \in Instr.its
  BY <1>2, <1>3, Zenon DEF Flows, Iterates
<1>5. module \in Modules /\ Verified(module) /\ mode = "run"
  BY <1>1, Zenon DEF Doing
<1>6. /\ it.k = "iter" /\ it.next /\ Sound(module, G, it)
      /\ Len(stack) \in DOMAIN stack /\ it = stack[Len(stack)]
  <2>1. /\ Keeps(it, "ready") /\ Sound(module, G, it) /\ it.k = "iter" /\ it = stack[Len(stack)]
        /\ Len(stack) \in DOMAIN stack
    BY <1>1, <1>4, TopSlot, Zenon
  <2> QED
    BY <1>3, <2>1, Zenon DEF Keeps, NoName
<1>7. /\ it.prog \in DOMAIN module /\ module[it.prog].kind = "iter" /\ Suspended(module, it)
      /\ it.pc \in Nat /\ it.stack \in Seq(G) /\ g \in FrameRecords(module)
  BY <1>3, <1>6, SoundFacts, Zenon DEF ProgramNames, NoName
<1>8. /\ IterFrame(module, g, it.prog) /\ Stands(module, 0, g, it.stack, it.pc)
      /\ Alone(g, it.stack)
  BY <1>7, Zenon DEF Suspended
<1>9. /\ P \in DOMAIN it.stack /\ it.stack[P].k = "frame"
      /\ \A i \in DOMAIN it.stack : it.stack[i].k = "frame" => i = P
  BY <1>8, Zenon DEF Alone
<1>10. HasPrev(it.stack, g)
  <2>1. P <= Len(it.stack)
    BY <1>7, <1>9
  <2> QED
    BY <1>9, <2>1, Zenon DEF HasPrev
<1>11. /\ stack' = [it.stack EXCEPT ![P] = x] /\ frame' = g /\ pc' = it.pc /\ go' = Append(go, act)
       /\ UNCHANGED <<module, config, mode>>
  BY <1>10, Zenon DEF ResumeIterator, Enter
<1>12. /\ act.k = "siter" /\ act.setup = FALSE /\ act.at = Len(stack) /\ act.outer = stack /\ act.pc = pc
  OBVIOUS
<1>13. x.k = "frame" /\ x.fr = frame
  BY SavedFrame
<1> HIDE DEF it, g, P, act, x
<1>14. PICK H, c : /\ Closed(module, H) /\ Caller(H, c, config) /\ G \subseteq H /\ x \in H
                   /\ c.fr = frame /\ c.st = stack /\ c.pc = pc /\ c.go = go
                   /\ LoopWaits(module, c)
                   /\ GoFunctions(module, H, Append(go, act))
                   /\ Front(Append(go, act)) = go /\ Last(Append(go, act)) = act
                   /\ Cardinality(Running(Append(go, act))) = 0
  BY <1>1, <1>12, <1>13, LoopPauses, Zenon
<1>15. it.stack \in Seq(H)
  BY <1>7, <1>14, MoreCells
<1>16. /\ stack' \in Seq(H) /\ Len(stack') = Len(it.stack) /\ DOMAIN stack' = DOMAIN it.stack
       /\ stack'[P] = x
       /\ \A j \in DOMAIN it.stack : j # P => stack'[j] = it.stack[j]
  <2> DEFINE t == Put(it.stack, P, x)
  <2>1. ButFor(H, it.stack, P, x, t)
    <3>1. x \in H /\ P \in DOMAIN it.stack
      BY <1>9, <1>14
    <3> QED
      BY <1>15, <3>1, PutFacts, Zenon
  <2>2. stack' = t
    BY <1>11, Zenon DEF Put
  <2> HIDE DEF t
  <2> QED
    BY <2>1, <2>2, Zenon DEF ButFor
<1>17. P = PrevPos(g) /\ g.framep \in Nat /\ P > g.framep
  <2>1. g.framep \in Nat /\ g.farg \in Nat /\ PrevPos(g) = g.framep + g.farg + 2
    BY <1>7, FrameFacts
  <2> QED
    BY <2>1 DEF P
<1>18. \A i \in DOMAIN stack' : stack'[i].k = "frame" => i = P
  BY <1>9, <1>16, Zenon
<1>19. Alone(g, stack') /\ Sits(g, stack', frame)
  <2>1. Alone(g, stack')
    BY <1>9, <1>13, <1>16, <1>17, <1>18, Zenon DEF Alone
  <2>2. \A i \in g.framep + 1 .. Len(stack') : i \in DOMAIN stack'
    BY <1>16, <1>17
  <2>3. \A i \in g.framep + 1 .. Len(stack') : stack'[i].k = "frame" => i = PrevPos(g)
    BY <1>17, <1>18, <2>2, Zenon
  <2> QED
    BY <1>9, <1>13, <1>16, <1>17, <2>1, <2>3, Zenon DEF Sits
<1>20. /\ g.prog = it.prog /\ IterFrame(module, g, g.prog) /\ ScriptFrame(module, g)
       /\ g.ftype \notin NativeTypes
  BY <1>8, TypesDiffer, Zenon DEF IterFrame, ScriptFrame
<1>21. g.prog # "rule"
  <2>1. module["rule"].kind \notin {"fn", "iter"}
    BY <1>5, Zenon DEF Verified
  <2>2. module["rule"].kind # "iter"
    BY <2>1
  <2> QED
    BY <1>7, <1>20, <2>2, Zenon
<1>22. Holder(module, c, act, g.prog)
  <2>1. act.setup \in BOOLEAN
    BY <1>12
  <2>2. act.setup => FALSE
    BY <1>12
  <2>3. InstrAt(module, c.fr, c.pc).op = "NextIterator" /\ act.at = Len(c.st)
    BY <1>2, <1>3, <1>12, <1>14, Zenon
  <2>4. act.at \in DOMAIN c.st /\ c.st[act.at].k = "iter" /\ c.st[act.at].prog = g.prog
    BY <1>6, <1>12, <1>14, <1>20, Zenon
  <2> QED
    BY <2>1, <2>2, <2>3, <2>4, Zenon DEF Holder
<1>23. Iterating(module, c, g, stack', go')
  BY <1>11, <1>12, <1>14, <1>19, <1>20, <1>22, Zenon DEF Iterating, Entered
<1>24. Linked(module, c, g, stack', go')
  BY <1>14, <1>19, <1>21, <1>23, Zenon DEF Linked
<1>25. Matched(go', stack', g)
  <2>1. frame.ftype \notin NativeTypes
    BY <1>2, TypesDiffer, Zenon DEF ScriptFrame
  <2>2. Saved(stack') = {}
    <3>1. \A i \in DOMAIN stack' : stack'[i].k = "frame" => stack'[i].fr = frame
      BY <1>13, <1>16, <1>18, Zenon
    <3> QED
      BY <2>1, <3>1, Zenon DEF Saved
  <2>3. Cardinality(Saved(stack')) + 0 = 0
    BY <2>2, FS_EmptySet
  <2>4. Cardinality(Running(go')) = 0
    BY <1>11, <1>14, Zenon
  <2> QED
    BY <1>20, <2>3, <2>4, Zenon DEF Matched
<1>26. Above(module, H, c, config, g, stack', go')
  <2>1. GoFunctions(module, H, go')
    BY <1>11, <1>14, Zenon
  <2> QED
    BY <1>7, <1>14, <1>16, <1>24, <1>25, <2>1, Zenon DEF Above
<1>27. Stands(module, config, g, stack', it.pc)
  BY <1>5, <1>7, <1>8, <1>16, <1>17, <1>21, StandsElsewhere, Zenon
<1>28. Executes(module, H, c, config, stack', g, it.pc, go')
  <2>1. Last(go').k # "native"
    BY <1>11, <1>12, <1>14
  <2> QED
    BY <1>20, <1>26, <1>27, <2>1, Zenon DEF Executes
<1>29. Executes(module, H, c, config', stack', frame', pc', go') /\ pc' \in Nat /\ mode' = "run" /\ module' = module
  BY <1>5, <1>7, <1>11, <1>28, Zenon
<1> QED
  BY <1>5, <1>14, <1>29, Runs, Zenon

-----------------------------------------------------------------------------
(* Returns.                                                                *)

(* The saved frame is found.                                               *)
LEMMA PrevHolds ==
  ASSUME NEW G, NEW st \in Seq(G), NEW f, NEW below, Sits(f, st, below)
  PROVE  HasPrev(st, f) /\ Prev(st, f).fr = below /\ Prev(st, f) = st[PrevPos(f)]
<1>1. PrevPos(f) \in DOMAIN st /\ st[PrevPos(f)].k = "frame" /\ st[PrevPos(f)].fr = below
  BY Zenon DEF Sits
<1>2. PrevPos(f) <= Len(st)
  BY <1>1
<1> QED
  BY <1>1, <1>2, Zenon DEF HasPrev, Prev

(* A caller is itself above its caller.                                    *)
LEMMA CallerAbove ==
  ASSUME NEW m, NEW G, Closed(m, G), NEW c, NEW cf, Caller(G, c, cf)
  PROVE  /\ Above(m, G, c.up, cf, c.fr, c.st, c.go)
         /\ c.fr \in FrameRecords(m) /\ c.st \in Seq(G) /\ GoFunctions(m, G, c.go)
         /\ c.cf = cf /\ Base(c.fr) <= Len(c.st) - 0
<1>1. Above(m, G, c.up, cf, c.fr, c.st, c.go) /\ c.cf = cf
  BY Zenon DEF Caller, Closed, Fine
<1>2. c.fr \in FrameRecords(m) /\ c.st \in Seq(G) /\ GoFunctions(m, G, c.go)
  BY <1>1, Zenon DEF Above
<1>3. Base(c.fr) \in DOMAIN c.st
  BY <1>1, NoFrames
<1>4. Base(c.fr) <= Len(c.st) - 0
  BY <1>2, <1>3
<1> QED
  BY <1>1, <1>2, <1>4

(* A value is pushed for the caller.                                       *)
LEMMA CallerGets ==
  ASSUME NEW m, NEW G, Closed(m, G), NEW c, NEW cf, Caller(G, c, cf)
  PROVE  Above(m, G, c.up, cf, c.fr, Append(c.st, Val), c.go)
<1>1. /\ Above(m, G, c.up, cf, c.fr, c.st, c.go)
      /\ c.fr \in FrameRecords(m) /\ c.st \in Seq(G) /\ Base(c.fr) <= Len(c.st) - 0
  BY CallerAbove, Zenon
<1>2. Val \in G /\ Val.k # "frame"
  <2>1. Val.k # "frame"
    BY DEF Val
  <2> QED
    BY <2>1, Zenon DEF Closed
<1>3. Changes(G, c.st, Append(c.st, Val), 0, 0 + 1)
  BY <1>1, <1>2, NoChange, AppendChange, Zenon
<1>4. SameCall(c.fr, c.fr) /\ G \subseteq G
  BY <1>1, SameCalls
<1> QED
  BY <1>1, <1>3, <1>4, Onward, Zenon

(* A script gets the value it waits for.                                   *)
LEMMA ScriptGoesOn ==
  ASSUME module \in Modules, Verified(module), UNCHANGED <<module, config>>,
         NEW G, Closed(module, G), NEW c, Caller(G, c, config), ScriptWaits(module, c),
         frame' = c.fr, stack' = Append(c.st, Val), pc' = c.pc, go' = c.go, mode' = "run"
  PROVE  Works'
<1>1. Above(module, G, c.up, config, c.fr, Append(c.st, Val), c.go) /\ c.cf = config
  BY CallerGets, CallerAbove, Zenon
<1>2. Executes(module, G, c.up, config, Append(c.st, Val), c.fr, c.pc, c.go)
  BY <1>1, Zenon DEF ScriptWaits, Executes
<1>3. c.pc \in Nat
  BY <1>2, CodeFacts, Zenon DEF Executes
<1>4. Executes(module, G, c.up, config', stack', frame', pc', go') /\ pc' \in Nat
  BY <1>2, <1>3, Zenon
<1> QED
  BY <1>4, Runs, Zenon

(* A script gets an exception instead.                                     *)
LEMMA ScriptThrows ==
  ASSUME module \in Modules, UNCHANGED <<module, config>>,
         NEW G, Closed(module, G), NEW c, Caller(G, c, config), ScriptWaits(module, c),
         frame' = c.fr, stack' = c.st, go' = c.go, mode' = "throw", pc' \in Nat
  PROVE  Works'
<1>1. Above(module, G, c.up, config, c.fr, c.st, c.go) /\ c.cf = config
  BY CallerAbove, Zenon
<1>2. Throws(module, G, c.up, config, c.st, c.fr, c.go)
  BY <1>1, Zenon DEF ScriptWaits, Throws
<1>3. Throws(module, G, c.up, config', stack', frame', go')
  BY <1>2, Zenon
<1> QED
  BY <1>3, Zenon DEF Works, Machine, Current

(* A native function sees a result or an error.                            *)
LEMMA NativeGoesOn ==
  ASSUME module \in Modules, UNCHANGED <<module, config>>,
         NEW G, Closed(module, G), NEW c, Caller(G, c, config), NativeWaits(c),
         frame' = c.fr, stack' = c.st \/ stack' = Append(c.st, Val), go' = c.go,
         mode' = "run", pc' \in Nat
  PROVE  Works'
<1>1. Above(module, G, c.up, config, c.fr, c.st, c.go)
  BY CallerAbove, Zenon
<1>2. Above(module, G, c.up, config, c.fr, Append(c.st, Val), c.go)
  BY CallerGets, Zenon
<1>3. Above(module, G, c.up, config, c.fr, stack', c.go)
  BY <1>1, <1>2, Zenon
<1>4. RunsNative(module, G, c.up, config, stack', c.fr, c.go)
  BY <1>3, Zenon DEF NativeWaits, RunsNative
<1>5. RunsNative(module, G, c.up, config', stack', frame', go')
  BY <1>4, Zenon
<1> QED
  BY <1>5, Zenon DEF Works, Machine, Current

(* How a script frame was entered, and a native one.                       *)
LEMMA ScriptEntries ==
  ASSUME NEW m, NEW G, NEW u, NEW cf, NEW f, NEW st, NEW gos, Above(m, G, u, cf, f, st, gos), ScriptFrame(m, f)
  PROVE  \/ OfRule(m, f, st, gos)
         \/ Caller(G, u, cf) /\ Sits(f, st, u.fr) /\ CalledScript(m, u, f, st, gos)
         \/ Caller(G, u, cf) /\ Sits(f, st, u.fr) /\ CalledClosure(m, u, f, st, gos)
         \/ Caller(G, u, cf) /\ Sits(f, st, u.fr) /\ Iterating(m, u, f, st, gos)
<1>1. ~NativeFrame(f)
  BY TypesDiffer, Zenon DEF ScriptFrame, NativeFrame
<1> QED
  BY <1>1, Zenon DEF Above, Linked, CalledNative, CalledBound

LEMMA NativeEntries ==
  ASSUME NEW m, NEW G, NEW u, NEW cf, NEW f, NEW st, NEW gos, Above(m, G, u, cf, f, st, gos), NativeFrame(f)
  PROVE  /\ Caller(G, u, cf) /\ Sits(f, st, u.fr)
         /\ CalledNative(m, u, f, st, gos) \/ CalledBound(u, f, st, gos)
<1>1. ~ScriptFrame(m, f)
  BY TypesDiffer, Zenon DEF ScriptFrame, NativeFrame
<1> QED
  BY <1>1, Zenon DEF Above, Linked, OfRule, CalledScript, CalledClosure, Iterating, IterFrame

(* Its program is named, that of native functions and at the top is not.   *)
LEMMA ProgNamed ==
  ASSUME NEW m, Verified(m), NEW f
  PROVE  /\ ScriptFrame(m, f) => f.prog # NoName
         /\ NativeFrame(f) => f.prog = NoName
         /\ TopFrame.prog = NoName /\ TopFrame.ftype = "top" /\ TopFrame.excep = <<>>
<1>1. ScriptFrame(m, f) => f.prog # NoName
  BY Zenon DEF ScriptFrame, Verified, NoName
<1>2. NativeFrame(f) => f.prog = NoName
  BY Zenon DEF NativeFrame, NoName
<1>3. TopFrame = [ftype |-> "top", farg |-> 0, framep |-> 0, prog |-> NoName, excep |-> <<>>,
                  clo |-> NoName]
  BY Zenon DEF TopFrame, NoName
<1>4. TopFrame.prog = NoName /\ TopFrame.ftype = "top" /\ TopFrame.excep = <<>>
  BY <1>3
<1> QED
  BY <1>1, <1>2, <1>4

LEMMA ReturnToScriptWorks ==
  ASSUME Works, Verified(module), ReturnToScript
  PROVE  Works'
<1>1. PICK G, u : Doing(G, u)
  BY Begins, Zenon DEF ReturnToScript, At
<1>2. /\ Prev(stack, frame).fr.prog # NoName /\ frame.ftype # "siter"
      /\ stack' = Append(PopTo(frame.framep), Val)
      /\ frame' = Prev(stack, frame).fr
      /\ pc' = Prev(stack, frame).pc
      /\ UNCHANGED <<module, config, go, mode>>
  BY Zenon DEF ReturnToScript, NoName
<1>3. /\ module \in Modules /\ Verified(module) /\ mode = "run" /\ Closed(module, G)
      /\ Above(module, G, u, config, frame, stack, go) /\ ScriptFrame(module, frame) /\ stack \in Seq(G)
  BY <1>1, Situation, Zenon DEF Doing
<1>4. ASSUME NEW below, Sits(frame, stack, below)
      PROVE  Prev(stack, frame).fr = below /\ Prev(stack, frame) = stack[PrevPos(frame)]
  BY <1>3, <1>4, PrevHolds, Zenon
<1>5. ~OfRule(module, frame, stack, go)
  <2>1. TopFrame.prog = NoName
    BY <1>3, ProgNamed
  <2> QED
    BY <1>2, <1>4, <2>1, Zenon DEF OfRule
<1>6. ~CalledClosure(module, u, frame, stack, go) \/ ~Sits(frame, stack, u.fr)
  <2>1. NativeWaits(u) => u.fr.prog = NoName
    BY <1>3, ProgNamed, Zenon DEF NativeWaits
  <2> QED
    BY <1>2, <1>4, <2>1, Zenon DEF CalledClosure
<1>7. ~Iterating(module, u, frame, stack, go)
  BY <1>2, Zenon DEF Iterating, IterFrame
<1>8. Caller(G, u, config) /\ Sits(frame, stack, u.fr) /\ CalledScript(module, u, frame, stack, go)
  BY <1>3, <1>5, <1>6, <1>7, ScriptEntries, Zenon
<1>9. ScriptWaits(module, u) /\ PopTo(frame.framep) = u.st /\ stack[PrevPos(frame)].pc = u.pc /\ go = u.go
  BY <1>8, Zenon DEF CalledScript, FromScript, OnTop, PopTo
<1>10. frame' = u.fr /\ stack' = Append(u.st, Val) /\ pc' = u.pc /\ go' = u.go /\ mode' = "run"
  BY <1>2, <1>3, <1>4, <1>8, <1>9, Zenon
<1> QED
  BY <1>2, <1>3, <1>8, <1>9, <1>10, ScriptGoesOn, Zenon

LEMMA NativeReturnsWorks ==
  ASSUME Works, Verified(module), NativeReturns
  PROVE  Works'
<1>1. PICK G, u : Inside(G, u)
  BY NativeRuns, Zenon DEF NativeReturns
<1>2. /\ module \in Modules /\ Verified(module) /\ mode = "run" /\ pc \in Nat /\ Closed(module, G)
      /\ Above(module, G, u, config, frame, stack, go) /\ NativeFrame(frame) /\ stack \in Seq(G)
  BY <1>1, Zenon DEF Inside, RunsNative, Above
<1>3. /\ Caller(G, u, config) /\ Sits(frame, stack, u.fr)
      /\ CalledNative(module, u, frame, stack, go) \/ CalledBound(u, frame, stack, go)
  BY <1>2, NativeEntries, Zenon
<1>4. HasPrev(stack, frame) /\ Prev(stack, frame).fr = u.fr /\ Prev(stack, frame) = stack[PrevPos(frame)]
  BY <1>2, <1>3, PrevHolds, Zenon
<1>5. /\ frame' = u.fr /\ go' = Front(go)
      /\ IF Last(go).from = "native"
         THEN stack' = PopTo(frame.framep) /\ UNCHANGED <<pc, mode>>
         ELSE /\ stack' = Append(PopTo(frame.framep), Val)
              /\ IF u.fr.prog = NoName THEN mode' = "panic" /\ pc' = pc
                 ELSE mode' = mode /\ pc' = stack[PrevPos(frame)].pc
      /\ UNCHANGED <<module, config>>
  <2>1. /\ frame' = Prev(stack, frame).fr /\ go' = Front(go)
        /\ IF Last(go).from = "native"
           THEN stack' = PopTo(frame.framep) /\ UNCHANGED <<pc, mode>>
           ELSE /\ stack' = Append(PopTo(frame.framep), Val)
                /\ IF Prev(stack, frame).fr.prog = NoName THEN mode' = "panic" /\ pc' = pc
                   ELSE mode' = mode /\ pc' = Prev(stack, frame).pc
        /\ UNCHANGED <<module, config>>
    BY <1>4, Zenon DEF NativeReturns, NoName
  <2> QED
    BY <1>4, <2>1, Zenon
<1>6. CASE CalledNative(module, u, frame, stack, go)
  <2>1. /\ ScriptWaits(module, u) /\ PopTo(frame.framep) = u.st /\ stack[PrevPos(frame)].pc = u.pc
        /\ Front(go) = u.go /\ Last(go).from = "vm"
    BY <1>6, Zenon DEF CalledNative, FromScript, OnTop, PopTo, Entered
  <2>2. Last(go).from # "native"
    BY <2>1
  <2>3. u.fr.prog # NoName
    BY <1>2, <2>1, ProgNamed, Zenon DEF ScriptWaits
  <2>4. stack' = Append(u.st, Val) /\ mode' = "run" /\ pc' = u.pc /\ go' = u.go
    BY <1>2, <1>5, <2>1, <2>2, <2>3, Zenon
  <2> QED
    BY <1>2, <1>3, <1>5, <2>1, <2>4, ScriptGoesOn, Zenon
<1>7. CASE CalledBound(u, frame, stack, go)
  <2>1. /\ NativeWaits(u) /\ PopTo(frame.framep) = u.st
        /\ Front(go) = u.go /\ Last(go).from = "native"
    BY <1>7, Zenon DEF CalledBound, OnTop, PopTo, Entered
  <2>2. stack' = u.st /\ mode' = "run" /\ pc' \in Nat /\ go' = u.go
    BY <1>2, <1>5, <2>1, Zenon
  <2> QED
    BY <1>2, <1>3, <1>5, <2>1, <2>2, NativeGoesOn, Zenon
<1> QED
  BY <1>3, <1>6, <1>7

LEMMA NativeFailsWorks ==
  ASSUME Works, Verified(module), NativeFails
  PROVE  Works'
<1>1. PICK G, u : Inside(G, u)
  BY NativeRuns, Zenon DEF NativeFails
<1>2. /\ module \in Modules /\ pc \in Nat /\ Closed(module, G)
      /\ Above(module, G, u, config, frame, stack, go) /\ NativeFrame(frame) /\ stack \in Seq(G)
      /\ frame \in FrameRecords(module)
  BY <1>1, Zenon DEF Inside, RunsNative, Above
<1>3. /\ Caller(G, u, config) /\ Sits(frame, stack, u.fr)
      /\ CalledNative(module, u, frame, stack, go) \/ CalledBound(u, frame, stack, go)
  BY <1>2, NativeEntries, Zenon
<1>4. Last(go).from = "vm" /\ go' = Front(go) /\ mode' = "throw" /\ UNCHANGED <<module, config, frame, pc, stack>>
  BY Zenon DEF NativeFails, Throw
<1>5. Last(go).from # "native"
  BY <1>4
<1>6. CalledNative(module, u, frame, stack, go)
  BY <1>3, <1>5, Zenon DEF CalledBound
<1>7. FailedNative(module, G, u, config, stack, frame, go')
  BY <1>2, <1>3, <1>4, <1>6, Zenon DEF FailedNative, CalledNative, Entered
<1>8. FailedNative(module', G, u, config', stack', frame', go') /\ Closed(module', G) /\ pc' \in Nat
  BY <1>2, <1>4, <1>7, Zenon
<1> QED
  BY <1>2, <1>4, <1>8, Zenon DEF Works, Machine, Current

-----------------------------------------------------------------------------
(* An iterator stops: it is in its slot again.                             *)

(* The instruction that runs an iterator, n cells above its slot.          *)
Runner(I, n, code, p) ==
  /\ n \in Nat /\ Takes(I, n + 1)
  /\ \/ I.op = "SetUpIterator" /\ Goes(code, I, p + 1, n + 1, 1, {Slot(I.d - n, "set")})
     \/ I.op = "NextIterator" /\ Goes(code, I, p + 1, n + 1, 2, {Slot(I.d - n, "set")})

LEMMA HolderFacts ==
  ASSUME NEW m, Verified(m), NEW c, LoopWaits(m, c), NEW a, NEW name, Holder(m, c, a, name),
         NEW G, c.st \in Seq(G)
  PROVE  \E n : /\ Runner(InstrAt(m, c.fr, c.pc), n, m[c.fr.prog].code, c.pc)
                /\ a.at = Len(c.st) - n
                /\ a.setup <=> InstrAt(m, c.fr, c.pc).op = "SetUpIterator"
<1> DEFINE I == InstrAt(m, c.fr, c.pc)
           code == m[c.fr.prog].code
<1>1. Iterates(m, code, I, c.pc) /\ Typed(I)
  BY CodeFacts, Zenon DEF LoopWaits, Flows
<1>2. I.arg \in Nat /\ I.d \in Nat
  BY <1>1, Zenon DEF Typed
<1>3. a.setup \in BOOLEAN
  BY Zenon DEF Holder
<1>4. /\ a.setup => I.op = "SetUpIterator" /\ a.at = Len(c.st) - I.arg
      /\ ~a.setup => I.op = "NextIterator" /\ a.at = Len(c.st)
  BY Zenon DEF Holder
<1> HIDE DEF I, code
<1>5. CASE a.setup
  <2>1. Runner(I, I.arg, code, c.pc)
    BY <1>1, <1>2, <1>4, <1>5, Zenon DEF Iterates, Runner
  <2> QED
    BY <1>4, <1>5, <2>1, Zenon DEF I, code
<1>6. CASE ~a.setup
  <2>1. I.op = "NextIterator" /\ a.at = Len(c.st) /\ I.op # "SetUpIterator"
    BY <1>4, <1>6
  <2>2. Len(c.st) = Len(c.st) - 0 /\ 0 + 1 = 1 /\ 0 \in Nat /\ I.d - 0 = I.d
    BY <1>2
  <2>3. Takes(I, 1) /\ Goes(code, I, c.pc + 1, 1, 2, {Slot(I.d, "set")})
    BY <1>1, <2>1, Zenon DEF Iterates
  <2>4. Takes(I, 0 + 1) /\ Goes(code, I, c.pc + 1, 0 + 1, 2, {Slot(I.d - 0, "set")})
    BY <2>2, <2>3, Zenon
  <2>5. Runner(I, 0, code, c.pc)
    BY <2>1, <2>2, <2>4, Zenon DEF Runner
  <2>6. a.at = Len(c.st) - 0
    BY <2>1, <2>2, Zenon
  <2> QED
    BY <1>6, <2>1, <2>5, <2>6, Zenon DEF I, code
<1> QED
  BY <1>5, <1>6

GivesBack(G, c, it) ==
  /\ mode = "run" /\ Caller(G, c, config) /\ Iterating(module, c, frame, stack, go)
  /\ Fine(module, G \cup {it}, it) /\ it.k = "iter" /\ it.next \in BOOLEAN
  /\ frame' = c.fr /\ BackFrom(Last(go), it)

LEMMA BackWorks ==
  ASSUME module \in Modules, Verified(module),
         NEW G, Closed(module, G), NEW c, NEW it, GivesBack(G, c, it)
  PROVE  Works'
<1> DEFINE a == Last(go)
           H == G \cup {it}
           I == InstrAt(module, c.fr, c.pc)
           code == module[c.fr.prog].code
           y == Flag(it.next)
<1>1. /\ LoopWaits(module, c) /\ Front(go) = c.go /\ a.outer = c.st /\ a.pc = c.pc
      /\ Holder(module, c, a, frame.prog)
  BY Zenon DEF GivesBack, Iterating, Entered
<1>20. Fine(module, G \cup {it}, it) /\ it.k = "iter" /\ it.next \in BOOLEAN /\ Caller(G, c, config)
  BY Zenon DEF GivesBack
<1>2. /\ Above(module, G, c.up, config, c.fr, c.st, c.go) /\ c.st \in Seq(G) /\ c.cf = config
      /\ c.fr \in FrameRecords(module)
  BY <1>20, CallerAbove, Zenon
<1>3. PICK n : /\ Runner(I, n, code, c.pc)
               /\ a.at = Len(c.st) - n
               /\ a.setup <=> I.op = "SetUpIterator"
  BY <1>1, <1>2, HolderFacts, Zenon
<1>4. Executes(module, G, c.up, config, c.st, c.fr, c.pc, c.go)
  BY <1>1, <1>2, Zenon DEF LoopWaits, Executes
<1>5. I.d \in Nat /\ Len(c.st) = Base(c.fr) + I.d /\ Base(c.fr) \in Nat /\ Len(c.st) \in Nat
  <2>1. Typed(I) /\ Fits(module, config, c.fr, c.st, I)
    BY <1>1, <1>2, CodeFacts, Zenon DEF LoopWaits
  <2>2. I.d \in Nat /\ Len(c.st) = Base(c.fr) + I.d
    BY <2>1, Zenon DEF Typed, Fits
  <2> QED
    BY <1>2, <2>2, FrameFacts
<1>6. Closed(module, H) /\ G \subseteq H /\ it \in H
  BY <1>20, OneMore, Zenon
<1> HIDE DEF H
<1>7. y \in H /\ y.k # "frame"
  BY <1>6, <1>20, Flags, Zenon
<1>8. n \in Nat /\ n + 1 <= I.d /\ n + 1 \in Nat /\ n + 1 <= Len(c.st)
  <2>1. n \in Nat /\ n + 1 <= I.d
    BY <1>3, Zenon DEF Runner, Takes
  <2> QED
    BY <1>5, <2>1
<1> DEFINE st0 == SubSeq(c.st, 1, Len(c.st) - (n + 1))
           st1 == Append(st0, it)
<1>9. /\ stack' = (IF a.setup THEN st1 ELSE Append(st1, y))
      /\ pc' = c.pc + 1 /\ go' = c.go /\ UNCHANGED <<module, config, mode>>
  <2>1. a.at - 1 = Len(c.st) - (n + 1)
    BY <1>3, <1>5, <1>8
  <2>2. /\ stack' = (IF a.setup THEN Append(SubSeq(a.outer, 1, a.at - 1), it)
                     ELSE Append(Append(SubSeq(a.outer, 1, a.at - 1), it), y))
        /\ pc' = a.pc + 1 /\ go' = Front(go) /\ UNCHANGED <<module, config, mode>>
    BY Zenon DEF GivesBack, BackFrom
  <2> HIDE DEF a, y
  <2> QED
    BY <1>1, <2>1, <2>2
<1> HIDE DEF a, I, code, y, st0
<1>10. Changes(H, c.st, st0, n + 1, 0)
  <2>1. Changes(G, c.st, st0, n + 1, 0)
    BY <1>2, <1>8, CutChange, Zenon DEF st0
  <2> QED
    BY <1>6, <2>1, MoreChange, Zenon
<1>11. st0 \in Seq(H) /\ Len(st0) = Len(c.st) - (n + 1) + 0
  BY <1>10, Zenon DEF Changes
<1>12. st1 \in Seq(H) /\ Len(st1) = Len(st0) + 1 /\ st1[Len(st0) + 1] = it
  BY <1>6, <1>11, AppendFacts, Zenon
<1>13. Changes(H, c.st, st1, n + 1, 1) /\ c.st \in Seq(H)
  <2>1. it.k # "frame" /\ 0 + 1 = 1
    BY <1>20
  <2>2. c.st \in Seq(H)
    BY <1>2, <1>6, MoreCells
  <2>3. Changes(H, c.st, st1, n + 1, 0 + 1)
    BY <1>6, <1>10, <2>1, <2>2, AppendChange, Zenon
  <2> QED
    BY <2>1, <2>2, <2>3, Zenon
<1> HIDE DEF st1
<1>14. Base(c.fr) + (I.d - n) = Len(st0) + 1 /\ Len(st0) + 1 = Len(st1) /\ Len(st0) + 1 \in 1 .. Len(st1)
  <2>1. \A b \in Nat, d \in Nat, k \in Nat :
          k + 1 <= d => /\ b + (d - k) = (((b + d) - (k + 1)) + 0) + 1
                        /\ ((b + d) - (k + 1)) + 0 \in Nat
    OBVIOUS
  <2>2. /\ Base(c.fr) + (I.d - n) = (((Base(c.fr) + I.d) - (n + 1)) + 0) + 1
        /\ ((Base(c.fr) + I.d) - (n + 1)) + 0 \in Nat
    BY <1>5, <1>8, <2>1, Zenon
  <2>3. Base(c.fr) + (I.d - n) = Len(st0) + 1 /\ Len(st0) \in Nat
    BY <1>5, <1>11, <2>2, Zenon
  <2>4. Len(st0) + 1 \in 1 .. Len(st0) + 1
    BY <2>3
  <2> QED
    BY <1>12, <2>3, <2>4, Zenon
<1> DEFINE new == {Slot(I.d - n, "set")}
<1>15. \A z \in new : z.d = I.d - n /\ z.is = "set"
  BY DEF Slot
<1> HIDE DEF new
<1>16. ASSUME NEW k, Changes(H, c.st, stack', n + 1, k), Goes(code, I, c.pc + 1, n + 1, k, new),
              stack'[Len(st0) + 1] = it
       PROVE  Works'
  <2>1. \A z \in new : Keeps(stack'[Base(c.fr) + z.d], z.is)
    <3>1. Keeps(it, "set")
      BY <1>20, Zenon DEF Keeps
    <3> QED
      BY <1>14, <1>15, <1>16, <3>1, Zenon
  <2>2. Passes(module, H, c.fr, c.st, InstrAt(module, c.fr, c.pc), c.pc + 1, n + 1, k, new, stack')
    BY <1>8, <1>16, <2>1, Zenon DEF Passes, I, code
  <2>3. Executes(module, H, c.up, config, stack', c.fr, c.pc + 1, c.go) /\ c.pc + 1 \in Nat
    <3> DEFINE q == c.pc + 1
               l == n + 1
    <3>1. Passes(module, H, c.fr, c.st, InstrAt(module, c.fr, c.pc), q, l, k, new, stack')
      BY <2>2
    <3>2. G \subseteq H
      BY <1>6
    <3> HIDE DEF q, l
    <3>3. Executes(module, H, c.up, config, stack', c.fr, q, c.go) /\ q \in Nat
      BY <1>4, <3>1, <3>2, Steps, Zenon
    <3> QED
      BY <3>3 DEF q
  <2>4. Executes(module, H, c.up, config', stack', frame', pc', go') /\ pc' \in Nat /\ mode' = "run" /\ module' = module
    <3>1. frame' = c.fr /\ mode = "run"
      BY Zenon DEF GivesBack
    <3> QED
      BY <1>9, <2>3, <3>1, Zenon
  <2> QED
    BY <1>6, <2>4, Runs, Zenon
<1>17. CASE I.op = "SetUpIterator"
  <2>1. Goes(code, I, c.pc + 1, n + 1, 1, new)
    <3>1. I.op # "NextIterator"
      BY <1>17
    <3> QED
      BY <1>3, <3>1, Zenon DEF Runner, new
  <2>2. stack' = st1
    BY <1>3, <1>9, <1>17, Zenon
  <2>3. Changes(H, c.st, stack', n + 1, 1) /\ stack'[Len(st0) + 1] = it
    BY <1>12, <1>13, <2>2, Zenon
  <2> QED
    BY <1>16, <2>1, <2>3, Zenon
<1>18. CASE I.op # "SetUpIterator"
  <2>1. Goes(code, I, c.pc + 1, n + 1, 2, new)
    BY <1>3, <1>18, Zenon DEF Runner, new
  <2>2. stack' = Append(st1, y)
    BY <1>3, <1>9, <1>18, Zenon
  <2>3. Changes(H, c.st, Append(st1, y), n + 1, 2)
    <3>1. Changes(H, c.st, Append(st1, y), n + 1, 1 + 1)
      BY <1>7, <1>13, AppendChange, Zenon
    <3>2. 1 + 1 = 2
      OBVIOUS
    <3> QED
      BY <3>1, <3>2, Zenon
  <2>4. \A i \in 1 .. Len(st1) : Append(st1, y)[i] = st1[i]
    <3>1. st1 \in Seq(H)
      BY <1>12
    <3> QED
      BY <1>7, <3>1, AppendFacts, Zenon
  <2>5. Append(st1, y)[Len(st0) + 1] = it
    BY <1>12, <1>14, <2>4, Zenon
  <2>6. Changes(H, c.st, stack', n + 1, 2) /\ stack'[Len(st0) + 1] = it
    BY <2>2, <2>3, <2>5, Zenon
  <2> QED
    BY <1>16, <2>1, <2>6, Zenon
<1> QED
  BY <1>17, <1>18

(* What runSIter notes in an iterator.                                     *)
Kept(x, p, n, s, f) == [x EXCEPT !.pc = p, !.next = n, !.stack = s, !.fr = f]
Noted(m, G, x, p, n, s, f, y) ==
  /\ y \in [k : {"iter"}, prog : ProgramNames(m), pc : Nat, next : BOOLEAN, stack : Seq(G), fr : FrameRecords(m)]
  /\ y.k = "iter" /\ y.prog = x.prog /\ y.pc = p /\ y.next = n /\ y.stack = s /\ y.fr = f

LEMMA KeptFacts ==
  ASSUME NEW m, NEW G, NEW x, Sound(m, G, x), NEW p \in Nat, NEW n \in BOOLEAN, NEW s \in Seq(G),
         NEW f \in FrameRecords(m)
  PROVE  /\ Noted(m, G, x, p, n, s, f, Kept(x, p, n, s, f))
         /\ [x EXCEPT !.pc = p, !.next = n, !.stack = s] = Kept(x, p, n, s, x.fr)
<1> DEFINE P == ProgramNames(m)
           F == FrameRecords(m)
           S == Seq(G)
           y == Kept(x, p, n, s, f)
<1>1. x \in [k : {"iter"}, prog : P, pc : Nat, next : BOOLEAN, stack : S, fr : F]
  BY Zenon DEF Sound
<1>2. p \in Nat /\ n \in BOOLEAN /\ s \in S /\ f \in F
  OBVIOUS
<1> HIDE DEF P, F, S
<1>3. /\ y \in [k : {"iter"}, prog : P, pc : Nat, next : BOOLEAN, stack : S, fr : F]
      /\ y.k = "iter" /\ y.prog = x.prog /\ y.pc = p /\ y.next = n /\ y.stack = s /\ y.fr = f
  BY <1>1, <1>2 DEF Kept
<1>4. [x EXCEPT !.pc = p, !.next = n, !.stack = s] = Kept(x, p, n, s, x.fr)
  BY <1>1, <1>2 DEF Kept
<1> HIDE DEF y
<1>5. Noted(m, G, x, p, n, s, f, y)
  BY <1>3, Zenon DEF Noted, P, F, S
<1> QED
  BY <1>4, <1>5 DEF y

(* With it, the iterator is still one that may be in a slot.               *)
LEMMA NotedSound ==
  ASSUME NEW m, NEW G, NEW x, Sound(m, G, x), NEW p, NEW n, NEW s, NEW f, NEW y,
         Noted(m, G, x, p, n, s, f, y), n => Suspended(m, y)
  PROVE  /\ Sound(m, G, y) /\ Fine(m, G \cup {y}, y)
         /\ y.k = "iter" /\ y.next \in BOOLEAN
<1>1. /\ x.prog # NoName => m[x.prog].kind = "iter"
  BY SoundFacts, Zenon
<1>2. Sound(m, G, y)
  BY <1>1, Zenon DEF Noted, Sound, NoName
<1>3. y.k = "iter" /\ y.next \in BOOLEAN
  BY <1>2, SoundFacts, Zenon
<1>4. G \subseteq G \cup {y} /\ y.k # "waiting"
  BY <1>3
<1>5. Sound(m, G \cup {y}, y)
  BY <1>2, <1>4, MoreSound, Zenon
<1> QED
  BY <1>2, <1>3, <1>4, <1>5, Zenon DEF Fine

(* The iterator that runs, as its caller left it in its slot.              *)
SitsIn(m, G, c, f, a) ==
  /\ a.at \in DOMAIN c.st /\ a.outer = c.st
  /\ Sound(m, G, a.outer[a.at]) /\ a.outer[a.at].prog = f.prog

LEMMA RunsIn ==
  ASSUME NEW m, NEW G, Closed(m, G), NEW c, NEW cf, Caller(G, c, cf), NEW f, NEW st, NEW gos,
         Iterating(m, c, f, st, gos)
  PROVE  SitsIn(m, G, c, f, Last(gos))
<1> DEFINE a == Last(gos)
           x == c.st[a.at]
<1>1. a.outer = c.st /\ Holder(m, c, a, f.prog)
  BY Zenon DEF Iterating
<1>2. a.at \in DOMAIN c.st /\ x.k = "iter" /\ x.prog = f.prog
  BY <1>1, Zenon DEF Holder
<1>3. c.st \in Seq(G)
  BY CallerAbove, Zenon
<1> HIDE DEF a
<1>4. x \in G
  BY <1>2, <1>3
<1>5. Sound(m, G, x)
  BY <1>2, <1>4, Zenon DEF Closed, Fine
<1> QED
  BY <1>1, <1>2, <1>5, Zenon DEF a, SitsIn

(* An iterator yields: it will go on behind the yield, on its stack.       *)
LEMMA YieldWorks ==
  ASSUME Works, Verified(module), Yield
  PROVE  Works'
<1>1. PICK G, u : Doing(G, u)
  BY Begins, Zenon DEF Yield, At
<1> DEFINE code == module[frame.prog].code
           st == Popped(1)
           x == Last(go).outer[Last(go).at]
           it == Kept(x, pc + 1, TRUE, st, frame)
<1>2. /\ module \in Modules /\ Verified(module) /\ mode = "run" /\ Closed(module, G)
      /\ Above(module, G, u, config, frame, stack, go) /\ ScriptFrame(module, frame)
      /\ Flows(module, frame.prog, code, Instr, pc) /\ Instr = code[pc + 1]
      /\ Instr = InstrAt(module, frame, pc)
  BY <1>1, Situation, Zenon DEF Doing, InstrAt
<1>3. /\ pc \in Nat /\ Instr.d \in Nat /\ frame \in FrameRecords(module) /\ stack \in Seq(G)
      /\ Base(frame) \in Nat /\ Len(stack) \in Nat /\ Len(stack) = Base(frame) + Instr.d
      /\ Stands(module, config, frame, stack, pc)
  BY <1>1, Situation, Zenon
<1>4. Instr.op = "Yield"
  BY DEF Yield, At
<1>5. /\ module[frame.prog].kind = "iter" /\ 1 <= Instr.d
      /\ Goes(code, Instr, pc + 1, 1, 0, {})
  BY <1>2, <1>4, Zenon DEF Flows, Leaves, Takes
<1>6. module["rule"].kind # "iter" /\ module[frame.prog].kind # "fn"
  <2>1. module["rule"].kind \notin {"fn", "iter"}
    BY <1>2, Zenon DEF Verified
  <2> QED
    BY <1>5, <2>1
<1>7. Caller(G, u, config) /\ Sits(frame, stack, u.fr) /\ Iterating(module, u, frame, stack, go)
  <2>1. ~OfRule(module, frame, stack, go)
    BY <1>5, <1>6, Zenon DEF OfRule
  <2>2. ~CalledScript(module, u, frame, stack, go) /\ ~CalledClosure(module, u, frame, stack, go)
    BY <1>6, Zenon DEF CalledScript, CalledClosure
  <2> QED
    BY <1>2, <2>1, <2>2, ScriptEntries, Zenon
<1>8. Alone(frame, stack) /\ IterFrame(module, frame, frame.prog) /\ Last(go).k = "siter"
  BY <1>7, Zenon DEF Iterating, Entered
<1>9. Changes(G, stack, st, 1, 0) /\ st \in Seq(G)
  <2>1. 1 \in Nat
    OBVIOUS
  <2> QED
    BY <1>1, <1>5, <2>1, PopsChange, Zenon
<1> HIDE DEF code, st
<1>10. Alone(frame, st) /\ Sits(frame, st, u.fr)
  <2>1. SameCall(frame, frame)
    BY <1>3, SameCalls
  <2>2. Base(frame) <= Len(stack) - 1
    BY <1>3, <1>5
  <2>3. Sits(frame, st, u.fr) /\ LeftAlone(frame, stack, frame, st)
    BY <1>3, <1>7, <1>9, <2>1, <2>2, SitsOn, Zenon
  <2> QED
    BY <1>8, <2>3, Zenon DEF LeftAlone
<1>11. HasPrev(st, frame) /\ Prev(stack, frame).fr = u.fr
  BY <1>3, <1>7, <1>9, <1>10, PrevHolds, Zenon
<1>12. frame' = u.fr /\ BackFrom(Last(go), it)
  <2>1. ~(Last(go).k # "siter" \/ ~HasPrev(Popped(1), frame))
    BY <1>8, <1>11, Zenon DEF st
  <2>2. frame' = Prev(stack, frame).fr /\ BackFrom(Last(go), it)
    BY <2>1, Zenon DEF Yield, Kept, st
  <2> QED
    BY <1>11, <2>2, Zenon
<1>13. Sound(module, G, x) /\ x.prog = frame.prog
  <2>1. Closed(module, G)
    BY <1>2
  <2>2. Caller(G, u, config) /\ Iterating(module, u, frame, stack, go)
    BY <1>7
  <2>3. SitsIn(module, G, u, frame, Last(go))
    BY <2>1, <2>2, RunsIn, Zenon
  <2> QED
    BY <2>3, Zenon DEF SitsIn
<1> HIDE DEF x
<1>14. Noted(module, G, x, pc + 1, TRUE, st, frame, it)
  <2>1. pc + 1 \in Nat /\ TRUE \in BOOLEAN
    BY <1>3
  <2> QED
    BY <1>3, <1>9, <1>13, <2>1, KeptFacts, Zenon
<1> HIDE DEF it
<1>15. /\ it.k = "iter" /\ it.prog = frame.prog /\ it.pc = pc + 1 /\ it.stack = st /\ it.fr = frame
  BY <1>13, <1>14, Zenon DEF Noted
<1>16. Stands(module, 0, frame, st, pc + 1)
  <2> DEFINE new == {}
             q == pc + 1
  <2>1. \A y \in new : Keeps(st[Base(frame) + y.d], y.is)
    OBVIOUS
  <2>2. Goes(module[frame.prog].code, InstrAt(module, frame, pc), q, 1, 0, new) /\ 1 <= InstrAt(module, frame, pc).d
    BY <1>2, <1>5, Zenon DEF code
  <2> HIDE DEF new, q
  <2>3. Stands(module, config, frame, st, q)
    BY <1>3, <1>9, <2>1, <2>2, Advance, Zenon
  <2>4. frame.prog # "rule"
    BY <1>5, <1>6, Zenon
  <2>5. Stands(module, 0, frame, st, q)
    BY <2>3, <2>4, Zenon DEF Stands, Fits
  <2> QED
    BY <2>5 DEF q
<1>17. Suspended(module, it)
  <2>1. pc + 1 > 0
    BY <1>3
  <2>2. Len(st) = Base(frame) + Instr.d - 1
    <3>1. Len(st) = Len(stack) - 1 + 0
      BY <1>9, Zenon DEF Changes
    <3> QED
      BY <1>3, <1>5, <3>1
  <2>3. it.pc > 0 /\ module[it.prog].code[it.pc].op = "Yield"
    BY <1>2, <1>4, <1>15, <2>1, Zenon DEF code
  <2>4. Len(it.stack) = Base(it.fr) + module[it.prog].code[it.pc].d - 1
    BY <1>2, <1>15, <2>2, Zenon DEF code
  <2>5. /\ IterFrame(module, it.fr, it.prog) /\ Stands(module, 0, it.fr, it.stack, it.pc)
        /\ Alone(it.fr, it.stack)
    BY <1>8, <1>10, <1>15, <1>16, Zenon
  <2> QED
    BY <2>3, <2>4, <2>5, Zenon DEF Suspended
<1>18. Fine(module, G \cup {it}, it) /\ it.k = "iter" /\ it.next \in BOOLEAN
  BY <1>13, <1>14, <1>17, NotedSound, Zenon
<1>19. GivesBack(G, u, it)
  BY <1>2, <1>7, <1>12, <1>18, Zenon DEF GivesBack
<1> QED
  BY <1>2, <1>19, BackWorks, Zenon

(* The rule ends: no closure or iterator has a Halt.                       *)
LEMMA HaltWorks ==
  ASSUME Works, Verified(module), Halt
  PROVE  Works'
<1>1. PICK G, u : Doing(G, u)
  BY Begins, Zenon DEF Halt, At
<1>2. /\ module \in Modules /\ Verified(module) /\ Closed(module, G)
      /\ Above(module, G, u, config, frame, stack, go) /\ ScriptFrame(module, frame)
      /\ Flows(module, frame.prog, module[frame.prog].code, Instr, pc)
      /\ pc \in Nat /\ stack \in Seq(G)
  BY <1>1, Situation, Zenon DEF Doing
<1>3. Instr.op = "Halt"
  BY DEF Halt, At
<1>4. frame.prog = "rule"
  BY <1>2, <1>3, Zenon DEF Flows, Leaves
<1>5. OfRule(module, frame, stack, go)
  BY <1>2, <1>4, Zenon DEF Above, Linked
<1>6. Last(go).k = "rule"
  <2>1. Last(<<[k |-> "rule"]>>).k = "rule"
    BY DEF Last
  <2> QED
    BY <1>5, <2>1, Zenon DEF OfRule
<1>7. stack' = stack /\ mode' = "done" /\ UNCHANGED <<module, pc>>
  BY <1>6 DEF Halt, Done
<1>8. Current(module', G, u, config', mode', stack', frame', pc', go') /\ Closed(module', G) /\ pc' \in Nat
  BY <1>2, <1>7, Zenon DEF Current
<1> QED
  BY <1>2, <1>7, <1>8, Zenon DEF Works, Machine

(* An iterator has no more values.                                         *)
Ends(G, c, st) ==
  /\ mode = "run" /\ Caller(G, c, config) /\ Iterating(module, c, frame, stack, go) /\ st \in Seq(G)
  /\ frame' = c.fr
  /\ BackFrom(Last(go), [Last(go).outer[Last(go).at] EXCEPT !.pc = 0, !.next = FALSE, !.stack = st])

LEMMA LoopEnds ==
  ASSUME module \in Modules, Verified(module), NEW G, Closed(module, G), NEW c, NEW st, Ends(G, c, st)
  PROVE  Works'
<1> DEFINE x == Last(go).outer[Last(go).at]
           f == x.fr
           it == Kept(x, 0, FALSE, st, f)
<1>1. Caller(G, c, config) /\ Iterating(module, c, frame, stack, go) /\ st \in Seq(G)
  BY Zenon DEF Ends
<1>2. Sound(module, G, x)
  <2>1. SitsIn(module, G, c, frame, Last(go))
    BY <1>1, RunsIn, Zenon
  <2> QED
    BY <2>1, Zenon DEF SitsIn
<1>3. BackFrom(Last(go), [x EXCEPT !.pc = 0, !.next = FALSE, !.stack = st])
  BY Zenon DEF Ends
<1> HIDE DEF x
<1>4. f \in FrameRecords(module)
  BY <1>2, SoundFacts, Zenon
<1>5. 0 \in Nat /\ FALSE \in BOOLEAN /\ ~FALSE
  OBVIOUS
<1>6. Noted(module, G, x, 0, FALSE, st, f, it)
  <2>1. st \in Seq(G)
    BY <1>1
  <2> HIDE DEF f
  <2> QED
    BY <1>2, <1>4, <1>5, <2>1, KeptFacts, Zenon
<1>7. BackFrom(Last(go), it)
  <2> DEFINE P == ProgramNames(module)
             F == FrameRecords(module)
             S == Seq(G)
  <2>1. x \in [k : {"iter"}, prog : P, pc : Nat, next : BOOLEAN, stack : S, fr : F]
    BY <1>2, Zenon DEF Sound
  <2> HIDE DEF P, F, S
  <2>2. [x EXCEPT !.pc = 0, !.next = FALSE, !.stack = st] = it
    BY <2>1 DEF Kept
  <2> QED
    BY <1>3, <2>2, Zenon
<1> HIDE DEF it
<1>8. Fine(module, G \cup {it}, it) /\ it.k = "iter" /\ it.next \in BOOLEAN
  BY <1>2, <1>5, <1>6, NotedSound, Zenon
<1>9. GivesBack(G, c, it)
  BY <1>7, <1>8, Zenon DEF Ends, GivesBack
<1> QED
  BY <1>9, BackWorks, Zenon

(* A rule, a callback or an iterator returns to the Go function that ran it.*)
LEMMA ReturnToGoWorks ==
  ASSUME Works, Verified(module), ReturnToGo
  PROVE  Works'
<1>1. PICK G, u : Doing(G, u)
  BY Begins, Zenon DEF ReturnToGo, At
<1>2. /\ module \in Modules /\ Verified(module) /\ mode = "run" /\ Closed(module, G)
      /\ Above(module, G, u, config, frame, stack, go) /\ ScriptFrame(module, frame) /\ stack \in Seq(G)
      /\ pc \in Nat
  BY <1>1, Situation, Zenon DEF Doing
<1>3. ASSUME NEW below, Sits(frame, stack, below)
      PROVE  /\ below.prog = NoName \/ frame.ftype = "siter"
             /\ Done(below, PopTo(frame.framep))
  <2>1. HasPrev(stack, frame) /\ Prev(stack, frame).fr = below
    BY <1>2, <1>3, PrevHolds, Zenon
  <2>2. /\ Prev(stack, frame).fr.prog = NoName \/ frame.ftype = "siter"
        /\ Done(Prev(stack, frame).fr, PopTo(frame.framep))
    BY <2>1, Zenon DEF ReturnToGo, NoName
  <2> QED
    BY <2>1, <2>2, Zenon
<1>4. frame.framep \in 0 .. Len(stack)
  <2>1. Base(frame) \in DOMAIN stack /\ frame \in FrameRecords(module)
    BY <1>2, NoFrames, Zenon DEF Above
  <2> QED
    BY <1>2, <2>1, FrameFacts
<1>5. PopTo(frame.framep) \in Seq(G)
  BY <1>2, <1>4, CutFacts DEF PopTo
<1>6. CASE OfRule(module, frame, stack, go)
  <2>1. Last(go).k = "rule" /\ Sits(frame, stack, TopFrame)
    <3>1. Last(<<[k |-> "rule"]>>).k = "rule"
      BY DEF Last
    <3> QED
      BY <1>6, <3>1, Zenon DEF OfRule
  <2>2. Done(TopFrame, PopTo(frame.framep))
    BY <1>3, <2>1, Zenon
  <2>3. stack' = PopTo(frame.framep) /\ mode' = "done" /\ UNCHANGED <<module, pc>>
    BY <2>1, <2>2 DEF Done
  <2>4. Current(module', G, u, config', mode', stack', frame', pc', go') /\ Closed(module', G) /\ pc' \in Nat
    BY <1>2, <1>5, <2>3, Zenon DEF Current
  <2> QED
    BY <1>2, <2>3, <2>4, Zenon DEF Works, Machine
<1>7. ASSUME Caller(G, u, config), Sits(frame, stack, u.fr), CalledScript(module, u, frame, stack, go)
      PROVE  FALSE
  <2>1. u.fr.prog # NoName
    BY <1>2, <1>7, ProgNamed, Zenon DEF CalledScript, FromScript, ScriptWaits
  <2>2. frame.ftype # "siter"
    BY <1>7 DEF CalledScript
  <2> QED
    BY <1>3, <1>7, <2>1, <2>2, Zenon
<1>8. ASSUME Caller(G, u, config), Sits(frame, stack, u.fr), CalledClosure(module, u, frame, stack, go)
      PROVE  Works'
  <2>1. /\ NativeWaits(u) /\ PopTo(frame.framep) = u.st
        /\ Front(go) = u.go /\ Last(go).k = "sfunc"
    BY <1>8, Zenon DEF CalledClosure, OnTop, PopTo, Entered
  <2>2. Done(u.fr, PopTo(frame.framep))
    BY <1>3, <1>8, Zenon
  <2>3. /\ frame' = u.fr /\ stack' = Append(PopTo(frame.framep), Val) /\ go' = Front(go)
        /\ UNCHANGED <<module, config, pc, mode>>
    BY <2>1, <2>2 DEF Done
  <2>4. frame' = u.fr /\ stack' = Append(u.st, Val) /\ go' = u.go /\ mode' = "run" /\ pc' \in Nat
    BY <1>2, <2>1, <2>3, Zenon
  <2> QED
    BY <1>2, <1>8, <2>1, <2>3, <2>4, NativeGoesOn, Zenon
<1>9. ASSUME Caller(G, u, config), Sits(frame, stack, u.fr), Iterating(module, u, frame, stack, go)
      PROVE  Works'
  <2> DEFINE st == PopTo(frame.framep)
             a == Last(go)
             it == [a.outer[a.at] EXCEPT !.pc = 0, !.next = FALSE, !.stack = st]
  <2>1. Done(u.fr, st)
    BY <1>3, <1>9, Zenon
  <2>2. a.k = "siter"
    BY <1>9, Zenon DEF Iterating, Entered
  <2>3. frame' = u.fr /\ BackFrom(a, it)
    BY <2>1, <2>2 DEF Done
  <2> HIDE DEF st
  <2>4. st \in Seq(G)
    BY <1>5 DEF st
  <2>5. Ends(G, u, st)
    BY <1>2, <1>9, <2>3, <2>4, Zenon DEF Ends
  <2> QED
    BY <1>2, <2>5, LoopEnds, Zenon
<1> QED
  BY <1>2, <1>6, <1>7, <1>8, <1>9, ScriptEntries, Zenon

-----------------------------------------------------------------------------
(* Exceptions.                                                             *)

Raising(G, u) ==
  /\ module \in Modules /\ Closed(module, G) /\ mode = "throw" /\ pc \in Nat
  /\ \/ Throws(module, G, u, config, stack, frame, go)
     \/ FailedNative(module, G, u, config, stack, frame, go)
     \/ NothingLeft(stack, frame, go)

LEMMA LooksForHandler ==
  ASSUME Works, mode = "throw"
  PROVE  \E G, u : Raising(G, u)
<1>0. mode # "panic"
  OBVIOUS
<1>1. PICK G, u : Closed(module, G) /\ pc \in Nat /\ Current(module, G, u, config, mode, stack, frame, pc, go)
  BY <1>0, Zenon DEF Works, Machine, Stopped
<1>2. mode # "run" /\ mode \notin {"done", "failed"}
  OBVIOUS
<1>3. Raising(G, u)
  BY <1>1, <1>2, Zenon DEF Works, Raising, Current
<1> QED
  BY <1>3

(* No frame is left: this was the rule.                                    *)
LEMMA NothingFacts ==
  ASSUME NothingLeft(stack, frame, go)
  PROVE  frame.ftype = "top" /\ Last(go).k = "rule"
<1>1. Last(<<[k |-> "rule"]>>).k = "rule"
  BY DEF Last
<1>2. TopFrame.ftype = "top"
  <2>1. TopFrame = [ftype |-> "top", farg |-> 0, framep |-> 0, prog |-> NoName, excep |-> <<>>,
                    clo |-> NoName]
    BY Zenon DEF TopFrame, NoName
  <2> QED
    BY <2>1
<1> QED
  BY <1>1, <1>2, Zenon DEF NothingLeft

(* A script that throws was entered in one of four ways.                   *)
LEMMA ThrowsFacts ==
  ASSUME NEW G, NEW u, Throws(module, G, u, config, stack, frame, go)
  PROVE  /\ Above(module, G, u, config, frame, stack, go) /\ ScriptFrame(module, frame)
         /\ Last(go).k # "native" /\ Catches(module, config, frame, stack)
         /\ frame \in FrameRecords(module) /\ stack \in Seq(G) /\ GoFunctions(module, G, go)
         /\ frame.ftype # "top"
<1>1. /\ Above(module, G, u, config, frame, stack, go) /\ ScriptFrame(module, frame)
      /\ Last(go).k # "native" /\ Catches(module, config, frame, stack)
  BY Zenon DEF Throws
<1>2. frame \in FrameRecords(module) /\ stack \in Seq(G) /\ GoFunctions(module, G, go)
  BY <1>1, Zenon DEF Above
<1>3. frame.ftype # "top"
  <2>1. frame.ftype \in ScriptTypes
    BY <1>1, Zenon DEF ScriptFrame
  <2> QED
    BY <2>1 DEF ScriptTypes
<1> QED
  BY <1>1, <1>2, <1>3

(* The innermost handler of the frame takes over.                          *)
LEMMA CatchWorks ==
  ASSUME Works, Verified(module), Catch
  PROVE  Works'
<1>1. mode = "throw" /\ frame.ftype # "top" /\ frame.excep # <<>>
  BY Zenon DEF Catch, Unwinding, HasHandler
<1>2. PICK G, u : Raising(G, u)
  BY <1>1, LooksForHandler, Zenon
<1>3. module \in Modules /\ Closed(module, G)
  BY <1>2, Zenon DEF Raising
<1>4. Throws(module, G, u, config, stack, frame, go)
  <2>1. ~FailedNative(module, G, u, config, stack, frame, go)
    BY <1>1, Zenon DEF FailedNative, NativeFrame
  <2>2. ~NothingLeft(stack, frame, go)
    BY <1>1, NothingFacts, Zenon
  <2> QED
    BY <1>2, <2>1, <2>2, Zenon DEF Raising
<1>5. /\ Above(module, G, u, config, frame, stack, go) /\ ScriptFrame(module, frame)
      /\ Last(go).k # "native" /\ Catches(module, config, frame, stack)
      /\ frame \in FrameRecords(module) /\ stack \in Seq(G)
  BY <1>4, ThrowsFacts, Zenon
<1> DEFINE x == Last(frame.excep)
           e == Front(frame.excep)
           g == [frame EXCEPT !.excep = e]
           n == Len(stack) - x.size
<1>6. x.size \in Base(frame) .. Len(stack) /\ Stands(module, config, g, SubSeq(stack, 1, x.size), x.pc)
  BY <1>1, <1>5, Zenon DEF Catches
<1>7. e \in Seq(Handler) /\ x \in Handler
  <2>1. frame.excep \in Seq(Handler)
    BY <1>5, FrameFacts
  <2> QED
    BY <1>1, <2>1, FrontFacts, Zenon
<1>8. Len(stack) \in Nat /\ x.size \in Nat /\ x.pc \in Nat /\ Base(frame) \in Nat
  <2>1. Base(frame) \in Nat
    BY <1>5, FrameFacts
  <2>2. x.size \in Nat /\ x.pc \in Nat
    <3> HIDE DEF x
    <3> QED
      BY <1>7 DEF Handler
  <2> QED
    BY <1>5, <2>1, <2>2
<1>9. /\ stack' = PopTo(x.size) /\ pc' = x.pc /\ frame' = g /\ mode' = "run"
      /\ UNCHANGED <<module, config, go>>
  <2>1. ~(Len(stack) < x.size)
    <3> HIDE DEF x
    <3> QED
      BY <1>6, <1>8
  <2> QED
    BY <2>1, Zenon DEF Catch
<1>10. g \in FrameRecords(module) /\ SameCall(frame, g) /\ ScriptFrame(module, g)
  <2>1. g \in FrameRecords(module) /\ (ScriptFrame(module, frame) => ScriptFrame(module, g))
    <3> HIDE DEF e
    <3> QED
      BY <1>5, <1>7, OtherHandlers
  <2>2. SameCall(frame, g)
    <3> HIDE DEF e
    <3> QED
      BY <1>5, <1>7, SameCalls, Zenon
  <2> QED
    BY <1>5, <2>1, <2>2
<1> HIDE DEF g, e
<1>11. n \in Nat /\ n <= Len(stack) /\ Len(stack) - n = x.size /\ Base(frame) <= Len(stack) - n
  <2> HIDE DEF x
  <2> QED
    BY <1>6, <1>8
<1>12. Changes(G, stack, PopTo(x.size), n, 0)
  <2> DEFINE k == n
  <2> HIDE DEF k, x
  <2>1. Changes(G, stack, SubSeq(stack, 1, Len(stack) - k), k, 0)
    BY <1>5, <1>11, CutChange, Zenon DEF k
  <2> QED
    BY <1>11, <2>1, Zenon DEF PopTo, k
<1> HIDE DEF n
<1>13. Above(module, G, u, config, g, PopTo(x.size), go)
  <2>1. G \subseteq G
    OBVIOUS
  <2>2. Base(frame) <= Len(stack) - n
    BY <1>11
  <2>3. Above(module, G, u, config, frame, stack, go)
    BY <1>5
  <2>4. g \in FrameRecords(module) /\ SameCall(frame, g)
    BY <1>10
  <2> DEFINE su == PopTo(x.size)
             k == 0
  <2>5. Changes(G, stack, su, n, k)
    BY <1>12
  <2> HIDE DEF su, k
  <2>6. Above(module, G, u, config, g, su, go)
    BY <2>1, <2>2, <2>3, <2>4, <2>5, Onward, Zenon
  <2> QED
    BY <2>6 DEF su
<1>14. Executes(module, G, u, config, PopTo(x.size), g, x.pc, go)
  BY <1>5, <1>6, <1>10, <1>13, Zenon DEF Executes, PopTo
<1> HIDE DEF x
<1>15. Executes(module, G, u, config', stack', frame', pc', go') /\ pc' \in Nat /\ mode' = "run" /\ UNCHANGED module
  BY <1>8, <1>9, <1>14, Zenon
<1> QED
  BY <1>3, <1>15, Runs, Zenon

(* The exception goes on in the next frame.                                *)
LEMMA UnwindWorks ==
  ASSUME Works, Verified(module), Unwind
  PROVE  Works'
<1>1. mode = "throw" /\ frame.ftype # "top" /\ ~Breaks(Last(go))
  BY Zenon DEF Unwind, Unwinding
<1>2. PICK G, u : Raising(G, u)
  BY <1>1, LooksForHandler, Zenon
<1>3. module \in Modules /\ Closed(module, G) /\ pc \in Nat
  BY <1>2, Zenon DEF Raising
<1>4. stack \in Seq(G)
  <2>1. ~NothingLeft(stack, frame, go)
    BY <1>1, NothingFacts, Zenon
  <2> QED
    BY <1>2, <2>1, ThrowsFacts, Zenon DEF Raising, FailedNative
<1>5. ASSUME NEW below, Sits(frame, stack, below)
      PROVE  /\ frame' = below /\ stack' = PopTo(frame.framep)
             /\ UNCHANGED <<module, config, pc, go, mode>>
  <2>1. HasPrev(stack, frame) /\ Prev(stack, frame).fr = below
    BY <1>4, <1>5, PrevHolds, Zenon
  <2>2. /\ frame' = Prev(stack, frame).fr /\ stack' = PopTo(frame.framep)
        /\ UNCHANGED <<module, config, pc, go, mode>>
    BY <2>1, Zenon DEF Unwind
  <2> QED
    BY <2>1, <2>2, Zenon
<1>6. ASSUME Caller(G, u, config), Sits(frame, stack, u.fr), ScriptWaits(module, u),
             OnTop(u, frame, stack), go = u.go
      PROVE  Works'
  <2>1. PopTo(frame.framep) = u.st
    BY <1>6, Zenon DEF OnTop, PopTo
  <2>2. /\ frame' = u.fr /\ stack' = PopTo(frame.framep)
        /\ UNCHANGED <<module, config, pc, go, mode>>
    BY <1>5, <1>6, Zenon
  <2>3. stack' = u.st /\ go' = u.go /\ mode' = "throw" /\ pc' \in Nat
    BY <1>1, <1>3, <1>6, <2>1, <2>2, Zenon
  <2> QED
    BY <1>3, <1>6, <2>2, <2>3, ScriptThrows, Zenon
<1>7. CASE FailedNative(module, G, u, config, stack, frame, go)
  BY <1>6, <1>7, Zenon DEF FailedNative, FromScript
<1>8. CASE Throws(module, G, u, config, stack, frame, go)
  <2>1. Above(module, G, u, config, frame, stack, go) /\ ScriptFrame(module, frame)
    BY <1>8, ThrowsFacts, Zenon
  <2>2. CASE OfRule(module, frame, stack, go)
    <3>1. frame' = TopFrame /\ stack' = PopTo(0) /\ UNCHANGED <<module, pc, mode>> /\ go' = <<[k |-> "rule"]>>
      BY <1>5, <2>2, Zenon DEF OfRule
    <3>2. PopTo(0) = <<>>
      BY <1>4 DEF PopTo
    <3>3. NothingLeft(stack', frame', go') /\ mode' = "throw" /\ pc' \in Nat /\ Closed(module', G) /\ module' \in Modules
      BY <1>1, <1>3, <3>1, <3>2, Zenon DEF NothingLeft
    <3> QED
      BY <3>3, Zenon DEF Works, Machine, Current
  <2>3. ASSUME Caller(G, u, config), Sits(frame, stack, u.fr), CalledScript(module, u, frame, stack, go)
        PROVE  Works'
    BY <1>6, <2>3, Zenon DEF CalledScript, FromScript
  <2>4. ~CalledClosure(module, u, frame, stack, go)
    <3>1. SUFFICES ASSUME CalledClosure(module, u, frame, stack, go) PROVE FALSE
      OBVIOUS
    <3>2. Last(go).k = "sfunc" /\ frame.clo = Last(go).clo
      BY <3>1, Zenon DEF CalledClosure, Entered
    <3> QED
      BY <1>1, <3>2 DEF Breaks
  <2>5. ~Iterating(module, u, frame, stack, go)
    <3>1. SUFFICES ASSUME Iterating(module, u, frame, stack, go) PROVE FALSE
      OBVIOUS
    <3>2. Last(go).k = "siter" /\ frame.ftype = "siter"
      BY <3>1, Zenon DEF Iterating, Entered, IterFrame
    <3> QED
      BY <1>1, <3>2 DEF Breaks
  <2> QED
    BY <2>1, <2>2, <2>3, <2>4, <2>5, ScriptEntries, Zenon
<1>9. ~NothingLeft(stack, frame, go)
  BY <1>1, NothingFacts, Zenon
<1> QED
  BY <1>2, <1>7, <1>8, <1>9, Zenon DEF Raising

(* runRule returns the error.                                              *)
LEMMA RuleFailsWorks ==
  ASSUME Works, Verified(module), RuleFails
  PROVE  Works'
<1>1. mode = "throw" /\ mode' = "failed" /\ UNCHANGED <<module, config, stack, frame, pc, go>>
  BY Zenon DEF RuleFails
<1>2. PICK G, u : Raising(G, u)
  BY <1>1, LooksForHandler, Zenon
<1>3. stack \in Seq(G)
  BY <1>2, ThrowsFacts, NoCells, Zenon DEF Raising, FailedNative, NothingLeft
<1>4. Closed(module', G) /\ pc' \in Nat /\ stack' \in Seq(G) /\ module' \in Modules
  BY <1>1, <1>2, <1>3, Zenon DEF Raising
<1> QED
  BY <1>1, <1>4, Zenon DEF Works, Machine, Current

(* runSFunc returns it to the native function, in whose frame it runs.     *)
LEMMA CallbackFailsWorks ==
  ASSUME Works, Verified(module), CallbackFails
  PROVE  Works'
<1>1. mode = "throw" /\ Last(go).k = "sfunc" /\ (frame.ftype = "top" \/ frame.clo = Last(go).clo)
  <2>1. mode = "throw" /\ Last(go).k = "sfunc" /\ (frame.ftype = "top" \/ Breaks(Last(go)))
    BY Zenon DEF CallbackFails
  <2> QED
    BY <2>1 DEF Breaks
<1>2. PICK G, u : Raising(G, u)
  BY <1>1, LooksForHandler, Zenon
<1>3. module \in Modules /\ Closed(module, G) /\ pc \in Nat
  BY <1>2, Zenon DEF Raising
<1>4. ~NothingLeft(stack, frame, go)
  <2>1. Last(go).k # "rule"
    BY <1>1
  <2> QED
    BY <2>1, NothingFacts, Zenon
<1>5. ~FailedNative(module, G, u, config, stack, frame, go)
  <2>1. SUFFICES ASSUME FailedNative(module, G, u, config, stack, frame, go) PROVE FALSE
    OBVIOUS
  <2>2. Caller(G, u, config) /\ NativeFrame(frame) /\ go = u.go
    BY <2>1, Zenon DEF FailedNative
  <2>3. GoFunctions(module, G, go)
    <3>1. GoFunctions(module, G, u.go)
      BY <1>3, <2>2, CallerAbove, Zenon
    <3> QED
      BY <2>2, <3>1, Zenon
  <2>4. Last(go).clo # NoName
    BY <1>1, <2>3, CalledBackFacts, Zenon DEF GoFunctions
  <2>5. frame.ftype # "top"
    <3>1. frame.ftype \in NativeTypes
      BY <2>2, Zenon DEF NativeFrame
    <3> QED
      BY <3>1 DEF NativeTypes
  <2> QED
    BY <1>1, <2>2, <2>4, <2>5, Zenon DEF NativeFrame, NoName
<1>6. Throws(module, G, u, config, stack, frame, go)
  BY <1>2, <1>4, <1>5, Zenon DEF Raising
<1>7. /\ Above(module, G, u, config, frame, stack, go) /\ ScriptFrame(module, frame)
      /\ stack \in Seq(G) /\ GoFunctions(module, G, go) /\ frame.ftype # "top"
  BY <1>6, ThrowsFacts, Zenon
<1>8. frame.clo \in CalledBack(module)
  BY <1>1, <1>7, Zenon DEF GoFunctions
<1>9. ~OfRule(module, frame, stack, go)
  <2>1. Last(<<[k |-> "rule"]>>).k = "rule"
    BY DEF Last
  <2>2. Last(go).k # "rule"
    BY <1>1
  <2> QED
    BY <2>1, <2>2, Zenon DEF OfRule
<1>10. ~CalledScript(module, u, frame, stack, go)
  BY <1>8, Zenon DEF CalledScript
<1>11. ~Iterating(module, u, frame, stack, go)
  <2>1. Last(go).k # "siter"
    BY <1>1
  <2> QED
    BY <2>1, Zenon DEF Iterating, Entered
<1>12. Caller(G, u, config) /\ Sits(frame, stack, u.fr) /\ CalledClosure(module, u, frame, stack, go)
  BY <1>7, <1>9, <1>10, <1>11, ScriptEntries, Zenon
<1>13. NativeWaits(u) /\ PopTo(frame.framep) = u.st /\ Front(go) = u.go
  BY <1>12, Zenon DEF CalledClosure, OnTop, PopTo, Entered
<1>14. HasPrev(stack, frame) /\ Prev(stack, frame).fr = u.fr
  BY <1>7, <1>12, PrevHolds, Zenon
<1>15. /\ frame' = Prev(stack, frame).fr /\ stack' = PopTo(frame.framep) /\ go' = Front(go)
       /\ mode' = "run" /\ UNCHANGED <<module, config, pc>>
  BY <1>14, Zenon DEF CallbackFails
<1>16. frame' = u.fr /\ stack' = u.st /\ go' = u.go /\ mode' = "run" /\ pc' \in Nat
  BY <1>3, <1>13, <1>14, <1>15, Zenon
<1> QED
  BY <1>3, <1>12, <1>13, <1>15, <1>16, NativeGoesOn, Zenon

(* runSIter keeps the iterator as it was left, without a next value.       *)
LEMMA IteratorFailsWorks ==
  ASSUME Works, Verified(module), IteratorFails
  PROVE  Works'
<1>1. mode = "throw" /\ Last(go).k = "siter" /\ (frame.ftype = "top" \/ frame.ftype = "siter")
  <2>1. mode = "throw" /\ Last(go).k = "siter" /\ (frame.ftype = "top" \/ Breaks(Last(go)))
    BY Zenon DEF IteratorFails
  <2> QED
    BY <2>1 DEF Breaks
<1>2. PICK G, u : Raising(G, u)
  BY <1>1, LooksForHandler, Zenon
<1>3. module \in Modules /\ Closed(module, G) /\ pc \in Nat
  BY <1>2, Zenon DEF Raising
<1>4. ~NothingLeft(stack, frame, go)
  <2>1. Last(go).k # "rule"
    BY <1>1
  <2> QED
    BY <2>1, NothingFacts, Zenon
<1>5. ~FailedNative(module, G, u, config, stack, frame, go)
  <2>1. frame.ftype \notin NativeTypes
    BY <1>1 DEF NativeTypes
  <2> QED
    BY <2>1, Zenon DEF FailedNative, NativeFrame
<1>6. Throws(module, G, u, config, stack, frame, go)
  BY <1>2, <1>4, <1>5, Zenon DEF Raising
<1>7. /\ Above(module, G, u, config, frame, stack, go) /\ ScriptFrame(module, frame)
      /\ stack \in Seq(G) /\ frame \in FrameRecords(module) /\ frame.ftype = "siter"
  BY <1>1, <1>6, ThrowsFacts, Zenon
<1>8. Caller(G, u, config) /\ Sits(frame, stack, u.fr) /\ Iterating(module, u, frame, stack, go)
  <2>1. ~OfRule(module, frame, stack, go)
    <3>1. frame.ftype # "rule"
      BY <1>7
    <3> QED
      BY <3>1, Zenon DEF OfRule
  <2>2. ~CalledScript(module, u, frame, stack, go)
    <3>1. frame.ftype \notin {"script", "sfunc"}
      BY <1>7
    <3> QED
      BY <3>1, Zenon DEF CalledScript
  <2>3. ~CalledClosure(module, u, frame, stack, go)
    <3>1. frame.ftype # "sfunc"
      BY <1>7
    <3> QED
      BY <3>1, Zenon DEF CalledClosure
  <2> QED
    BY <1>7, <2>1, <2>2, <2>3, ScriptEntries, Zenon
<1> DEFINE a == Last(go)
           l == a.at
           x == u.st[l]
           y == Kept(x, pc, FALSE, stack, frame)
           t == Put(u.st, l, y)
           I == InstrAt(module, u.fr, u.pc)
           H == G \cup {y}
<1>9. /\ LoopWaits(module, u) /\ Front(go) = u.go /\ a.outer = u.st /\ a.pc = u.pc
      /\ Holder(module, u, a, frame.prog)
  BY <1>8, Zenon DEF Iterating, Entered
<1>10. l \in DOMAIN u.st /\ Sound(module, G, x)
  <2>1. Caller(G, u, config) /\ Iterating(module, u, frame, stack, go)
    BY <1>8
  <2>2. SitsIn(module, G, u, frame, Last(go))
    BY <1>3, <2>1, RunsIn, Zenon
  <2> QED
    BY <2>2, Zenon DEF SitsIn
<1>11. /\ Above(module, G, u.up, config, u.fr, u.st, u.go) /\ u.st \in Seq(G) /\ u.cf = config
       /\ u.fr \in FrameRecords(module)
  BY <1>3, <1>8, CallerAbove, Zenon
<1>12. /\ frame' = u.fr /\ stack' = t /\ pc' = u.pc /\ go' = u.go
       /\ UNCHANGED <<module, config, mode>>
  <2>1. HasPrev(stack, frame) /\ Prev(stack, frame).fr = u.fr
    BY <1>7, <1>8, PrevHolds, Zenon
  <2>2. /\ frame' = Prev(stack, frame).fr
        /\ stack' = [a.outer EXCEPT ![a.at].next = FALSE, ![a.at].pc = pc, ![a.at].stack = stack,
                                    ![a.at].fr = frame]
        /\ pc' = a.pc /\ go' = Front(go) /\ UNCHANGED <<module, config, mode>>
    BY <2>1, Zenon DEF IteratorFails
  <2>3. [u.st EXCEPT ![l].next = FALSE, ![l].pc = pc, ![l].stack = stack, ![l].fr = frame] = t
    <3> DEFINE P == ProgramNames(module)
               F == FrameRecords(module)
               S == Seq(G)
    <3>1. x \in [k : {"iter"}, prog : P, pc : Nat, next : BOOLEAN, stack : S, fr : F]
      BY <1>10, Zenon DEF Sound
    <3>2. l \in DOMAIN u.st /\ u.st \in S
      BY <1>10, <1>11
    <3> HIDE DEF P, F, S, l
    <3> QED
      BY <3>1, <3>2 DEF Put, Kept
  <2> QED
    BY <1>9, <2>1, <2>2, <2>3, Zenon
<1> HIDE DEF x
<1>13. Fine(module, G \cup {y}, y) /\ y.k = "iter"
  <2>1. FALSE \in BOOLEAN /\ ~FALSE
    OBVIOUS
  <2>2. stack \in Seq(G) /\ frame \in FrameRecords(module)
    BY <1>7
  <2>3. Noted(module, G, x, pc, FALSE, stack, frame, y)
    BY <1>3, <1>10, <2>1, <2>2, KeptFacts, Zenon
  <2> HIDE DEF y
  <2> QED
    BY <1>10, <2>1, <2>3, NotedSound, Zenon
<1> HIDE DEF y
<1>14. Closed(module, H) /\ G \subseteq H /\ y \in H
  BY <1>3, <1>13, OneMore, Zenon
<1> HIDE DEF H
<1>15. u.st \in Seq(H)
  BY <1>11, <1>14, MoreCells
<1>16. ButFor(H, u.st, l, y, t)
  <2> HIDE DEF l
  <2> QED
    BY <1>10, <1>14, <1>15, PutFacts, Zenon
<1> HIDE DEF t
<1>17. PICK n : Runner(I, n, module[u.fr.prog].code, u.pc) /\ l = Len(u.st) - n
  BY <1>3, <1>9, <1>11, HolderFacts, Zenon
<1>18. n \in Nat /\ Takes(I, n + 1)
  BY <1>17, Zenon DEF Runner
<1>19. /\ n + 1 <= I.d /\ I.d \in Nat /\ Len(u.st) = Base(u.fr) + I.d /\ Base(u.fr) \in Nat
       /\ Stands(module, config, u.fr, u.st, u.pc) /\ u.pc \in Nat
  <2>1. Stands(module, config, u.fr, u.st, u.pc)
    BY <1>9, <1>11, Zenon DEF LoopWaits
  <2>2. Typed(I) /\ Fits(module, config, u.fr, u.st, I) /\ u.pc \in Nat
    BY <2>1, CodeFacts, Zenon
  <2>3. Base(u.fr) \in Nat
    BY <1>11, FrameFacts
  <2> QED
    BY <1>18, <2>1, <2>2, <2>3, Zenon DEF Typed, Fits, Takes
<1> HIDE DEF I
<1> DEFINE k == n + 1
<1>20. /\ k \in Nat /\ k <= Len(u.st) /\ Base(u.fr) <= Len(u.st) - k
       /\ l = (Len(u.st) - k) + 1 /\ Len(u.st) \in Nat
  <2> DEFINE b == Base(u.fr)
             c == Len(u.st)
             d == I.d
  <2>1. l = c - n /\ n \in Nat /\ n + 1 <= d /\ d \in Nat /\ c = b + d /\ b \in Nat
    BY <1>17, <1>18, <1>19
  <2> HIDE DEF l, b, c, d
  <2>2. n + 1 \in Nat /\ n + 1 <= c /\ b <= c - (n + 1) /\ l = (c - (n + 1)) + 1 /\ c \in Nat
    BY <2>1
  <2> QED
    BY <2>2 DEF b, c
<1> HIDE DEF k, l
<1>21. /\ t \in Seq(H) /\ Len(t) = Len(u.st) /\ DOMAIN t = 1 .. Len(u.st)
       /\ t[l] = y /\ \A j \in 1 .. Len(u.st) : j # l => t[j] = u.st[j]
  <2>1. DOMAIN u.st = 1 .. Len(u.st)
    BY <1>11
  <2> QED
    BY <1>16, <2>1, Zenon DEF ButFor
<1>22. \A i \in 1 .. Len(u.st) - k : t[i] = u.st[i]
  <2>1. \A i \in 1 .. Len(u.st) - k : i \in 1 .. Len(u.st) /\ i # l
    BY <1>20
  <2> QED
    BY <1>21, <2>1, Zenon
<1>23. Changes(H, u.st, t, k, k)
  <2>1. Len(t) = Len(u.st) - k + k
    BY <1>20, <1>21
  <2>2. \A i \in Len(u.st) - k + 1 .. Len(t) : i \in 1 .. Len(u.st) /\ i > Base(u.fr)
    BY <1>19, <1>20, <1>21
  <2>3. \A i \in 1 .. Len(u.st) : i > Base(u.fr) => u.st[i].k # "frame"
    <3>1. Above(module, G, u.up, config, u.fr, u.st, u.go)
      BY <1>11
    <3>2. \A i \in DOMAIN u.st : i > Base(u.fr) => u.st[i].k # "frame"
      BY <3>1, NoFrames
    <3>3. DOMAIN u.st = 1 .. Len(u.st)
      BY <1>11
    <3> QED
      BY <3>2, <3>3, Zenon
  <2>4. y.k # "frame"
    BY <1>13
  <2>5. \A i \in Len(u.st) - k + 1 .. Len(t) : t[i].k # "frame"
    BY <1>21, <2>2, <2>3, <2>4, Zenon
  <2> QED
    BY <1>20, <1>21, <1>22, <2>1, <2>5, Zenon DEF Changes
<1>24. Above(module, H, u.up, config, u.fr, t, u.go)
  <2>1. SameCall(u.fr, u.fr)
    BY <1>11, SameCalls, Zenon
  <2>2. Base(u.fr) <= Len(u.st) - k
    BY <1>20
  <2>3. Above(module, G, u.up, config, u.fr, u.st, u.go) /\ u.fr \in FrameRecords(module)
    BY <1>11
  <2> QED
    BY <1>14, <1>23, <2>1, <2>2, <2>3, Onward, Zenon
<1>25. Catches(module, config, u.fr, t)
  <2>1. Len(u.st) - k <= Len(t) /\ k \in Nat
    BY <1>20, <1>21
  <2>2. Takes(InstrAt(module, u.fr, u.pc), k)
    BY <1>18, Zenon DEF I, k
  <2>3. u.fr \in FrameRecords(module) /\ t \in Seq(H) /\ Stands(module, config, u.fr, u.st, u.pc)
    BY <1>11, <1>19, <1>21
  <2> QED
    BY <1>15, <1>22, <2>1, <2>2, <2>3, Landing, Zenon
<1>26. Throws(module, H, u.up, config, t, u.fr, u.go)
  BY <1>9, <1>24, <1>25, Zenon DEF Throws, LoopWaits
<1>27. /\ Throws(module, H, u.up, config', stack', frame', go') /\ pc' \in Nat /\ mode' = "throw"
       /\ module' = module
  BY <1>1, <1>12, <1>19, <1>26, Zenon
<1> QED
  BY <1>3, <1>14, <1>27, Zenon DEF Works, Machine, Current

-----------------------------------------------------------------------------
(* The invariant.                                                          *)

(* A rule starts.                                                          *)
LEMMA InitWorks ==
  ASSUME \A m \in Modules : Verified(m), Init
  PROVE  Works
<1> DEFINE x == Frame(TopFrame, 1)
           act == [k |-> "rule"]
           G == {Val, Flag(TRUE), Flag(FALSE), x, act}
           f == frame
<1>1. /\ module \in Modules /\ stack = <<Val, Val, x>> /\ pc = 0 /\ go = <<act>> /\ config = 0
      /\ mode = "run"
      /\ f = [ftype |-> "rule", farg |-> 1, framep |-> 0, prog |-> "rule", excep |-> <<>>, clo |-> NoName]
  BY Zenon DEF Init, NoName
<1>2. Verified(module) /\ "rule" \in DOMAIN module
  BY <1>1, ModulesAssumption, Zenon
<1>3. x.k = "frame" /\ x.fr = TopFrame
  BY SavedFrame
<1>4. /\ Val.k = "val" /\ Flag(TRUE).k = "flag" /\ Flag(FALSE).k = "flag" /\ act.k = "rule"
      /\ Last(<<act>>).k = "rule"
  BY DEF Val, Flag, Last
<1> HIDE DEF x, act
<1>5. Closed(module, G)
  <2>1. \A y \in G : y.k # "iter" /\ y.k # "waiting"
    BY <1>3, <1>4
  <2>2. Val \in G /\ Flag(TRUE) \in G /\ Flag(FALSE) \in G
    OBVIOUS
  <2> HIDE DEF G
  <2> QED
    BY <2>1, <2>2, Zenon DEF Closed, Fine
<1>6. /\ f.ftype = "rule" /\ f.farg = 1 /\ f.framep = 0 /\ f.prog = "rule" /\ f.excep = <<>>
      /\ f.clo = NoName
  BY <1>1
<1>7. f \in FrameRecords(module)
  <2> DEFINE P == ProgramNames(module)
             T == NativeTypes \cup ScriptTypes \cup {"top"}
             E == Seq(Handler)
  <2>1. "rule" \in P /\ NoName \in P
    BY <1>2, TopFrameFacts, Zenon DEF ProgramNames
  <2>2. "rule" \in T
    BY DEF ScriptTypes
  <2>3. <<>> \in E
    BY NoCells
  <2> HIDE DEF P, T, E
  <2>4. f \in [ftype : T, farg : Nat, framep : Nat, prog : P, excep : E, clo : P]
    BY <1>1, <2>1, <2>2, <2>3
  <2> QED
    BY <2>4, Zenon DEF FrameRecords, P, T, E
<1>8. Base(f) = 3 /\ PrevPos(f) = 3
  BY <1>6 DEF Base, PrevPos
<1>9. x \in G /\ act \in G /\ Val \in G
  OBVIOUS
<1> HIDE DEF f, G
<1>10. /\ stack \in Seq(G) /\ Len(stack) = 3 /\ DOMAIN stack = 1 .. 3 /\ stack[3] = x
       /\ stack[1] = Val /\ stack[2] = Val
  BY <1>1, <1>9
<1>11. \A i \in DOMAIN stack : stack[i].k = "frame" => i = 3
  <2>1. \A i \in 1 .. 3 : i = 1 \/ i = 2 \/ i = 3
    OBVIOUS
  <2>2. Val.k # "frame"
    BY <1>4
  <2> QED
    BY <1>10, <2>1, <2>2, Zenon
<1>12. Sits(f, stack, TopFrame)
  <2>1. \A i \in f.framep + 1 .. Len(stack) : i \in DOMAIN stack
    BY <1>6, <1>10
  <2>2. 3 \in DOMAIN stack
    BY <1>10
  <2> QED
    BY <1>3, <1>8, <1>10, <1>11, <2>1, <2>2, Zenon DEF Sits
<1>13. ScriptFrame(module, f)
  <2>1. "rule" \in ScriptTypes
    BY DEF ScriptTypes
  <2> QED
    BY <1>2, <1>6, <2>1, Zenon DEF ScriptFrame, Verified
<1>14. OfRule(module, f, stack, go)
  BY <1>1, <1>6, <1>12, <1>13, Zenon DEF OfRule, act, NoName
<1>15. GoFunctions(module, G, go)
  <2>1. <<act>> \in Seq(G) /\ <<act>> # <<>>
    BY <1>9
  <2>2. /\ Last(<<act>>).k \in {"rule", "native", "sfunc", "siter"}
        /\ Last(<<act>>).k # "sfunc" /\ Last(<<act>>).k # "native"
    BY <1>4
  <2> DEFINE g == <<act>>
  <2> HIDE DEF g
  <2>3. GoFunctions(module, G, g)
    BY <2>1, <2>2, Zenon DEF GoFunctions, g
  <2> QED
    BY <1>1, <2>3, Zenon DEF g
<1>16. Matched(go, stack, f)
  <2>1. Running(go) = {}
    <3>1. DOMAIN go = {1} /\ go[1] = act
      BY <1>1
    <3>2. act.k # "native"
      BY <1>4
    <3>3. \A i \in DOMAIN go : go[i].k # "native"
      BY <3>1, <3>2
    <3> QED
      BY <3>3, Zenon DEF Running
  <2>2. Saved(stack) = {}
    <3>1. TopFrame.ftype \notin NativeTypes
      <4>1. TopFrame.ftype = "top"
        BY <1>2, ProgNamed
      <4> QED
        BY <4>1 DEF NativeTypes
    <3> QED
      BY <1>3, <1>10, <1>11, <3>1, Zenon DEF Saved
  <2>3. f.ftype \notin NativeTypes
    BY <1>13, TypesDiffer, Zenon DEF ScriptFrame
  <2>4. Cardinality({}) = Cardinality({}) + 0
    BY FS_EmptySet
  <2> QED
    BY <2>1, <2>2, <2>3, <2>4, Zenon DEF Matched
<1>17. Above(module, G, Nobody, config, f, stack, go)
  BY <1>7, <1>10, <1>14, <1>15, <1>16, Zenon DEF Above
<1>18. Stands(module, config, f, stack, pc)
  <2>1. f.prog \in DOMAIN module /\ Len(stack) = Base(f) /\ Base(f) \in Nat
    BY <1>2, <1>6, <1>8, <1>10
  <2>2. Stands(module, 0, f, stack, 0)
    BY <1>2, <1>6, <2>1, FirstInstr, Zenon
  <2> QED
    BY <1>1, <2>2, Zenon
<1>19. Last(go).k # "native"
  BY <1>1, <1>4
<1>20. Executes(module, G, Nobody, config, stack, f, pc, go) /\ pc \in Nat
  <2>1. pc \in Nat
    BY <1>1
  <2> QED
    BY <1>13, <1>17, <1>18, <1>19, <2>1, Zenon DEF Executes
<1> QED
  BY <1>1, <1>5, <1>20, Zenon DEF Works, Machine, Current, f

(* Every step keeps it.                                                    *)
LEMMA StepWorks ==
  ASSUME \A m \in Modules : Verified(m), Works, [Next]_vars
  PROVE  Works'
<1>1. Verified(module)
  BY Zenon DEF Works
<1>2. CASE UNCHANGED vars
  <2>1. module' = module /\ stack' = stack /\ frame' = frame /\ pc' = pc /\ go' = go /\ config' = config /\ mode' = mode
    BY <1>2, Zenon DEF vars
  <2> QED
    BY <2>1, Zenon DEF Works, Stopped, OnlyKnownPanics, KnownFault, Instr, Program
<1>3. CASE Next
  <2>1. CASE DoPlain \/ Upvalue \/ DoJump
    BY <1>1, <2>1, DoPlainWorks, UpvalueWorks, DoJumpWorks, Zenon
  <2>12. CASE MapKeyFails \/ CaptureFails
    BY <1>1, <2>12, KnownFaultsPanic, Zenon
  <2>2. CASE InstrFails \/ LoadRefused \/ DerefFails
    BY <1>1, <2>2, InstrFailsWorks, Zenon
  <2>3. CASE ConfigPush \/ ConfigPop
    BY <1>1, <2>3, ConfigWorks, Zenon
  <2>4. CASE PushException \/ PopException
    BY <1>1, <2>4, TryWorks, Zenon
  <2>5. CASE CallScript \/ CallNative \/ NativeCalls \/ NativeCallsBound
    BY <1>1, <2>5, CallScriptWorks, CallNativeWorks, NativeCallsWorks, NativeCallsBoundWorks, Zenon
  <2>6. CASE NativeReturns \/ NativeFails
    BY <1>1, <2>6, NativeReturnsWorks, NativeFailsWorks, Zenon
  <2>7. CASE NewIterator \/ LoadIterator \/ HasIterator \/ HasCalledIterator
    BY <1>1, <2>7, NewIteratorWorks, LoadIteratorWorks, HasIteratorWorks, HasCalledIteratorWorks, Zenon
  <2>13. CASE DerefIterator \/ NextNative
    BY <1>1, <2>13, DerefIteratorWorks, NextNativeWorks, Zenon
  <2>8. CASE SetUpIterator \/ ResumeIterator \/ Yield
    BY <1>1, <2>8, SetUpIteratorWorks, ResumeIteratorWorks, YieldWorks, Zenon
  <2>9. CASE ReturnToScript \/ ReturnToGo \/ Halt
    BY <1>1, <2>9, ReturnToScriptWorks, ReturnToGoWorks, HaltWorks, Zenon
  <2>10. CASE Catch \/ Unwind \/ RuleFails
    BY <1>1, <2>10, CatchWorks, UnwindWorks, RuleFailsWorks, Zenon
  <2>11. CASE CallbackFails \/ IteratorFails
    BY <1>1, <2>11, CallbackFailsWorks, IteratorFailsWorks, Zenon
  <2> QED
    BY <1>3, <2>1, <2>2, <2>3, <2>4, <2>5, <2>6, <2>7, <2>8, <2>9, <2>10, <2>11, <2>12, <2>13,
       Zenon DEF Next
<1> QED
  BY <1>2, <1>3

LEMMA AlwaysWorks ==
  ASSUME \A m \in Modules : Verified(m)
  PROVE  Spec => []Works
<1>1. Init => Works
  BY InitWorks, Zenon
<1>2. Works /\ [Next]_vars => Works'
  BY StepWorks, Zenon
<1> QED
  BY <1>1, <1>2, PTL DEF Spec

-----------------------------------------------------------------------------
(* What ScriptVM states.                                                   *)

(* What is on the stack is closed.                                         *)
LEMMA StackIsCells ==
  ASSUME Works
  PROVE  \E G : Closed(module, G) /\ stack \in Seq(G)
<1>1. CASE Stopped
  BY <1>1, Zenon DEF Stopped
<1>2. CASE Machine(module, config, mode, stack, frame, pc, go)
  <2>1. PICK G, u : Closed(module, G) /\ Current(module, G, u, config, mode, stack, frame, pc, go)
    BY <1>2, Zenon DEF Machine
  <2>2. stack \in Seq(G)
    BY <2>1, NoCells, Zenon DEF Current, Executes, RunsNative, Throws, FailedNative, NothingLeft, Above
  <2> QED
    BY <2>1, <2>2
<1> QED
  BY <1>1, <1>2, Zenon DEF Works

LEMMA WorksDisciplined ==
  ASSUME Works, Verified(module)
  PROVE  StackDiscipline /\ ConfigNested
<1>1. ASSUME Interpreting
      PROVE  Len(stack) = Base(frame) + Instr.d /\ Fits(module, config, frame, stack, Instr)
  <2>1. PICK G, u : Doing(G, u)
    BY <1>1, Begins, Zenon
  <2> QED
    BY <2>1, Situation
<1>2. StackDiscipline
  BY <1>1, Zenon DEF StackDiscipline
<1>3. ConfigNested
  BY <1>1, Zenon DEF ConfigNested, Fits, Opened
<1> QED
  BY <1>2, <1>3

LEMMA WorksOrStopped ==
  ASSUME Works
  PROVE  OnlyKnownPanics
<1>1. CASE Stopped
  BY <1>1, Zenon DEF Stopped
<1>2. CASE Machine(module, config, mode, stack, frame, pc, go)
  <2>1. mode \in {"run", "throw", "done", "failed"}
    BY <1>2 DEF Machine, Current
  <2>2. mode # "panic"
    BY <2>1
  <2> QED
    BY <2>2, Zenon DEF OnlyKnownPanics
<1> QED
  BY <1>1, <1>2, Zenon DEF Works

LEMMA WorksSuspended ==
  ASSUME Works
  PROVE  IteratorsSuspended
<1>1. PICK G : Closed(module, G) /\ stack \in Seq(G)
  BY StackIsCells, Zenon
<1>2. ASSUME NEW i \in DOMAIN stack, stack[i].k = "iter", stack[i].prog # "", stack[i].next
      PROVE  Suspended(module, stack[i])
  <2>1. stack[i] \in G
    BY <1>1
  <2> QED
    BY <1>1, <1>2, <2>1, Zenon DEF Closed, Fine, Sound
<1> QED
  BY <1>2, Zenon DEF IteratorsSuspended, Suspended, IterFrame, Program

LEMMA WorksOnFrames ==
  ASSUME Works
  PROVE  NativesOnFrames
<1>1. SUFFICES ASSUME mode = "run" PROVE Matched(go, stack, frame)
  BY Zenon DEF NativesOnFrames, Matched, Running, Saved, NativeTypes
<1>3. mode # "throw" /\ mode \notin {"done", "failed"} /\ mode # "panic"
  BY <1>1
<1>2. PICK G, u : Current(module, G, u, config, mode, stack, frame, pc, go)
  BY <1>3, Zenon DEF Works, Machine, Stopped
<1> QED
  BY <1>2, <1>3, Zenon DEF Current, Executes, RunsNative, Above

(* Whatever path led to an instruction, a jump, an exception, the return of *)
(* a call or of an iterator, the stack is as deep as its parse function     *)
(* relied on.                                                               *)
THEOREM StackIsDisciplined ==
  ASSUME \A m \in Modules : Verified(m)
  PROVE  Spec => []StackDiscipline
<1>1. Works => StackDiscipline
  BY WorksDisciplined, Zenon DEF Works
<1> QED
  BY <1>1, AlwaysWorks, PTL

(* In a config program the scopes written around the instruction are open,  *)
(* whatever a caught exception or a break left open; and no other is, where *)
(* no scope is left that way, so that every property and every scope behind *)
(* it lands where it is written, or within a scope that should have ended.  *)
THEOREM ConfigIsNested ==
  ASSUME \A m \in Modules : Verified(m)
  PROVE  Spec => []ConfigNested
<1>1. Works => ConfigNested
  BY WorksDisciplined, Zenon DEF Works
<1> QED
  BY <1>1, AlwaysWorks, PTL

(* A must of the machine fails only where a script makes it: a saved frame  *)
(* is found at every return and in every frame that an exception leaves,    *)
(* handlers are there to be popped and their depth is on the stack, and     *)
(* loops over iterators and functions of the module find their iterators.   *)
(* This is where a closure that a script calls must not be called back as   *)
(* well: runSFunc stops an exception at any frame of the closure it called, *)
(* also at one that a script entered, and would take that for its own.      *)
THEOREM VMPanicsAreKnown ==
  ASSUME \A m \in Modules : Verified(m)
  PROVE  Spec => []OnlyKnownPanics
<1>1. Works => OnlyKnownPanics
  BY WorksOrStopped, Zenon
<1> QED
  BY <1>1, AlwaysWorks, PTL

(* An iterator that has a next value waits behind a yield, in its own frame *)
(* and at the depth of that yield, whatever ran on other stacks since.      *)
THEOREM IteratorsStaySuspended ==
  ASSUME \A m \in Modules : Verified(m)
  PROVE  Spec => []IteratorsSuspended
<1>1. Works => IteratorsSuspended
  BY WorksSuspended, Zenon
<1> QED
  BY <1>1, AlwaysWorks, PTL

(* Every native function that runs on the current stack has its frame       *)
(* there: callbacks that return or fail leave their caller's frame current. *)
THEOREM NativesKeepFrames ==
  ASSUME \A m \in Modules : Verified(m)
  PROVE  Spec => []NativesOnFrames
<1>1. Works => NativesOnFrames
  BY WorksOnFrames, Zenon
<1> QED
  BY <1>1, AlwaysWorks, PTL
=============================================================================
