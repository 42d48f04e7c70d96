--------------------------- MODULE ScriptVerifier ---------------------------
(* What the virtual machine relies on in the bytecode it is given, read off  *)
(* the instructions one by one: where control goes, what it finds there is   *)
(* what the parse function that emitted the target relied on.  The machine   *)
(* has no such verifier; ScriptVM_proofs shows that code which passes it     *)
(* keeps the machine's promises, and the runs of MCScriptFrontEnd pass all   *)
(* scripts of MCScripts through it.                                          *)
EXTENDS Integers, Sequences, SequencesExt, ScriptInstr

\* A slot of the stack with an iterator: loaded but not set up; set up; set up
\* and with a next value.
Slot(d, is) == [d |-> d, is |-> is]
Upto(slots, d) == {x \in slots : x.d <= d}

\* The instruction at pc expects this depth, these handlers, this many open
\* config scopes, and no iterators but these.
Expects(code, pc, d, h, c, slots) ==
  /\ pc \in 0 .. Len(code) - 1
  /\ code[pc + 1].d = d /\ code[pc + 1].h = h /\ code[pc + 1].c = c
  /\ code[pc + 1].its \subseteq slots

\* The instruction has n values of its own to take, and none of them lies
\* below the innermost try block around it.
Takes(I, n) == n <= I.d /\ (I.h # <<>> => Last(I.h).d <= I.d - n)

\* Behind an instruction that takes and leaves values, and iterators in new
\* slots.
Goes(code, I, pc, taken, left, new) ==
  Expects(code, pc, I.d - taken + left, I.h, I.c, Upto(I.its, I.d - taken) \cup new)

\* The closures that native functions get and may call.
CalledBack(m) ==
  (UNION {{m[p].code[i].f : i \in {i \in 1 .. Len(m[p].code) : m[p].code[i].op \in {"ICall", "MCall"}}} :
          p \in DOMAIN m}) \ {""}

-----------------------------------------------------------------------------
(* One condition for each kind of instruction: I is at pc in program p.      *)

Typed(I) ==
  /\ I.arg \in Nat /\ I.d \in Nat /\ I.c \in Int
  /\ I.h \in Seq([pc : Nat, d : Nat])
  /\ I.its \subseteq [d : 1 .. I.d, is : {"loaded", "set", "ready"}]

\* A jump, or a handler, may leave config scopes, which then stay open.
Leaving(code, I, pc) == code[pc + 1].c <= I.c

\* The else block of the try around it.
Lands(code, I) ==
  /\ Takes(I, 0)
  /\ I.h # <<>> => LET x == Last(I.h)
                   IN /\ Expects(code, x.pc, x.d, Front(I.h), code[x.pc + 1].c, Upto(I.its, x.d))
                      /\ Leaving(code, I, x.pc)

Values(code, I, pc) ==
  /\ \A i \in PlainInstr(I.arg) : i.op = I.op => Takes(I, i.pops) /\ Goes(code, I, pc + 1, i.pops, i.pushes, {})
  /\ I.op = "LoadUpvalue" => Goes(code, I, pc + 1, 0, 1, {})
  /\ I.op = "StoreUpvalue" => Takes(I, 1) /\ Goes(code, I, pc + 1, 1, 0, {})

Configures(p, code, I, pc) ==
  /\ I.op \in {"ConfigPush", "ConfigPop"} => p = "rule"
  /\ I.op = "ConfigPush" => Expects(code, pc + 1, I.d, I.h, I.c + 1, I.its)
  /\ I.op = "ConfigPop" => Expects(code, pc + 1, I.d, I.h, I.c - 1, I.its)

Jumps(code, I, pc) ==
  /\ I.op = "Jump" => /\ Expects(code, I.arg, I.d, I.h, code[I.arg + 1].c, I.its)
                      /\ Leaving(code, I, I.arg)
  /\ I.op \in {"Jfalse", "Jtrue"} =>
       Takes(I, 1) /\ Goes(code, I, I.arg, 1, 0, {}) /\ Goes(code, I, pc + 1, 1, 0, {})
  /\ I.op \in {"And", "Or"} =>
       Takes(I, 1) /\ Goes(code, I, I.arg, 0, 0, {}) /\ Goes(code, I, pc + 1, 1, 0, {})
  /\ I.op = "Ternary" =>
       Takes(I, 2) /\ Goes(code, I, I.arg, 1, 0, {}) /\ Goes(code, I, pc + 1, 2, 0, {})

Tries(code, I, pc) ==
  /\ I.op = "PushException" =>
       Expects(code, pc + 1, I.d, Append(I.h, [pc |-> I.arg, d |-> I.d]), I.c, I.its)
  /\ I.op = "PopException" =>
       I.h # <<>> /\ Expects(code, I.arg, I.d, Front(I.h), I.c, I.its)

\* A closure that a script calls is not called back as well: see the README and
\* ScriptVM_proofs.
Calls(m, code, I, pc) ==
  /\ I.op = "SCall" => ~NeedsClosure(m, I.f)
  /\ I.op = "VCall" => I.f = "" \/ I.f \notin CalledBack(m)
  /\ I.op \in {"SCall", "VCall", "ICall", "MCall"} =>
       \/ I.f = "" /\ I.op # "SCall"
       \/ I.f \in DOMAIN m /\ m[I.f].kind = "fn"
  /\ I.op \in {"SCall", "VCall", "ICall", "MCall"} =>
       Takes(I, I.arg + 1) /\ Goes(code, I, pc + 1, I.arg + 1, 1, {})

Iterates(m, code, I, pc) ==
  /\ I.op = "NewIterator" =>
       Takes(I, 1) /\ Goes(code, I, pc + 1, 1, 1, {Slot(I.d, "set"), Slot(I.d, "ready")})
  /\ I.op = "LoadIterator" =>
       I.f \in DOMAIN m /\ Goes(code, I, pc + 1, 0, 1, {Slot(I.d + 1, "loaded")})
  /\ I.op = "SetUpIterator" =>
       /\ Slot(I.d - I.arg, "loaded") \in I.its
       /\ Takes(I, I.arg + 1) /\ Goes(code, I, pc + 1, I.arg + 1, 1, {Slot(I.d - I.arg, "set")})
  /\ I.op = "HasIterator" => Takes(I, 1) /\ Goes(code, I, pc + 1, 1, 2, {Slot(I.d, "set")})
  /\ I.op = "DerefIterator" =>
       Slot(I.d, "set") \in I.its /\ Goes(code, I, pc + 1, 0, 2, {Slot(I.d, "ready")})
  /\ I.op = "NextIterator" =>
       /\ Slot(I.d, "ready") \in I.its
       /\ Takes(I, 1) /\ Goes(code, I, pc + 1, 1, 2, {Slot(I.d, "set")})

Leaves(m, p, code, I, pc) ==
  /\ I.op = "Yield" => m[p].kind = "iter" /\ Takes(I, 1) /\ Goes(code, I, pc + 1, 1, 0, {})
  /\ I.op = "Halt" => p = "rule"

Flows(m, p, code, I, pc) ==
  /\ Typed(I) /\ Lands(code, I)
  /\ Values(code, I, pc) /\ Configures(p, code, I, pc) /\ Jumps(code, I, pc) /\ Tries(code, I, pc)
  /\ Calls(m, code, I, pc) /\ Iterates(m, code, I, pc) /\ Leaves(m, p, code, I, pc)

Verified(m) ==
  /\ "" \notin DOMAIN m
  /\ m["rule"].kind \notin {"fn", "iter"} /\ ~NeedsClosure(m, "rule")
  /\ \A p \in DOMAIN m :
       LET code == m[p].code
       IN /\ m[p].args \in Nat /\ Len(code) \in Nat
          /\ Expects(code, 0, 0, <<>>, 0, {})
          /\ \A pc \in 0 .. Len(code) - 1 : Flows(m, p, code, code[pc + 1], pc)
=============================================================================
