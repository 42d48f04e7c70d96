----------------------------- MODULE ScriptCode -----------------------------
(***************************************************************************)
(* The code generator of the script compiler (pl/parser.go).  The parser   *)
(* has no syntax tree: every parse function emits bytecode as it reads and *)
(* patches the jumps it left open.  Here a script is a tree of nodes, and  *)
(* the items of a node are what its parse function emits, in order, with   *)
(* labels where the parser keeps positions to patch.                       *)
(*                                                                         *)
(* Every instruction also says what the parse function that emitted it     *)
(* relies on: how many values lie above the arguments and the frame of its *)
(* function (d), the try blocks it is in (h), the config scopes it is in   *)
(* (c), and the slots above the frame in which the loops it is in keep     *)
(* their iterators (its).  Nothing executes these four; ScriptVM compares  *)
(* the first three with what the virtual machine has.                      *)
(*                                                                         *)
(* Abstractions.  Names are resolved; constants, names and positions of    *)
(* local variables are left out; all loads of a constant, a regexp or the  *)
(* event are LoadConst and all binary operators Bin; x++ is x += 1.  The   *)
(* parser emits no config instruction with an attribute.                   *)
(***************************************************************************)
EXTENDS Integers, Sequences, SequencesExt, TLC

\* A node: its kind, the function or flavour it names, its parts.
Node(k, f, s) == [k |-> k, f |-> f, s |-> s]
Nil == Node("nil", "", <<>>)

Statements == {"nil", "seq", "let", "expr", "action", "setindex", "addindex", "if", "try",
               "forever", "while", "trip", "each", "iter", "break", "continue",
               "return", "yield", "emit", "assign", "update", "setdot", "adddot", "set",
               "scope", "property", "command"}

\* Values a node leaves on the stack.
Width(x) == IF x.k \in Statements THEN 0 ELSE 1

\* Items, each at a depth relative to its node: an instruction, a jump to a
\* label, a label, a part; a part of a loop, one guarded by a try, one in a
\* config scope, one with an iterator in the first slot of the node: loaded, set
\* up, or known to have a next value.
Item(w, d, op, f, arg, l, x) ==
  [w |-> w, d |-> d, op |-> op, f |-> f, arg |-> arg, l |-> l, x |-> x, loop |-> FALSE, guarded |-> FALSE,
   scoped |-> FALSE, keeps |-> ""]
Ins(d, op, f, arg) == Item("ins", d, op, f, arg, "", Nil)
Jmp(d, op, l)      == Item("jmp", d, op, "", 0, l, Nil)
Lab(l)             == Item("lab", 0, "", "", 0, l, Nil)
Sub(d, x)          == Item("sub", d, "", "", 0, "", x)
InLoop(item)       == [item EXCEPT !.loop = TRUE]
Guarded(item)      == [item EXCEPT !.guarded = TRUE]
Scoped(item)       == [item EXCEPT !.scoped = TRUE]
Over(is, items)    == [i \in DOMAIN items |-> [items[i] EXCEPT !.keeps = is]]

\* Parts that leave one value each.
Operands(d, s) == [i \in DOMAIN s |-> Sub(d + i - 1, s[i])]

-----------------------------------------------------------------------------
(* Expressions. *)

\* and, or: the right operand is skipped, not popped
LogicItems(op, s) == <<Sub(0, s[1]), Jmp(1, op, "end"), Sub(0, s[2]), Lab("end")>>

\* value if condition else other
TernaryItems(s) ==
  <<Sub(0, s[1]), Sub(1, s[2]), Jmp(2, "Ternary", "end"), Sub(0, s[3]), Lab("end")>>

\* Calls: of an intrinsic function, of a script function that is declared later,
\* of a value: a variable, or the closure of a function that is declared already.
CallItems(k, f, s) ==
  CASE k = "icall"  -> <<Ins(0, "LoadConst", "", 0)>> \o Operands(1, s)
                       \o <<Ins(1 + Len(s), "ICall", f, Len(s))>>
    [] k = "call"   -> <<Ins(0, "LoadConst", "", 0)>> \o Operands(1, s)
                       \o <<Ins(1 + Len(s), "SCall", f, Len(s))>>
    [] k = "vcall"  -> Operands(0, s) \o <<Ins(Len(s), "VCall", f, Len(s) - 1)>>

\* a | f(...): a becomes the first argument.
PipeItems(f, s) ==
  <<Sub(0, Head(s)), Ins(1, "LoadConst", "", 0), Ins(2, "Swap", "", 0)>>
  \o Operands(2, Tail(s)) \o <<Ins(1 + Len(s), "SCall", f, Len(s))>>

\* Suffixes: a field, an element, a method that is loaded onto its receiver.
SuffixItems(k, f, s) ==
  CASE k = "dot"    -> <<Sub(0, s[1]), Ins(1, "Dot", "", 0)>>
    [] k = "index"  -> Operands(0, s) \o <<Ins(2, "Index", "", 0)>>
    [] k = "method" -> <<Sub(0, Head(s)), Ins(1, "LoadMethod", "", 0)>> \o Operands(1, Tail(s))
                       \o <<Ins(Len(s), "MCall", f, Len(s) - 1)>>

UnaryItems(k, s) == <<Sub(0, s[1]), Ins(1, [not |-> "Not", negate |-> "Negate"][k], "", 0)>>
PairItems(s)     == Operands(0, s) \o <<Ins(2, "NewPair", "", 0)>>
TemplateItems(s) == <<Sub(0, s[1]), Ins(1, "Template", "", 0)>>

\* An expression scope: a value is popped when another statement follows; the
\* last one is the value of the scope.
BodyItems(s) ==
  FlattenSeq([i \in DOMAIN s |-> IF Width(s[i]) = 1 /\ i < Len(s)
                                  THEN <<Sub(0, s[i]), Ins(1, "Pop", "", 0)>>
                                  ELSE <<Sub(0, s[i])>>])

\* a map literal, keys, which may be computed, and values in turn; a list
\* literal; a string with pieces
Keys(s) == IF \E i \in DOMAIN s : i % 2 = 1 /\ s[i].k # "const" THEN "computed" ELSE ""
MapItems(s)  == <<Ins(0, "NewMap", "", 0)>> \o Operands(1, s)
                \o (IF s = <<>> THEN <<>> ELSE <<Ins(1 + Len(s), "AddMap", Keys(s), Len(s) \div 2)>>)
ListItems(s) == <<Ins(0, "NewList", "", 0)>> \o Operands(1, s)
                \o (IF s = <<>> THEN <<>> ELSE <<Ins(1 + Len(s), "AddList", "", Len(s))>>)
StringItems(s) ==
  FlattenSeq([i \in DOMAIN s |-> <<Sub(i - 1, s[i]), Ins(i, "ToStr", "", 0)>>])
  \o (IF Len(s) > 1 THEN <<Ins(Len(s), "ConStr", "", Len(s))>> ELSE <<>>)

-----------------------------------------------------------------------------
(* Branches and exceptions, as statements and as expressions. *)

\* An if without else leaves nothing, or null where a value is needed.
BranchItems(x) ==
  LET w == Width(x)
      otherwise == IF Len(x.s) = 3 THEN <<Sub(0, x.s[3])>>
                   ELSE IF w = 1 THEN <<Ins(0, "LoadConst", "", 0)>> ELSE <<>>
  IN <<Sub(0, x.s[1]), Jmp(1, "Jfalse", "else"), Sub(0, x.s[2]), Jmp(w, "Jump", "end"),
       Lab("else")>> \o otherwise \o <<Lab("end")>>

\* try a else [let id] b
TryItems(x) ==
  LET caught == IF x.f = "let" THEN <<Ins(0, "LoadException", "", 0), Ins(1, "StoreLocal", "", 0)>>
                ELSE <<>>
  IN <<Jmp(0, "PushException", "else"), Guarded(Sub(0, x.s[1])),
       Guarded(Jmp(Width(x), "PopException", "end")), Lab("else")>>
     \o caught \o <<Sub(0, x.s[2]), Lab("end")>>

-----------------------------------------------------------------------------
(* Loops.  break and continue jump to the labels of the innermost one. *)

ForeverItems(s) ==
  <<Lab("head"), InLoop(Sub(0, s[1])), Lab("continue"), Jmp(0, "Jump", "head"), Lab("break")>>

ConditionItems(s) ==
  <<Lab("head"), Sub(0, s[1]), Jmp(1, "Jfalse", "end"), InLoop(Sub(0, s[2])),
    Lab("continue"), Jmp(0, "Jump", "head"), Lab("end"), Lab("break")>>

\* initial value, or nil; condition; trip statement; body
TripInit(x) == IF x.k = "nil" THEN <<>> ELSE <<Sub(0, x), Ins(1, "StoreLocal", "", 0)>>
TripItems(s) ==
  TripInit(s[1]) \o <<Lab("cond"), Sub(0, s[2]), Jmp(1, "Jfalse", "end"),
    Jmp(0, "Jump", "body"), Lab("trip"), Sub(0, s[3]), Jmp(0, "Jump", "cond"), Lab("body"),
    InLoop(Sub(0, s[4])), Lab("continue"), Jmp(0, "Jump", "trip"), Lab("end"), Lab("break")>>

\* An iterator loop: what is done while the iterator is on the stack.
LoopItems(body) ==
  Over("set", <<Jmp(2, "Jfalse", "end"), Lab("head"), Ins(1, "DerefIterator", "", 0)>>)
  \o Over("ready", <<Ins(3, "StoreLocal", "", 0), Ins(2, "StoreLocal", "", 0), InLoop(Sub(1, body))>>)
NextItems == Over("ready", <<Ins(1, "NextIterator", "", 0)>>)
AgainItems == Over("set", <<Jmp(2, "Jtrue", "head")>>)

\* Faults: break jumps behind the instruction that pops the iterator;
\* continue jumps behind the one that moves it.
IteratorItemsBreakLeaks(setup, body) ==
  setup \o LoopItems(body) \o <<Lab("continue")>> \o NextItems \o AgainItems
  \o <<Lab("end"), Ins(1, "Pop", "", 0), Lab("break")>>

IteratorItemsContinueLate(setup, body) ==
  setup \o LoopItems(body) \o NextItems \o <<Lab("continue")>> \o AgainItems
  \o <<Lab("end"), Lab("break"), Ins(1, "Pop", "", 0)>>

\* The iterator stays on the stack until the loop is left.
IteratorItems(setup, body) ==
  setup \o LoopItems(body) \o <<Lab("continue")>> \o NextItems \o AgainItems
  \o <<Lab("end"), Lab("break"), Ins(1, "Pop", "", 0)>>

\* for ... = e; for ... = iter f(...), where f is the name of an iterator, or of
\* a function, which the machine refuses; with any other name a call.
HasNext == Ins(1, "HasIterator", "", 0)
EachSetUp(s)    == <<Sub(0, s[1]), Ins(1, "NewIterator", "", 0)>> \o Over("set", <<HasNext>>)
IterSetUp(f, s) ==
  IF f = "" THEN <<Sub(0, s[1]), HasNext>>
  ELSE <<Ins(0, "LoadIterator", f, 0)>>
       \o Over("loaded", Operands(1, s) \o <<Ins(1 + Len(s), "SetUpIterator", f, Len(s))>>)
       \o Over("set", <<HasNext>>)

-----------------------------------------------------------------------------
\* A fault: the short form of a scope, name command(...), is left open.
ScopeItemsOpen(s) ==
  <<Ins(0, "ConfigPush", "", 0), Scoped(Sub(0, s[1]))>>
  \o (IF s[1].k = "command" THEN <<>> ELSE <<Scoped(Ins(0, "ConfigPop", "", 0))>>)

\* Config scopes: a name and a body, or name command(...).
ScopeItems(s) ==
  <<Ins(0, "ConfigPush", "", 0), Scoped(Sub(0, s[1])), Scoped(Ins(0, "ConfigPop", "", 0))>>

\* .key = value, and .key(...): the key and the operands.
PropertyItems(s) == Operands(0, s) \o <<Ins(2, "ConfigPropertySet", "", 0)>>
CommandItems(s)  == Operands(0, s) \o <<Ins(Len(s), "ConfigCommand", "", Len(s) - 1)>>

\* A variable of a session or a global section.
SectionItems(op, s) == <<Sub(0, s[1]), Ins(1, op, "", 0)>>

\* let x = e, without e null
LetItems(s) == (IF s = <<>> THEN <<Ins(0, "LoadConst", "", 0)>> ELSE <<Sub(0, s[1])>>)
               \o <<Ins(1, "StoreLocal", "", 0)>>

-----------------------------------------------------------------------------
(* What each parse function emits. *)

\* A symbol: dynamic, local, session or global variable, or an upvalue.
SymbolLoad(d, sort)  == <<Ins(d, [var |-> "LoadVar", local |-> "LoadLocal", session |-> "LoadSession",
                                  global |-> "LoadGlobal", upvalue |-> "LoadUpvalue"][sort], "", 0)>>
SymbolStore(d, sort) == <<Ins(d, [var |-> "StoreVar", local |-> "StoreLocal", session |-> "StoreSession",
                                  global |-> "StoreGlobal", upvalue |-> "StoreUpvalue"][sort], "", 0)>>

\* x = e; x op= e
AssignItems(k, sort, s) ==
  IF k = "assign" THEN <<Sub(0, s[1])>> \o SymbolStore(1, sort)
  ELSE SymbolLoad(0, sort) \o <<Sub(1, s[1]), Ins(2, "Bin", "", 0)>> \o SymbolStore(1, sort)

ExprItems(x) ==
  CASE x.k = "const"   -> <<Ins(0, "LoadConst", "", 0)>>
    [] x.k = "load"    -> SymbolLoad(0, x.f)
    [] x.k = "closure" -> <<Ins(0, "NewClosure", x.f, 0)>>
    [] x.k \in {"not", "negate"} -> UnaryItems(x.k, x.s)
    [] x.k = "bin"     -> Operands(0, x.s) \o <<Ins(2, "Bin", "", 0)>>
    [] x.k = "pair"    -> PairItems(x.s)
    [] x.k \in {"dot", "index", "method"} -> SuffixItems(x.k, x.f, x.s)
    [] x.k = "pipe"    -> PipeItems(x.f, x.s)
    [] x.k = "and"     -> LogicItems("And", x.s)
    [] x.k = "or"      -> LogicItems("Or", x.s)
    [] x.k = "ternary" -> TernaryItems(x.s)
    [] x.k = "list"    -> ListItems(x.s)
    [] x.k = "map"     -> MapItems(x.s)
    [] x.k = "template" -> TemplateItems(x.s)
    [] x.k = "iterator" -> <<Ins(0, "LoadIterator", x.f, 0)>>
    [] x.k = "body"    -> BodyItems(x.s)
    [] x.k = "string"  -> StringItems(x.s)
    [] x.k = "ifexpr"  -> BranchItems(x)
    [] x.k = "tryexpr" -> TryItems(x)
    [] OTHER           -> CallItems(x.k, x.f, x.s)

StmtItems(x) ==
  CASE x.k = "nil"      -> <<>>
    [] x.k = "seq"      -> [i \in DOMAIN x.s |-> Sub(0, x.s[i])]
    [] x.k = "let"      -> LetItems(x.s)
    [] x.k = "expr"     -> <<Sub(0, x.s[1]), Ins(1, "Pop", "", 0)>>
    [] x.k = "action"   -> <<Sub(0, x.s[1]), Ins(1, "Action", "", 0)>>
    [] x.k = "emit"     -> <<Ins(0, "LoadConst", "", 0), Sub(1, x.s[1]), Ins(2, "Emit", "", 1)>>
    [] x.k = "setindex" -> Operands(0, x.s) \o <<Ins(3, "IndexSet", "", 0)>>
    [] x.k = "addindex" -> <<Sub(0, x.s[1]), Sub(1, x.s[2]), Ins(2, "Dup2", "", 0),
                             Ins(4, "Index", "", 0), Sub(3, x.s[3]), Ins(4, "Bin", "", 0),
                             Ins(3, "IndexSet", "", 0)>>
    [] x.k \in {"assign", "update"} -> AssignItems(x.k, x.f, x.s)
    [] x.k = "setdot"   -> Operands(0, x.s) \o <<Ins(2, "DotSet", "", 0)>>
    [] x.k = "adddot"   -> <<Sub(0, x.s[1]), Ins(1, "Dup1", "", 0), Ins(2, "Dot", "", 0), Sub(2, x.s[2]),
                             Ins(3, "Bin", "", 0), Ins(2, "DotSet", "", 0)>>
    [] x.k = "set"      -> SectionItems(x.f, x.s)
    [] x.k = "scope"    -> ScopeItems(x.s)
    [] x.k = "property" -> PropertyItems(x.s)
    [] x.k = "command"  -> CommandItems(x.s)
    [] x.k = "if"       -> BranchItems(x)
    [] x.k = "try"      -> TryItems(x)
    [] x.k = "forever"  -> ForeverItems(x.s)
    [] x.k = "while"    -> ConditionItems(x.s)
    [] x.k = "trip"     -> TripItems(x.s)
    [] x.k = "each"     -> IteratorItems(EachSetUp(x.s), x.s[2])
    [] x.k = "iter"     -> IteratorItems(IterSetUp(x.f, Front(x.s)), Last(x.s))
    [] x.k = "break"    -> <<Jmp(0, "Jump", "break")>>
    [] x.k = "continue" -> <<Jmp(0, "Jump", "continue")>>
    [] x.k = "return"   -> <<Sub(0, x.s[1]), Ins(1, "Return", "", 0)>>
    [] x.k = "yield"    -> <<Sub(0, x.s[1]), Ins(1, "Yield", "", 0)>>

Items(x) == IF x.k \in Statements THEN StmtItems(x) ELSE ExprItems(x)

-----------------------------------------------------------------------------
(* What the parser refuses, by the kind of the program. *)

Loops == {"forever", "while", "trip", "each", "iter"}

\* Statements of an expression scope, besides its expressions.
BodyStatements == {"let", "nil"} \cup Loops \cup {"assign", "update", "setdot", "adddot", "setindex", "addindex"}

\* A configuration has nothing to return from; only a rule acts and emits.
ConfigStatements == {"scope", "property", "command"}
Refused(kind) ==
  (IF kind = "iter" THEN {} ELSE {"yield"})
  \cup (IF kind \in {"rule", "fn", "iter"} THEN {} ELSE {"return"})
  \cup (IF kind = "rule" THEN {} ELSE {"action", "emit"})
  \cup (IF kind = "config" THEN {} ELSE ConfigStatements)

\* break and continue have a loop around them, whose body is the last part.
RECURSIVE Accepts(_, _, _)
Accepts(kind, loop, x) ==
  /\ x.k \in {"break", "continue"} => loop
  /\ x.k \notin Refused(kind)
  /\ x.k = "body" => /\ \A i \in DOMAIN x.s : Width(x.s[i]) = 1 \/ x.s[i].k \in BodyStatements
                     /\ Width(Last(x.s)) = 1
  /\ \A i \in DOMAIN x.s : Accepts(kind, loop \/ (x.k \in Loops /\ i = Len(x.s)), x.s[i])

-----------------------------------------------------------------------------
(* Layout: positions are absolute and count from 0, like a program's bcList. *)

RECURSIVE Size(_)
ItemSize(item) == CASE item.w = "lab" -> 0 [] item.w = "sub" -> Size(item.x) [] OTHER -> 1
Size(x) == LET add(n, item) == n + ItemSize(item) IN FoldLeft(add, 0, Items(x))

\* env: the depth, the handlers, the config scopes and the iterators around the
\* node, and where break and continue go.
RECURSIVE Code(_, _, _)
Code(x, start, env) ==
  LET items == Items(x)
      at[i \in DOMAIN items] == IF i = 1 THEN start ELSE at[i - 1] + ItemSize(items[i - 1])
      labels == {i \in DOMAIN items : items[i].w = "lab"}
      to == [l \in {items[i].l : i \in labels} |-> at[CHOOSE i \in labels : items[i].l = l]] @@ env.to
      inner(item) ==
        [d |-> env.d + item.d,
         h |-> IF item.guarded THEN Append(env.h, [pc |-> to["else"], d |-> env.d]) ELSE env.h,
         to |-> IF item.loop THEN to ELSE env.to,
         c |-> IF item.scoped THEN env.c + 1 ELSE env.c,
         its |-> IF item.keeps = "" THEN env.its ELSE env.its \cup {[d |-> env.d + 1, is |-> item.keeps]}]
      emit(i, item, env1) ==
        CASE item.w = "lab" -> <<>>
          [] item.w = "sub" -> Code(item.x, at[i], env1)
          [] OTHER -> <<[op |-> item.op, f |-> item.f,
                         arg |-> IF item.w = "jmp" THEN to[item.l] ELSE item.arg,
                         d |-> env1.d, h |-> env1.h, c |-> env1.c, its |-> env1.its]>>
  IN FlattenSeq([i \in DOMAIN items |-> emit(i, items[i], inner(items[i]))])

\* Local variables a node declares; slots are not shared between scopes.
RECURSIVE Locals(_)
Locals(x) ==
  LET own == CASE x.k = "let" -> 1
               [] x.k \in {"try", "tryexpr"} /\ x.f = "let" -> 1
               [] x.k = "trip" -> Len(TripInit(x.s[1])) \div 2
               [] x.k \in {"each", "iter"} -> 2
               [] OTHER -> 0
      add(n, part) == n + Locals(part)
  IN own + FoldLeft(add, 0, x.s)

\* maxLocal of a function, an iterator or a rule counts the arguments, the
\* slot of the frame and the local variables, and all but one are reserved.
\* The program of a session or global section reserves nothing, a config
\* program does not even say so.
Compiled(kind, args, body) ==
  LET reserved == IF kind \in {"vars", "config"} THEN 0 ELSE args + Locals(body)
      env == [d |-> reserved, h |-> <<>>, c |-> 0, its |-> {}, to |-> <<>>]
      instr(op, arg, d) == <<[op |-> op, f |-> "", arg |-> arg, d |-> d, h |-> <<>>, c |-> 0,
                               its |-> {}]>>
      reserve == IF kind = "config" THEN <<>> ELSE instr("ReserveLocal", reserved, 0)
      rest == IF kind \in {"fn", "iter"}
              THEN instr("LoadConst", 0, reserved) \o instr("Return", 0, reserved + 1)
              ELSE instr("Halt", 0, reserved)
  IN [kind |-> kind, args |-> args, code |-> reserve \o Code(body, Len(reserve), env) \o rest]
=============================================================================
