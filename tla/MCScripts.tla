------------------------------ MODULE MCScripts ------------------------------
(* Scripts for the virtual machine: every leaf statement in every pair of    *)
(* constructs around it, as the body of a rule, of a function that is called *)
(* and called back, and of an iterator; and a script of all expressions.     *)
EXTENDS Integers, Sequences, SequencesExt

Compiler == INSTANCE ScriptCode
Node(k, f, s) == Compiler!Node(k, f, s)

Constant == Node("const", "", <<>>)
Variable == Node("load", "var", <<>>)
Pair     == Node("pair", "", <<Constant, Constant>>)
Then(a, b) == Node("seq", "", <<a, b>>)

Access   == Node("expr", "", <<Variable>>)
Action   == Node("action", "", <<Variable>>)
CallF    == Node("expr", "", <<Node("call", "f", <<Constant>>)>>)
Closure(f) == Node("closure", f, <<>>)
CallVar  == Node("vcall", "", <<Variable, Constant>>)
CallBack == Node("expr", "", <<Node("icall", "g", <<Closure("g")>>)>>)
Iterate  == Node("iter", "it", <<Constant, Access>>)
Return   == Node("return", "", <<Constant>>)
Break    == Node("break", "", <<>>)
Continue == Node("continue", "", <<>>)
Yield1   == Node("yield", "", <<Pair>>)
Captured == Node("update", "upvalue", <<Variable>>)

\* One construct around a statement.
Around(x) ==
  <<Node("try", "let", <<x, Access>>), Node("try", "", <<Access, x>>),
    Node("if", "", <<Constant, x>>), Node("if", "", <<Constant, Access, x>>),
    Node("forever", "", <<Then(x, Return)>>), Node("while", "", <<Constant, x>>),
    Node("trip", "", <<Constant, Constant, Access, x>>), Node("each", "", <<Variable, x>>),
    Node("iter", "it", <<Constant, x>>), Node("iter", "", <<CallVar, x>>)>>
AroundAll(xs) == FlattenSeq([i \in DOMAIN xs |-> Around(xs[i])])

\* break and continue leave no try body on the way to their loop.
RECURSIVE LeavesNoTry(_, _)
LeavesNoTry(x, ok) ==
  CASE x.k \in {"break", "continue"} -> ok
    [] x.k \in Compiler!Loops -> \A i \in DOMAIN x.s : LeavesNoTry(x.s[i], TRUE)
    [] x.k = "try" -> LeavesNoTry(x.s[1], FALSE) /\ LeavesNoTry(x.s[2], ok)
    [] OTHER -> \A i \in DOMAIN x.s : LeavesNoTry(x.s[i], ok)

\* Every kind of expression, with exceptions and branches inside operands.
Tried  == Node("tryexpr", "", <<Node("bin", "", <<Variable, Node("call", "f", <<Constant>>)>>), Constant>>)
Chosen == Node("ifexpr", "", <<Constant, Node("ternary", "", <<Tried, Constant, Variable>>)>>)
Short  == Node("and", "", <<Variable, Node("or", "", <<Chosen, Node("not", "", <<Constant>>)>>)>>)
Text   == Node("string", "", <<Constant, Short, Variable>>)
Misfit == Node("tryexpr", "let", <<Node("call", "f", <<>>), Constant>>)
NoClosure == Node("tryexpr", "", <<Node("vcall", "", <<Closure("it"), Constant>>), CallVar>>)
Listed == Node("list", "", <<Text, Misfit, NoClosure, Node("index", "", <<Variable, Constant>>)>>)
Mapped == Node("map", "", <<Constant, Listed, Constant, Node("dot", "", <<Node("map", "", <<>>)>>)>>)
Method == Node("method", "g", <<Mapped, Closure("g")>>)
Piped  == Node("pipe", "f", <<Node("negate", "", <<Node("template", "", <<Constant>>)>>)>>)
Called == Node("vcall", "f", <<Node("body", "", <<Constant, Node("let", "", <<>>), Piped, Closure("f")>>), Method>>)
\* An iterator and loops inside an operand, which break and return leave.
Looped == Node("bin", "",
            <<Constant, Node("body", "", <<Node("each", "", <<Node("iterator", "it", <<>>), Break>>),
                                           Node("trip", "", <<Node("nil", "", <<>>), Constant, Access,
                                                              Node("if", "", <<Constant, Return, Break>>)>>),
                                           Variable>>)>>)
Assigned ==
  <<Node("assign", "session", <<Looped>>), Node("update", "global", <<Constant>>),
    Node("update", "local", <<Tried>>), Node("assign", "var", <<Short>>), Node("update", "var", <<Constant>>),
    Node("setdot", "", <<Variable, Tried>>), Node("adddot", "", <<Variable, Short>>)>>
Expressions ==
  Node("seq", "",
    <<Node("let", "", <<Called>>),
      Node("addindex", "", <<Variable, Constant, Short>>),
      Node("expr", "", <<Node("map", "", <<Short, Variable>>)>>),
      Node("setindex", "", <<Node("load", "local", <<>>), Constant, Node("ifexpr", "", <<Constant, Text, Tried>>)>>),
      Node("emit", "", <<Node("list", "", <<>>)>>), Node("nil", "", <<>>)>>
    \o Assigned
    \o <<Node("iter", "", <<Node("vcall", "f", <<Closure("f"), Constant>>), Access>>),
         Node("iter", "", <<Node("icall", "g", <<Closure("g")>>), Access>>),
         Node("iter", "f", <<Constant, Access>>)>>)

\* A session section and a global section.
Set(store, e) == Node("set", store, <<e>>)
Section(store) == Node("seq", "", <<Set(store, Short), Set(store, Node("bin", "", <<Node("load", "session", <<>>), Tried>>))>>)

\* A configuration: scopes in branches, loops and scopes, properties and
\* commands, and a break, that a try protects or a scope holds.
Scope(x)    == Node("scope", "", <<x>>)
Property    == Node("property", "", <<Constant, Variable>>)
Command     == Node("command", "", <<Constant, Tried, Node("call", "f", <<Constant>>)>>)
InConfig(x) == <<Node("try", "let", <<x, Property>>), Node("if", "", <<Constant, x>>),
                 Node("if", "", <<Constant, x, Command>>), Node("while", "", <<Constant, x>>), Scope(x)>>
Configured ==
  {Scope(Node("seq", "", <<x, Scope(Command), y>>)) :
     x \in ToSet(InConfig(Property)) \cup ToSet(InConfig(Scope(Property)))
           \cup {Node("while", "", <<Constant, y>>) : y \in {Break, Scope(Node("if", "", <<Constant, Break>>))}},
     y \in UNION {ToSet(InConfig(w)) : w \in ToSet(InConfig(Scope(Command)))}}

\* What the parts of a script are while another part varies.
CaughtAccess == Node("try", "", <<Access, Return>>)
YieldTwice   == Then(Yield1, Then(CallF, Yield1))
UseAll == Node("try", "", <<Node("seq", "", <<CallF, CallBack, Iterate>>), Access>>)

\* A script: the kind and the body of the program that runs, the bodies of its
\* functions and of its iterator.
Script(rule, f, g, it) == [kind |-> "rule", rule |-> rule, f |-> f, g |-> g, it |-> it]
SectionOf(kind, x) == [kind |-> kind, rule |-> x, f |-> CaughtAccess, g |-> Access, it |-> YieldTwice]
Kind(s) == [rule |-> s.kind, f |-> "fn", g |-> "fn", it |-> "iter"]
Args == [rule |-> 1, f |-> 1, g |-> 0, it |-> 1]

LeavesInRule == <<Action, CallF, CallBack, Return, Break, Continue>>
LeavesInFn   == <<CallF, CallBack, Return, Captured>>
LeavesInIter == <<Yield1, CallF, Return, CallBack, Captured>>

Bodies(kind, xs) ==
  ToSet(SelectSeq(xs, LAMBDA x : LeavesNoTry(x, TRUE) /\ Compiler!Accepts(kind, FALSE, x)))

Sources ==
  {Script(Expressions, CaughtAccess, Access, YieldTwice)}
  \cup {Script(x, CaughtAccess, Access, YieldTwice) : x \in Bodies("rule", AroundAll(AroundAll(LeavesInRule)))}
  \cup {Script(UseAll, Access, x, YieldTwice) : x \in Bodies("fn", AroundAll(AroundAll(LeavesInFn)))}
  \cup {Script(UseAll, CaughtAccess, Access, x) : x \in Bodies("iter", AroundAll(AroundAll(LeavesInIter)))}
  \cup {Script(UseAll, Access, Captured, x) : x \in Bodies("iter", AroundAll(<<Yield1, CallBack>>))}
  \cup {SectionOf("vars", Section(store)) : store \in {"SetSession", "SetGlobal"}}
  \cup {SectionOf("config", x) : x \in Configured}

MCModules == {[p \in DOMAIN Args |-> Compiler!Compiled(Kind(s)[p], Args[p], s[p])] : s \in Sources}
=============================================================================
