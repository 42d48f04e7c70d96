---------------------------- MODULE ScriptScopes ----------------------------
(***************************************************************************)
(* The lexical scopes of the script compiler (pl/parser.go): the parser    *)
(* goes through a script once and keeps the scopes it is in on a stack;    *)
(* each declaration gets a slot of the frame of its function, each name is *)
(* resolved at once, and a variable of an enclosing function is reached    *)
(* through upvalue tables that the parser extends on the way.              *)
(*                                                                         *)
(* The stack is a sequence, the innermost scope last, so parent is the     *)
(* element before and next the one behind.  What is behind the resolution  *)
(* of local variables, named functions, session, global and dynamic        *)
(* variables in this order, is "outer".                                    *)
(***************************************************************************)
EXTENDS Integers, Sequences, FiniteSets, SequencesExt

CONSTANTS
  Names,      \* names of variables
  MaxScopes,  \* bound: scopes around a position of the script
  MaxLocal,   \* bound: variables that a function declares
  MaxDecls,   \* bound: variables in the scopes around a position
  MaxUpvals   \* bound: upvalues when a name is used

ASSUME ScopeBounds == MaxScopes \in Nat /\ MaxLocal \in Nat /\ MaxDecls \in Nat /\ MaxUpvals \in Nat

VARIABLES
  scopes,    \* parser.stbl and its parents
  resolved   \* what the last name was resolved to

scopeVars == <<scopes, resolved>>

\* Functions and iterators, and rules, have a frame; the session and global
\* sections and the configuration do not say where theirs is.
Entries == {"fn", "rule", "section"}

Symbol(name, const) == [name |-> name, const |-> const]
Declared(st) == FoldSeq(LAMBDA s, n : Cardinality({i \in DOMAIN s.tbl : s.tbl[i].name \in Names}) + n, 0, st)
Captured(st) == FoldSeq(LAMBDA s, n : Len(s.upvalue) + n, 0, st)
None == [name |-> "", write |-> FALSE, sort |-> "none", idx |-> 0]

-----------------------------------------------------------------------------
(* Scopes. *)

nextOffset(s) == s.offset + Len(s.tbl)

\* A fault: the slots of a scope start with those of its parent.
lexicalScopeOverlaid(st, isTop, entry, tbl) ==
  [top |-> isTop, entry |-> entry, offset |-> IF isTop THEN 0 ELSE st[Len(st)].offset,
   tbl |-> tbl, maxLocal |-> IF isTop THEN Len(tbl) ELSE 0, upvalue |-> <<>>]

\* newLexicalScope inside the scopes st
lexicalScope(st, isTop, entry, tbl) ==
  [top |-> isTop, entry |-> entry, offset |-> IF isTop THEN 0 ELSE nextOffset(st[Len(st)]),
   tbl |-> tbl, maxLocal |-> IF isTop THEN Len(tbl) ELSE 0, upvalue |-> <<>>]

\* lexicalScope.prevTop: the top of the function that scope k is in.
prevTop(k) == Max({j \in 1..k : scopes[j].top})

\* Symbols of scope k with this name: at most one.
found(k, name) == {i \in DOMAIN scopes[k].tbl : scopes[k].tbl[i].name = name}
slot(k, i) == scopes[k].offset + i - 1

-----------------------------------------------------------------------------
(* Name resolution. *)

\* findLocalAt: scopes of the function that scope k is in, from k outwards,
\* that declare the name.
declaring(name, k) == {j \in prevTop(k)..k : found(j, name) # {}}
findLocalAt(name, k) ==
  LET j == Max(declaring(name, k)) IN slot(j, CHOOSE i \in found(j, name) : TRUE)

\* findUpval: the scopes around function literals, from the innermost
\* outwards, in whose function the name is declared.
around == {k \in DOMAIN scopes : k < Len(scopes) /\ scopes[k + 1].top}
capturing(name) == {k \in around : declaring(name, k) # {}}

\* A fault: every function on the way captures from the stack.
collapseOnStack(st, k, idx) ==
  LET tops == {j \in k + 1..Len(st) : st[j].top}
      entry(j) == [onStack |-> TRUE,
                   index |-> IF j = Min(tops) THEN idx ELSE Len(st[Max({i \in tops : i < j})].upvalue)]
  IN [j \in DOMAIN st |-> IF j \in tops THEN [st[j] EXCEPT !.upvalue = Append(@, entry(j))] ELSE st[j]]

\* The functions from scope k inwards each get an entry: the outermost takes
\* the variable from the stack, each other from the table of the one before.
collapse(st, k, idx) ==
  LET tops == {j \in k + 1..Len(st) : st[j].top}
      entry(j) == IF j = Min(tops) THEN [onStack |-> TRUE, index |-> idx]
                  ELSE [onStack |-> FALSE, index |-> Len(st[Max({i \in tops : i < j})].upvalue)]
  IN [j \in DOMAIN st |-> IF j \in tops THEN [st[j] EXCEPT !.upvalue = Append(@, entry(j))] ELSE st[j]]

\* resolveSymbol: a local variable, unless a const is assigned to; an upvalue;
\* the rest.
resolveSymbol(name, write) ==
  LET n == Len(scopes)
      symbol(sort, idx) == resolved' = [name |-> name, write |-> write, sort |-> sort, idx |-> idx]
  IN CASE declaring(name, n) # {} ->
            LET j == Max(declaring(name, n))
                const == scopes[j].tbl[CHOOSE i \in found(j, name) : TRUE].const
            IN /\ symbol(IF write /\ const THEN "const" ELSE "local", findLocalAt(name, n))
               /\ UNCHANGED scopes
       [] declaring(name, n) = {} /\ capturing(name) # {} ->
            LET k == Max(capturing(name))
            IN /\ scopes' = collapse(scopes, k, findLocalAt(name, k))
               /\ symbol("upvalue", Len(scopes[prevTop(n)].upvalue))
       [] OTHER -> symbol("outer", 0) /\ UNCHANGED scopes

-----------------------------------------------------------------------------
(* The parser. *)

\* No top-level program is inside another; function and iterator literals are
\* expressions.  A function declares its arguments, then the slot of its
\* frame; a rule the event; the sections nothing.
EnterTop(entry, args) ==
  /\ Len(scopes) < MaxScopes
  /\ scopes # <<>> => entry = "fn"
  /\ LET symbols == [i \in DOMAIN args |-> Symbol(args[i], FALSE)]
         tbl == IF entry = "rule" THEN <<Symbol("#event", FALSE), Symbol("#frame", FALSE)>>
                ELSE IF entry = "fn" THEN Append(symbols, Symbol("#frame", FALSE)) ELSE <<>>
     IN scopes' = Append(scopes, lexicalScope(scopes, TRUE, entry, tbl))
  /\ Declared(scopes') <= MaxDecls
  /\ resolved' = None

\* A block, a branch, a loop, the body of an expression.
EnterScope ==
  /\ scopes # <<>> /\ Len(scopes) < MaxScopes
  /\ scopes' = Append(scopes, lexicalScope(scopes, FALSE, scopes[Len(scopes)].entry, <<>>))
  /\ resolved' = None

leaveScope ==
  /\ scopes # <<>>
  /\ scopes' = SubSeq(scopes, 1, Len(scopes) - 1)
  /\ resolved' = None

\* defLocalVar, defLocalConst: let, const, the variables of a loop and of an
\* exception.  A name that its scope has already is an error.
defLocal(name, const) ==
  /\ scopes # <<>> /\ Declared(scopes) < MaxDecls
  /\ LET n == Len(scopes)
     IN /\ found(n, name) = {} /\ scopes[prevTop(n)].maxLocal < MaxLocal
        /\ scopes' = [[scopes EXCEPT ![n].tbl = Append(@, Symbol(name, const))]
                        EXCEPT ![prevTop(n)].maxLocal = @ + 1]
  /\ resolved' = None

Use(name, write) ==
  /\ scopes # <<>>
  /\ Captured(scopes) < MaxUpvals
  /\ resolveSymbol(name, write)

ScopeInit == scopes = <<>> /\ resolved = None

ScopeNext ==
  \/ \E entry \in Entries, args \in BoundedSeq(Names, 1) : EnterTop(entry, args)
  \/ EnterScope
  \/ leaveScope
  \/ \E name \in Names, const \in BOOLEAN : defLocal(name, const)
  \/ \E name \in Names, write \in BOOLEAN : Use(name, write)

ScopeSpec == ScopeInit /\ [][ScopeNext]_scopeVars

-----------------------------------------------------------------------------
(* Properties. *)

\* The variables in reach of a position have slots of their own in the frame
\* of their function, none of them the slot of the saved frame, and all below
\* the size that the function reserves (pl/parser.go:120, 1247): an assignment
\* to one never changes another.  Configurations and sections reserve nothing.
SlotsApart ==
  \A j, k \in DOMAIN scopes :
    LET top == prevTop(k)
    IN prevTop(j) = top =>
         /\ \A a \in DOMAIN scopes[j].tbl, b \in DOMAIN scopes[k].tbl :
              slot(j, a) = slot(k, b) => j = k /\ a = b
         /\ scopes[top].entry # "section" =>
              \A b \in DOMAIN scopes[k].tbl : slot(k, b) < scopes[top].maxLocal

\* One step towards a captured variable: an entry on the stack names a slot of
\* the function around, any other an upvalue of it.
Hop(at) ==
  LET entry == scopes[at.top].upvalue[at.idx + 1]
  IN IF at.onStack THEN at
     ELSE [onStack |-> entry.onStack, top |-> prevTop(at.top - 1), idx |-> entry.index]

\* Where the upvalue of the last use leads at run time: the functions around
\* a position are no more than the scopes.
Chase[d \in 0..Len(scopes)] ==
  IF d = 0 THEN [onStack |-> FALSE, top |-> prevTop(Len(scopes)), idx |-> resolved.idx]
  ELSE Hop(Chase[d - 1])

\* A name means its innermost declaration, however many functions and scopes
\* lie in between, whether it is in a slot of the function or reached through
\* the upvalues of all functions on the way (pl/parser.go:462, 540).
InnermostWins ==
  LET decls == {k \in DOMAIN scopes : found(k, resolved.name) # {}}
      k == Max(decls)
      i == CHOOSE i \in found(k, resolved.name) : TRUE
      n == Len(scopes)
  IN resolved # None =>
       IF decls = {} THEN resolved.sort = "outer"
       ELSE IF prevTop(k) = prevTop(n)
            THEN /\ resolved.idx = slot(k, i)
                 /\ resolved.sort = IF resolved.write /\ scopes[k].tbl[i].const THEN "const" ELSE "local"
            ELSE /\ resolved.sort = "upvalue"
                 /\ Chase[n] = [onStack |-> TRUE, top |-> prevTop(k), idx |-> slot(k, i)]
=============================================================================
