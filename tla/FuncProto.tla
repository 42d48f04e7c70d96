------------------------------ MODULE FuncProto ------------------------------
(***************************************************************************)
(* Prototypes of native functions (pl/func_proto.go): a descriptor such as *)
(* {%d}{%s(%d|%n)*} is compiled when a function is registered, and every   *)
(* call of the function from a script is checked against it.               *)
(*                                                                         *)
(* A descriptor is a sequence of tokens: a type ("%d"), a type name        *)
(* ("[t]"), a byte count ("1", "2", "4", "8"), "*", and the brackets.      *)
(* compile goes through them one element at a time.                        *)
(***************************************************************************)
EXTENDS Integers, Sequences, FiniteSets, SequencesExt

CONSTANTS
  Prototypes,  \* what descriptors may describe: sequences of cases
  Arguments    \* sequences of values that scripts may pass

VARIABLES
  wanted,      \* what the descriptor describes
  descriptor,  \* its tokens
  cursor,
  proto,       \* FuncProto: the cases, and the flags noarg and alwayspass
  case,        \* the argpcase that is compiled
  group,       \* the alternatives of the group that is compiled
  phase        \* compile, case, group, compiled, refused

protoVars == <<wanted, descriptor, cursor, proto, case, group, phase>>

\* What a value shows to a prototype.
Values == {"0", "-1", "1.5", "-1.5", "", "str", "true", "false", "null", "map", "list", "pair",
           "regexp", "t", "u", "native", "script", "method", "iterator"}

Elem(type, bytes, tname) == [type |-> type, bytes |-> bytes, tname |-> tname]
NoElem == Elem("", "", "")
EmptyCase == [d |-> <<>>, noarg |-> FALSE, varlen |-> FALSE]

TypeTokens == {"%d", "%u", "%f", "%F", "%s", "%S", "%b", "%Y", "%N", "%n", "%m", "%p", "%l", "%r",
               "%U", "%c", "%C", "%R", "%M", "%a", "%0"}
ByteMarks == {"1", "2", "4", "8"}

\* Types as they may be written: with the byte count of a number, or with a
\* type name of a user value.
Elems ==
  {e \in [type : TypeTokens \ {"%0"}, bytes : ByteMarks \cup {""}, tname : {"", "t"}] :
     /\ e.bytes # "" => e.type \in {"%d", "%u", "%f", "%F"} /\ (e.type = "%F" => e.bytes \in {"4", "8"})
     /\ e.tname # "" => e.type = "%U"}

\* A case has a list of alternatives for each argument, and only a single
\* type may be repeated.
WrittenCases ==
  {c \in [d : Seq(Seq(Elems)), noarg : BOOLEAN, varlen : BOOLEAN] :
     /\ \A k \in DOMAIN c.d : c.d[k] # <<>>
     /\ c.noarg => c.d = <<>>
     /\ c.varlen /\ ~c.noarg => c.d # <<>> /\ Len(Last(c.d)) = 1}

\* Any arguments: %- is for a whole descriptor only.
Always == <<[EmptyCase EXCEPT !.d = <<<<Elem("%-", "", "")>>>>]>>

ASSUME PrototypesAssumption == \A p \in Prototypes : p = Always \/ (p \in Seq(WrittenCases) /\ p # <<>>)
ASSUME ArgumentsAssumption == Arguments \subseteq Seq(Values)

Token(at) == IF at \in DOMAIN descriptor THEN descriptor[at] ELSE "end"

-----------------------------------------------------------------------------
(* compile. *)

\* compT at a position: the element, whether a * follows, and the position
\* behind.  A byte count of a real number is read but has no effect.
compT(at) ==
  LET type == Token(at)
      next == Token(at + 1)
      named == next = "[t]"
      marked == next \in ByteMarks
      star == at + (IF named \/ marked THEN 2 ELSE 1)
      vlen == Token(star) = "*"
      ok == /\ type \in TypeTokens
            /\ named => type = "%U"
            /\ marked => type \in {"%d", "%u", "%f", "%F"} /\ (type = "%F" => next \in {"4", "8"})
            /\ vlen => Token(star + 1) \in {"}", "end"}
  IN [ok |-> ok, vlen |-> vlen, behind |-> star + (IF vlen THEN 1 ELSE 0),
      elem |-> Elem(type, IF marked /\ type # "%f" THEN next ELSE "", IF named THEN "t" ELSE "")]

Refused == phase' = "refused" /\ UNCHANGED <<wanted, descriptor, cursor, proto, case, group>>

\* The descriptors of no arguments and of any arguments are known as they are.
Known == descriptor \in {<<>>, <<"%0">>, <<"%-">>}
Finish ==
  /\ phase = "compile" /\ (Known \/ cursor > Len(descriptor))
  /\ proto' = [proto EXCEPT !.noarg = descriptor \in {<<>>, <<"%0">>}, !.alwayspass = descriptor = <<"%-">>]
  /\ phase' = "compiled"
  /\ UNCHANGED <<wanted, descriptor, cursor, case, group>>

\* The next case, in braces or not.
StartCase ==
  /\ phase = "compile" /\ ~Known /\ cursor <= Len(descriptor)
  /\ cursor' = IF Token(cursor) = "{" THEN cursor + 1 ELSE cursor
  /\ case' = EmptyCase
  /\ phase' = "case"
  /\ UNCHANGED <<wanted, descriptor, proto, group>>

EndCase ==
  /\ phase = "case" /\ Token(cursor) \in {"}", "end"}
  /\ cursor' = cursor + 1
  /\ proto' = [proto EXCEPT !.d = Append(@, case)]
  /\ phase' = "compile"
  /\ UNCHANGED <<wanted, descriptor, case, group>>

\* compCase: an argument.  %0 adds none, and nothing but a group may follow.
Argument ==
  /\ phase = "case" /\ Token(cursor) \notin {"}", "end", "("}
  /\ LET c == compT(cursor)
     IN IF case.noarg \/ ~c.ok \/ (c.elem.type = "%0" /\ case.d # <<>>) THEN Refused
        ELSE /\ case' = [d |-> IF c.elem.type = "%0" THEN case.d ELSE Append(case.d, <<c.elem>>),
                         noarg |-> c.elem.type = "%0", varlen |-> case.varlen \/ c.vlen]
             /\ cursor' = c.behind
             /\ UNCHANGED <<wanted, descriptor, proto, group, phase>>

OpenGroup ==
  /\ phase = "case" /\ Token(cursor) = "("
  /\ cursor' = cursor + 1 /\ group' = <<>> /\ phase' = "group"
  /\ UNCHANGED <<wanted, descriptor, proto, case>>

\* compCase in a group.
Alternative ==
  /\ phase = "group"
  /\ LET c == compT(cursor)
     IN IF ~c.ok \/ c.vlen \/ c.elem.type = "%0" \/ Token(c.behind) \notin {"|", ")"} THEN Refused
        ELSE /\ cursor' = c.behind + 1
             /\ IF Token(c.behind) = "|"
                THEN group' = Append(group, c.elem) /\ UNCHANGED <<case, phase>>
                ELSE /\ case' = [case EXCEPT !.d = Append(@, Append(group, c.elem))]
                     /\ phase' = "case"
                     /\ group' = <<>>
             /\ UNCHANGED <<wanted, descriptor, proto>>

-----------------------------------------------------------------------------
(* Check. *)

\* check0: the values of an element.
check0(e, v) ==
  CASE e.type = "%a" -> TRUE
    [] e.type = "%d" -> v \in {"0", "-1"}
    [] e.type = "%u" -> v = "0"
    [] e.type = "%f" -> v \in {"1.5", "-1.5"}
    [] e.type = "%F" -> v = "1.5"
    [] e.type = "%s" -> v \in {"", "str"}
    [] e.type = "%S" -> v = "str"
    [] e.type = "%b" -> v \in {"true", "false"}
    [] e.type = "%Y" -> v = "true"
    [] e.type = "%N" -> v = "false"
    [] e.type = "%n" -> v = "null"
    [] e.type = "%m" -> v = "map"
    [] e.type = "%p" -> v = "pair"
    [] e.type = "%l" -> v = "list"
    [] e.type = "%r" -> v = "regexp"
    [] e.type = "%U" -> v = "t" \/ (v = "u" /\ e.tname = "")
    [] e.type = "%c" -> v \in {"native", "script", "method"}
    [] e.type = "%C" -> v = "script"
    [] e.type = "%R" -> v = "native"
    [] e.type = "%M" -> v = "method"
    [] OTHER -> FALSE

check1(alternatives, v) == \E i \in DOMAIN alternatives : check0(alternatives[i], v)

\* doCheck: the arguments beyond the last declared are like that one.
doCheck(c, args) ==
  IF c.noarg THEN args = <<>>
  ELSE /\ Len(args) < Len(c.d) => c.varlen /\ Len(args) = Len(c.d) - 1
       /\ Len(args) > Len(c.d) => c.varlen
       /\ \A i \in DOMAIN args : check1(c.d[IF i > Len(c.d) THEN Len(c.d) ELSE i], args[i])

\* A fault: the first case with the right number of arguments decides.
CheckFirst(args) ==
  IF proto.alwayspass THEN TRUE
  ELSE IF proto.noarg THEN args = <<>>
  ELSE LET fitting == {i \in DOMAIN proto.d :
                         Len(args) = Len(proto.d[i].d) \/ (Len(args) > Len(proto.d[i].d) /\ proto.d[i].varlen)}
       IN fitting # {} /\ doCheck(proto.d[Min(fitting)], args)

\* Check and Pack: the first case that accepts decides.
Check(args) ==
  IF proto.alwayspass THEN TRUE
  ELSE IF proto.noarg THEN args = <<>>
  ELSE \E i \in DOMAIN proto.d :
         /\ Len(args) = Len(proto.d[i].d) \/ (Len(args) > Len(proto.d[i].d) /\ proto.d[i].varlen)
         /\ doCheck(proto.d[i], args)

-----------------------------------------------------------------------------

\* The descriptor of a prototype, with braces around each case if there is
\* more than one or they are asked for.
ElemTokens(e) ==
  <<e.type>> \o (IF e.bytes = "" THEN <<>> ELSE <<e.bytes>>) \o (IF e.tname = "" THEN <<>> ELSE <<"[t]">>)
GroupTokens(or) ==
  IF Len(or) = 1 THEN ElemTokens(or[1])
  ELSE <<"(">> \o FlattenSeq([i \in DOMAIN or |-> ElemTokens(or[i]) \o <<IF i = Len(or) THEN ")" ELSE "|">>])
CaseTokens(c) ==
  (IF c.noarg THEN <<"%0">> ELSE FlattenSeq([i \in DOMAIN c.d |-> GroupTokens(c.d[i])]))
    \o (IF c.varlen THEN <<"*">> ELSE <<>>)
Described(p, braces) ==
  IF ~braces /\ Len(p) = 1 THEN CaseTokens(p[1])
  ELSE FlattenSeq([i \in DOMAIN p |-> <<"{">> \o CaseTokens(p[i]) \o <<"}">>])

ProtoInit ==
  /\ wanted \in Prototypes
  /\ \E braces \in BOOLEAN : (wanted = Always => ~braces) /\ descriptor = Described(wanted, braces)
  /\ cursor = 1 /\ case = EmptyCase /\ group = <<>> /\ phase = "compile"
  /\ proto = [d |-> <<>>, noarg |-> FALSE, alwayspass |-> FALSE]

ProtoNext == Finish \/ StartCase \/ EndCase \/ Argument \/ OpenGroup \/ Alternative

ProtoSpec == ProtoInit /\ [][ProtoNext]_protoVars

-----------------------------------------------------------------------------
(* Properties. *)

\* What the comment at the head of the file promises (pl/func_proto.go:9-55):
\* one case has as many arguments, or more with a *, and each of them is of
\* one of the types at its place, the last for those beyond.
Promised(p, args) ==
  p = Always \/ \E i \in DOMAIN p :
    LET c == p[i]
    IN IF c.noarg THEN args = <<>>
       ELSE /\ Len(args) = Len(c.d) \/ (c.varlen /\ Len(args) > Len(c.d))
            /\ \A k \in DOMAIN args :
                 \E e \in ToSet(IF k \in DOMAIN c.d THEN c.d[k] ELSE Last(c.d)) : check0(e, args[k])

\* Any descriptor that is well formed compiles, and a call passes the check
\* exactly when its arguments are what the descriptor describes: overloads,
\* groups and repetition do not get mixed up (pl/func_proto.go:562, 812, 907).
\* Of a variable tail two comments disagree: "at least 2 arguments" for %d%m*
\* (lines 53-55), "zero optional arguments" for %s%a* (lines 826-829, in
\* doCheck).  Check lets no call with too few arguments reach doCheck (line
\* 938): the property takes the first, and the second is not what happens.
ChecksAsDescribed ==
  /\ phase # "refused"
  /\ phase = "compiled" => \A args \in Arguments : Check(args) = Promised(wanted, args)
=============================================================================
