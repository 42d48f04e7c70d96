---------------------------- MODULE ScriptModules ----------------------------
(***************************************************************************)
(* Modules of scripts (pl/parser.go, pl/module.go).  An import is compiled *)
(* in place, into the tables of the importing program: the functions and   *)
(* variables of a file have their plain names while it is parsed, and get  *)
(* the name of its module in front when its end is reached.  A name is     *)
(* looked up once, where it is used; a call whose name is unknown there is *)
(* looked up again at the end of the file.                                 *)
(*                                                                         *)
(* A program maps the path of each file to its module name and its steps:  *)
(* imports first, then sections, then functions, rules in the entry only,  *)
(* which is what the grammar allows.  The bodies of functions and rules    *)
(* are the names they use; local variables are in ScriptScopes.  A full    *)
(* name is a sequence: <<"m", "f">> is m::f.                               *)
(***************************************************************************)
EXTENDS Integers, Sequences, FiniteSets, SequencesExt

CONSTANTS
  Programs,  \* the programs that may be compiled
  Main       \* path of the entry file

Sorts == {"global", "session"}

\* What the grammar and the import resolution guarantee of a program.
WellFormed(p) ==
  /\ Main \in DOMAIN p
  /\ \A path \in DOMAIN p :
       LET steps == p[path].steps
       IN /\ p[path].name \in STRING /\ Len(steps) \in Nat /\ DOMAIN steps = 1..Len(steps)
          /\ \A i \in DOMAIN steps :
               CASE steps[i].k = "import" ->
                      steps[i].to \in DOMAIN p \ {Main} /\ \A j \in 1..i - 1 : steps[j].k = "import"
                 [] steps[i].k = "section" -> steps[i].sort \in Sorts /\ steps[i].names \in Seq(STRING)
                 [] steps[i].k = "fn" -> steps[i].name \in STRING
                 [] steps[i].k = "rule" -> path = Main
                 [] OTHER -> FALSE

ASSUME ProgramsAssumption == \A p \in Programs : WellFormed(p)

VARIABLES
  program,   \* the program that is compiled
  open,      \* the files being parsed, Main first; mlist is what follows it
  imported,  \* parser.importList: paths, in order
  fn,        \* Module.fn: functions and iterators
  events,    \* Module.eventMap: names of rules
  vars,      \* parser.globalVar and parser.sessVar
  uses,      \* the names used so far, and what each is linked to
  status     \* parsing, compiled, refused

moduleVars == <<program, open, imported, fn, events, vars, uses, status>>

ModName(path) == <<program[path].name>>

File == open[Len(open)]
Steps == program[File.path].steps
Step == Steps[File.pos]
AtStep(k) == status = "parsing" /\ File.pos <= Len(Steps) /\ Step.k = k
Advanced == [open EXCEPT ![Len(open)].pos = @ + 1]

\* The parser stops with an error.
Refuse == status' = "refused" /\ UNCHANGED <<program, open, imported, fn, events, vars, uses>>

-----------------------------------------------------------------------------
(* Imports. *)

\* startModule, after the declaration of the module in parseModDec.
Opened(path) ==
  [path |-> path, pos |-> 1, fIndex |-> Len(fn), vIndex |-> [s \in Sorts |-> Len(vars[s])]]

modPrefixExist(path) == \E i \in DOMAIN imported : ModName(imported[i]) = ModName(path)

\* importLoop: the file is being parsed.  The entry is not in the list.
importLoop(path) == \E i \in 2..Len(open) : open[i].path = path

\* A fault: a file is only known to be imported while it is parsed.
isImportedOpen(path) == importLoop(path)

isImported(path) == \E i \in DOMAIN imported : imported[i] = path

\* parseImportStmt, doImport up to the first statement of the module.
Import ==
  /\ AtStep("import")
  /\ LET path == Step.to
     IN IF importLoop(path) THEN Refuse
        ELSE IF isImported(path)
        THEN open' = Advanced /\ UNCHANGED <<program, imported, fn, events, vars, uses, status>>
        ELSE IF modPrefixExist(path) THEN Refuse
        ELSE /\ imported' = Append(imported, path)
             /\ open' = Append(Advanced, Opened(path))
             /\ UNCHANGED <<program, fn, events, vars, uses, status>>

-----------------------------------------------------------------------------
(* Names. *)

Link(k, idx) == [k |-> k, idx |-> idx]
Dynamic == Link("dynamic", 0)
named(name, s) == {i \in DOMAIN s : s[i].name = name}

\* getFnIndex, findSessionIdx, findGlobalIdx: the first entry, in this order.
resolve(name, funs) ==
  IF named(name, funs) # {} THEN Link("fn", Min(named(name, funs)))
  ELSE IF named(name, vars["session"]) # {} THEN Link("session", Min(named(name, vars["session"])))
  ELSE IF named(name, vars["global"]) # {} THEN Link("global", Min(named(name, vars["global"])))
  ELSE Dynamic

\* parseUnboundCall, parseLoadSymbol: a call of an unknown name waits in
\* callPatch, anything else is a dynamic variable.
Used(body, funs) ==
  [i \in DOMAIN body |->
     LET link == resolve(body[i].name, funs)
     IN [name |-> body[i].name, in |-> File.path,
         patched |-> link = Dynamic /\ body[i].call, link |-> link]]

\* patchAllCall: the list is never emptied, so that the calls of earlier files
\* are looked up again as well.
patchAllCall ==
  [i \in DOMAIN uses |->
     LET known == named(uses[i].name, fn)
     IN IF uses[i].patched
        THEN [uses[i] EXCEPT !.link = IF known # {} THEN Link("fn", Min(known)) ELSE Dynamic]
        ELSE uses[i]]

-----------------------------------------------------------------------------
(* Declarations. *)

\* parseGlobalScope, parseSessionScope: the variables are known when the
\* section ends.
Section ==
  /\ AtStep("section")
  /\ vars' = [vars EXCEPT ![Step.sort] =
                @ \o [i \in DOMAIN Step.names |-> [name |-> <<Step.names[i]>>, in |-> File.path]]]
  /\ open' = Advanced
  /\ UNCHANGED <<program, imported, fn, events, uses, status>>

\* parseFunction, parseIterator: the name is known in the body.
Function ==
  /\ AtStep("fn")
  /\ IF named(<<Step.name>>, fn) # {} THEN Refuse
     ELSE /\ fn' = Append(fn, [name |-> <<Step.name>>, in |-> File.path, of |-> Step.name])
          /\ uses' = uses \o Used(Step.uses, fn')
          /\ open' = Advanced
          /\ UNCHANGED <<program, imported, events, vars, status>>

Rule ==
  /\ AtStep("rule")
  /\ IF Step.name \in events THEN Refuse
     ELSE /\ events' = events \cup {Step.name}
          /\ uses' = uses \o Used(Step.uses, fn)
          /\ open' = Advanced
          /\ UNCHANGED <<program, imported, fn, vars, status>>

Prefixed(s, from, prefix) ==
  [i \in DOMAIN s |-> IF i > from THEN [s[i] EXCEPT !.name = prefix \o @] ELSE s[i]]

\* A fault: endModule renames all that the parser knows.
endModuleAll ==
  /\ fn' = Prefixed(fn, 0, ModName(File.path))
  /\ vars' = [s \in Sorts |-> Prefixed(vars[s], 0, ModName(File.path))]

\* endModule: what the file declared, and what the files imported by it did.
endModule ==
  /\ fn' = Prefixed(fn, File.fIndex, ModName(File.path))
  /\ vars' = [s \in Sorts |-> Prefixed(vars[s], File.vIndex[s], ModName(File.path))]

\* The end of parseModule, and of doImport.
EndModule ==
  /\ status = "parsing" /\ File.pos > Len(Steps) /\ Len(open) > 1
  /\ uses' = patchAllCall
  /\ endModule
  /\ open' = SubSeq(open, 1, Len(open) - 1)
  /\ UNCHANGED <<program, imported, events, status>>

\* The end of parseEntry.
EndEntry ==
  /\ status = "parsing" /\ File.pos > Len(Steps) /\ Len(open) = 1
  /\ uses' = patchAllCall
  /\ status' = "compiled"
  /\ UNCHANGED <<program, open, imported, fn, events, vars>>

ModuleInit ==
  /\ program \in Programs
  /\ open = <<[path |-> Main, pos |-> 1, fIndex |-> 0, vIndex |-> [s \in Sorts |-> 0]]>>
  /\ imported = <<>> /\ fn = <<>> /\ events = {} /\ uses = <<>>
  /\ vars = [s \in Sorts |-> <<>>]
  /\ status = "parsing"

ModuleNext == Import \/ Section \/ Function \/ Rule \/ EndModule \/ EndEntry

ModuleSpec == ModuleInit /\ [][ModuleNext]_moduleVars

-----------------------------------------------------------------------------
(* Properties. *)

Declares(path, k, n) ==
  \E i \in DOMAIN program[path].steps :
    LET s == program[path].steps[i]
    IN CASE s.k = "fn" -> k = "fn" /\ s.name = n
         [] s.k = "section" -> s.sort = k /\ \E j \in DOMAIN s.names : s.names[j] = n
         [] OTHER -> FALSE

\* The file that a full name used in path means, by the documented rules: its
\* own names, and those of a module under the name that the module declares.
Meant(name, path) ==
  IF Len(name) = 1 THEN {path}
  ELSE {q \in DOMAIN program \ {Main} : ModName(q) = Front(name) /\ q \in ToSet(imported)}

\* A name that is linked means what it says, and keeps meaning it while the
\* names in the tables change under it and calls are looked up again; in a
\* compiled program no name of a declared function or variable is left
\* dynamic (pl/parser.go:3427, 860; doc/pl-cn.md:887).
LinkedAsWritten ==
  \A i \in DOMAIN uses :
    LET use == uses[i]
        n == Last(use.name)
    IN CASE use.link.k = "fn" ->
              fn[use.link.idx].of = n /\ fn[use.link.idx].in \in Meant(use.name, use.in)
         [] use.link.k \in Sorts -> vars[use.link.k][use.link.idx].in \in Meant(use.name, use.in)
         [] OTHER ->
              status = "compiled" =>
                \A q \in Meant(use.name, use.in), k \in Sorts \cup {"fn"} : ~Declares(q, k, n)

ImportsOf(path) ==
  {program[path].steps[i].to : i \in {j \in DOMAIN program[path].steps : program[path].steps[j].k = "import"}}

\* What the documentation forbids is refused, and nothing else: a cycle of
\* imports, two modules or functions of one name.  Importing a file over several
\* paths is allowed.  So no two functions end up with one full name, which is
\* all they can be looked up by (pl/parser.go:711, 728, 825; doc/pl-cn.md:886).
RefusedForCause ==
  /\ \A i, j \in DOMAIN fn : fn[i].name = fn[j].name => i = j
  /\ status = "refused" =>
    \/ \E i \in 2..Len(open) : open[i].path \in ImportsOf(File.path)
    \/ \E p, q \in DOMAIN program \ {Main} : p # q /\ program[p].name = program[q].name
    \/ LET kinds == {"fn", "rule"}
           steps == program[File.path].steps
       IN \E i, j \in DOMAIN steps : i # j /\ steps[i].k = steps[j].k /\ steps[i].k \in kinds /\ steps[i].name = steps[j].name
=============================================================================
