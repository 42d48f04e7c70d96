--------------------------- MODULE MCScriptModules ---------------------------
(* Programs of an entry and up to three modules. *)
EXTENDS ScriptModules

Import_(p) == [k |-> "import", to |-> p]
Fn(n, us) == [k |-> "fn", name |-> n, uses |-> us]
Rule_(n, us) == [k |-> "rule", name |-> n, uses |-> us]
Sect(sort, ns) == [k |-> "section", sort |-> sort, names |-> ns]
Call(n) == [name |-> n, call |-> TRUE]
Load(n) == [name |-> n, call |-> FALSE]

ModulePaths == {"a", "b", "c"}
ImportLists == [a : {<<>>, <<"b">>, <<"c">>, <<"b", "c">>},
                b : {<<>>, <<"c">>, <<"c", "c">>, <<"a">>},
                c : {<<>>, <<"c">>}]
EntryLists == {<<>>} \cup {<<p>> : p \in ModulePaths} \cup {<<p, q>> : p, q \in ModulePaths}
              \cup {<<p, q, r>> : p, q, r \in ModulePaths}

\* Modules that a module reaches by imports.
Reached(il, p) ==
  LET direct(s) == s \cup UNION {ToSet(il[q]) : q \in s}
  IN direct(direct(direct({p}))) 

\* A file names another module only if the entry imports that one before any
\* that reaches it, or no other file imports it.
Names_(il, el, p, q) ==
  \/ \E i \in DOMAIN el : el[i] = q /\ \A j \in 1..i - 1 : q \notin Reached(il, el[j])
  \/ q \notin ToSet(el) /\ \A r \in ModulePaths : q \in ToSet(il[r]) => r = p

\* The names of other modules that a file uses: functions and variables.
Foreign(name, il, el, p, list) ==
  FlattenSeq([i \in DOMAIN list |->
    IF Names_(il, el, p, list[i])
    THEN <<Call(<<name[list[i]], "f">>), Load(<<name[list[i]], "x">>)>> ELSE <<>>])

ModuleBody(name, il, el, p, sort) ==
  [i \in DOMAIN il[p] |-> Import_(il[p][i])]
    \o <<Sect(sort, <<"x">>), Fn("f", <<Load(<<"x">>), Call(<<"f">>)>> \o Foreign(name, il, el, p, il[p])),
         Fn("g", <<Call(<<"f">>), Load(<<"f">>), Call(<<"y">>)>>)>>

EntryBody(name, il, el, twice) ==
  [i \in DOMAIN el |-> Import_(el[i])]
    \o <<Rule_("r", <<Call(<<"g">>), Call(<<"x">>)>> \o Foreign(name, il, el, "main", el)),
         Fn("f", <<Call(<<"g">>), Call(<<"h">>)>>), Fn("g", <<Call(<<"f">>)>>)>>
    \o (IF twice THEN <<Rule_("r", <<>>)>> ELSE <<>>)

Compile(name, il, el, twice, sort) ==
  [p \in ModulePaths \cup {"main"} |->
     IF p = "main" THEN [name |-> "", steps |-> EntryBody(name, il, el, twice)]
     ELSE [name |-> name[p], steps |-> ModuleBody(name, il, el, p, sort)]]

MCPrograms ==
  {Compile(name, il, el, twice, sort) :
     name \in {[a |-> "m", b |-> "n", c |-> "k"], [a |-> "m", b |-> "n", c |-> "m"]},
     il \in ImportLists, el \in EntryLists, twice \in BOOLEAN, sort \in {"global", "session"}}
=============================================================================
