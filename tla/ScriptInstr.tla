----------------------------- MODULE ScriptInstr -----------------------------
(* The instructions that only work on the value stack (pl/eval.go, runP):    *)
(* how many values each pops and pushes.                                     *)
EXTENDS Integers, Sequences

Plain(op, pops, pushes) == [op |-> op, pops |-> pops, pushes |-> pushes]
PlainInstr(arg) ==
  {Plain("LoadConst", 0, 1), Plain("LoadLocal", 0, 1), Plain("LoadVar", 0, 1),
   Plain("LoadSession", 0, 1), Plain("LoadGlobal", 0, 1), Plain("LoadException", 0, 1),
   Plain("NewClosure", 0, 1), Plain("NewList", 0, 1), Plain("NewMap", 0, 1),
   Plain("Not", 1, 1), Plain("Negate", 1, 1), Plain("Bin", 2, 1), Plain("NewPair", 2, 1),
   Plain("Index", 2, 1), Plain("IndexSet", 3, 0), Plain("Dot", 1, 1), Plain("DotSet", 2, 0),
   Plain("Dup1", 0, 1), Plain("Dup2", 0, 2), Plain("Swap", 2, 2),
   Plain("LoadMethod", 1, 1), Plain("ToStr", 1, 1), Plain("Template", 1, 1),
   Plain("StoreLocal", 1, 0), Plain("StoreVar", 1, 0), Plain("StoreSession", 1, 0),
   Plain("StoreGlobal", 1, 0), Plain("SetSession", 1, 0), Plain("SetGlobal", 1, 0),
   Plain("Pop", 1, 0), Plain("Action", 1, 0), Plain("Emit", 2, 0), Plain("ConfigPropertySet", 2, 0),
   Plain("ReserveLocal", 0, arg), Plain("AddList", arg, 0), Plain("ConStr", arg, 1),
   Plain("AddMap", 2 * arg, 0), Plain("ConfigCommand", arg + 1, 0)}

\* A program with variables of the functions around it (program.freeCall).
NeedsClosure(m, p) == \E i \in 1 .. Len(m[p].code) : m[p].code[i].op \in {"LoadUpvalue", "StoreUpvalue"}
=============================================================================
