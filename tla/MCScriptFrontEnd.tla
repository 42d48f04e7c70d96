-------------------------- MODULE MCScriptFrontEnd --------------------------
(* The parts of the script front end that share no state, side by side: a   *)
(* behaviour is one of scopes, of modules, or of a prototype.               *)
EXTENDS ScriptScopes, MCScriptModules, MCFuncProto

VARIABLE part

frontVars == <<part, scopeVars, moduleVars, protoVars>>

ModulesIdle ==
  /\ program = <<>> /\ open = <<>> /\ imported = <<>> /\ fn = <<>> /\ events = {} /\ uses = <<>>
  /\ vars = <<>> /\ status = "idle"

ProtoIdle ==
  /\ wanted = <<>> /\ descriptor = <<>> /\ cursor = 0 /\ proto = <<>> /\ case = <<>> /\ group = <<>>
  /\ phase = "idle"

(* The code of the scripts that the virtual machine runs in MCScriptVM is     *)
(* what the theorems of ScriptVM_proofs ask for.                             *)
Scripts == INSTANCE MCScripts
Verifier == INSTANCE ScriptVerifier
ASSUME ScriptsVerified == \A m \in Scripts!MCModules : Verifier!Verified(m)

Init ==
  \/ part = "scopes" /\ ScopeInit /\ ModulesIdle /\ ProtoIdle
  \/ part = "modules" /\ ScopeInit /\ ModuleInit /\ ProtoIdle
  \/ part = "prototype" /\ ScopeInit /\ ModulesIdle /\ ProtoInit

Next ==
  \/ part = "scopes" /\ ScopeNext /\ UNCHANGED <<part, moduleVars, protoVars>>
  \/ part = "modules" /\ ModuleNext /\ UNCHANGED <<part, scopeVars, protoVars>>
  \/ part = "prototype" /\ ProtoNext /\ UNCHANGED <<part, scopeVars, moduleVars>>

Spec == Init /\ [][Next]_frontVars
=============================================================================
