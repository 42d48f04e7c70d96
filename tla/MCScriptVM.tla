----------------------------- MODULE MCScriptVM -----------------------------
(* The virtual machine on the scripts of MCScripts.                          *)
EXTENDS ScriptVM, MCScripts
=============================================================================
