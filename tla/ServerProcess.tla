---------------------------- MODULE ServerProcess ----------------------------
(* main (cmd/main.go): the start of the process, then Server.Run with the    *)
(* listeners that the start has made.                                        *)
EXTENDS Startup, ServerRun

processVars == <<startVars, vars>>

ASSUME OneCounter == \A c \in CommandLines : Len(c.listeners) = N

ProcessInit == StartInit /\ Init

\* The first callback of a Redis listener that was given an HTTP virtual host:
\* its type assertion fails in a goroutine of redcon, which nothing recovers.
FirstConnection ==
  /\ phase = "running"
  /\ \E g \in Serving : Misfilled(listeners[runs[g]])
  /\ Ends("panicked") /\ UNCHANGED vars

ProcessNext ==
  \/ StartNext /\ UNCHANGED vars
  \/ phase = "running" /\ Next /\ UNCHANGED startVars
  \/ FirstConnection

ProcessSpec == ProcessInit /\ [][ProcessNext]_processVars
=============================================================================
