------------------------------- MODULE Startup -------------------------------
(***************************************************************************)
(* The start of the process, up to Server.Run: the listeners of the        *)
(* command line (cmd/main.go, server/server.go), then each virtual host    *)
(* (http/vhost and redis/vhost, new_vhost.go and vhost.go) with the        *)
(* services of its directory (http/vhost/vhs.go).  Each script configures  *)
(* what it belongs to: its configuration section calls a builder once per  *)
(* scope that opens or closes, per property and per command.               *)
(*                                                                         *)
(* Any error that its script does not catch ends the process before a      *)
(* listener runs.  A Redis virtual host that names an HTTP listener        *)
(* panics in a type assertion, a router with "]" before "[" in a slice     *)
(* expression.                                                             *)
(***************************************************************************)
EXTENDS Integers, Sequences, FiniteSets, SequencesExt

CONSTANT CommandLines  \* the command lines, with the scripts in the directories

Types == {"http", "redis"}
Fallible == {"push", "set", "cmd", "raise"}
Instructions == Fallible \cup {"pop", "caught"}

\* What flags and manifests make of a command line: main loads the HTTP
\* directories before the Redis ones.
IsList(s) == Len(s) \in Nat /\ DOMAIN s = 1..Len(s)
IsScript(s) ==
  /\ IsList(s.ops)
  /\ \A i \in DOMAIN s.ops :
       s.ops[i].k \in Instructions /\ (s.ops[i].k = "caught" => s.ops[i].of.k \in Fallible)
ASSUME CommandLinesAssumption ==
  \A c \in CommandLines :
    /\ IsList(c.listeners) /\ IsList(c.hosts)
    /\ \A i \in DOMAIN c.hosts :
         /\ c.hosts[i].type \in Types /\ IsScript(c.hosts[i].main) /\ IsList(c.hosts[i].services)
         /\ \A k \in DOMAIN c.hosts[i].services : IsScript(c.hosts[i].services[k])
         /\ \A j \in 1..i - 1 : c.hosts[j].type = "redis" => c.hosts[i].type = "redis"

VARIABLES
  cmd,        \* the command line
  phase,      \* listeners, load, config, add, running, exited, panicked
  host,       \* index of the virtual host being made
  script,     \* 0 for its main script, or the index of a service
  pos,        \* next instruction of the configuration section
  builder,    \* the builder of the script, with the configuration it fills
  made,       \* the virtual host being made
  listeners   \* Server.listener, each with its virtual hosts

startVars == <<cmd, phase, host, script, pos, builder, made, listeners>>

-----------------------------------------------------------------------------
(* Scripts, as the instructions that a configuration section executes:     *)
(* [k |-> "push", name], [k |-> "pop"], [k |-> "set", name, val],           *)
(* [k |-> "cmd", name], and [k |-> "raise"], an expression that fails.  One *)
(* that fails in a try block is [k |-> "caught", of |-> the instruction],   *)
(* and what comes next is the else block; the pops of the scopes that the   *)
(* exception left do not come at all.                                       *)

Inner == {"request", "response", "application"}

Strings(kind) ==
  CASE kind = "http" -> {"name", "comment", "server_name", "listener", "log_format"}
    [] kind = "redis" -> {"name", "comment", "listener", "log_format"}
    [] kind = "service" -> {"name", "tag", "comment", "router"}
PoolNumbers == {"http_client_pool_max_size", "http_client_pool_timeout", "http_client_pool_max_drain_size"}
Numbers(kind) ==
  CASE kind = "http" -> PoolNumbers
    [] kind = "redis" -> PoolNumbers \cup {"session_cache_size"}
    [] kind = "service" -> {"max_session_cache_size"}
Outermost(kind) ==
  CASE kind = "http" -> "http_vhost" [] kind = "redis" -> "redis_vhost" [] kind = "service" -> "service"

\* propSetString, propSetInt: a number has a string form, a list has none.
Settable(kind, name, val) ==
  \/ name \in Strings(kind) /\ val # "[]"
  \/ name \in Numbers(kind) /\ val = "1"

Fields(kind) == [name \in Strings(kind) \cup Numbers(kind) |-> ""]
NoBuilder == [scopes |-> <<>>, fields |-> <<>>, request |-> <<>>, response |-> <<>>, application |-> ""]

Host == cmd.hosts[host]
Kind == IF script = 0 THEN Host.type ELSE "service"
Script == IF script = 0 THEN Host.main ELSE Host.services[script]
Instr == Script.ops[pos]

AtInstr(k) == phase = "config" /\ pos <= Len(Script.ops) /\ Instr.k = k
AtEnd == phase = "config" /\ pos > Len(Script.ops)

Ends(as) == phase' = as /\ UNCHANGED <<cmd, host, script, pos, builder, made, listeners>>
Exit == Ends("exited")


Configured(b) ==
  /\ builder' = b
  /\ pos' = pos + 1
  /\ UNCHANGED <<cmd, phase, host, script, made, listeners>>

-----------------------------------------------------------------------------
(* The builders. *)

Scope == IF builder.scopes = <<>> THEN "" ELSE Last(builder.scopes)

\* PushConfig: a virtual host has one scope at a time, a service has scopes
\* for its middlewares and its application inside.
Opens(op) ==
  \/ Scope = "" /\ op.name = Outermost(Kind)
  \/ Scope = "service" /\ op.name \in Inner
PushConfig ==
  /\ AtInstr("push")
  /\ IF Opens(Instr) THEN Configured([builder EXCEPT !.scopes = Append(@, Instr.name)]) ELSE Exit

\* A fault: closing one scope closes all.
PopConfigAll == AtInstr("pop") /\ Configured([builder EXCEPT !.scopes = <<>>])

PopConfig == AtInstr("pop") /\ Configured([builder EXCEPT !.scopes = Front(@)])

\* ConfigProperty: in the outermost scope only, with its known names.
Sets(op) == Scope = Outermost(Kind) /\ Settable(Kind, op.name, op.val)
ConfigProperty ==
  /\ AtInstr("set")
  /\ IF Sets(Instr) THEN Configured([builder EXCEPT !.fields[Instr.name] = Instr.val]) ELSE Exit

\* ConfigCommand: middlewares are listed, the last application is kept.
ConfigCommand ==
  /\ AtInstr("cmd")
  /\ CASE Scope = "request" -> Configured([builder EXCEPT !.request = Append(@, Instr.name)])
       [] Scope = "response" -> Configured([builder EXCEPT !.response = Append(@, Instr.name)])
       [] Scope = "application" -> Configured([builder EXCEPT !.application = Instr.name])
       [] OTHER -> Exit

ConfigRaises == AtInstr("raise") /\ Exit

\* The builder refuses an instruction in a try block, or its expression
\* fails, and the else block catches the error: the builder stays as it is,
\* with the scopes that are open in it.
ConfigCaught ==
  /\ AtInstr("caught")
  /\ CASE Instr.of.k = "push" -> ~Opens(Instr.of)
       [] Instr.of.k = "set" -> ~Sets(Instr.of)
       [] Instr.of.k = "cmd" -> Scope \notin Inner
       [] Instr.of.k = "raise" -> TRUE
  /\ Configured(builder)

-----------------------------------------------------------------------------
(* Factories that are registered by init functions. *)

RequestFactories == {"event", "header_add", "header_set", "header_del"}
ResponseFactories == RequestFactories \cup {"response", "echo", "random"}
ApplicationFactories == {"event", "noop", "body_sign", "concate"}

\* alog.CompileFormat accepts the string.
FormatOk(s) == s # "%"

\* The places of the first "[" and the first "]" in a router, 0 for none.
Brackets(s) ==
  CASE s = "[*]/" -> [open |-> 1, close |-> 3]
    [] s = "[get,put]/a/*" -> [open |-> 1, close |-> 9]
    [] s = "]/[" -> [open |-> 3, close |-> 1]
    [] s = "[*" -> [open |-> 1, close |-> 0]
    [] OTHER -> [open |-> 0, close |-> 0]

\* newRouter cuts the methods out between the brackets, whichever comes first.
newRouter(s) ==
  LET at == Brackets(s)
  IN IF at.open = 0 \/ at.close = 0 THEN "error"
     ELSE IF at.close < at.open THEN "panic" ELSE "ok"

-----------------------------------------------------------------------------
(* main. *)

\* ParseListenerConfig: only the JSON form insists on its two names.
ParseListenerConfig(a) ==
  /\ a.type \in Types /\ a.wellFormed
  /\ a.form = "json" => a.name # "" /\ a.endpoint # ""

\* fac.New of a Redis listener reads the certificate, if it has one.
newListener(a) == a.type = "redis" => a.certificate # "bad"

\* parseListenerConfig and NewServer: all configurations, then all listeners.
NewServer ==
  /\ phase = "listeners"
  /\ IF \E i \in DOMAIN cmd.listeners :
          ~ParseListenerConfig(cmd.listeners[i]) \/ ~newListener(cmd.listeners[i])
     THEN Exit
     ELSE /\ listeners' = [i \in DOMAIN cmd.listeners |->
                             [type |-> cmd.listeners[i].type, name |-> cmd.listeners[i].name, hosts |-> <<>>]]
          /\ phase' = "load"
          /\ UNCHANGED <<cmd, host, script, pos, builder, made>>

\* initVHost, initVHostSVC and initmodule up to OnConfig: the script is read,
\* compiled, and its global section is run.
LoadScript ==
  /\ phase = "load" /\ host <= Len(cmd.hosts)
  /\ IF ~Script.compiles THEN Exit
     ELSE /\ builder' = [NoBuilder EXCEPT !.fields = Fields(Kind)]
          /\ pos' = 1 /\ phase' = "config"
          /\ UNCHANGED <<cmd, host, script, made, listeners>>

\* After the script of a virtual host or a service: the next service, if
\* there is one.  A Redis virtual host has none.
NextScript ==
  /\ script' = script + 1
  /\ phase' = IF Host.type = "http" /\ script < Len(Host.services) THEN "load" ELSE "add"

ComposeVHost ==
  /\ AtEnd /\ script = 0
  /\ IF ~FormatOk(builder.fields["log_format"]) THEN Exit
     ELSE /\ made' = [type |-> Host.type, config |-> builder.fields, services |-> <<>>]
          /\ NextScript
          /\ UNCHANGED <<cmd, host, pos, builder, listeners>>

\* The service that the builder's configuration composes to.
ComposedService ==
  [config |-> builder.fields, request |-> builder.request, response |-> builder.response,
   application |-> builder.application]
ServiceRefused ==
  \/ ~(ToSet(builder.request) \subseteq RequestFactories)
  \/ ~(ToSet(builder.response) \subseteq ResponseFactories)
  \/ builder.application \notin ApplicationFactories
  \/ newRouter(builder.fields["router"]) = "error"

Composed(services) ==
  IF ServiceRefused THEN Exit
  ELSE IF newRouter(builder.fields["router"]) = "panic" THEN Ends("panicked")
  ELSE /\ made' = [made EXCEPT !.services = services]
       /\ NextScript
       /\ UNCHANGED <<cmd, host, pos, builder, listeners>>

\* A fault: all routes of a virtual host close over one variable.
ComposeServiceShared ==
  AtEnd /\ script > 0 /\ Composed([i \in 1..script |-> ComposedService])

\* vHSConfig.Compose, newRouter, and the list of services.
ComposeService ==
  AtEnd /\ script > 0 /\ Composed(Append(made.services, ComposedService))

\* Server.getListener: the first of the name, 0 if there is none.
getListener(name) ==
  LET named == {i \in DOMAIN listeners : listeners[i].name = name}
  IN IF named = {} THEN 0 ELSE Min(named)

\* vhostlist.add, and AddVHost of a Redis listener, which has one slot.
NameTaken(l, v) ==
  \E i \in DOMAIN l.hosts :
    \/ l.hosts[i].config["name"] = v.config["name"]
    \/ l.type = "http" /\ l.hosts[i].config["server_name"] = v.config["server_name"]

\* The type assertions: an HTTP listener makes one on the new virtual host, a
\* Redis listener on the one it has; what it stores is not looked at.
Misfilled(l) == l.type = "redis" /\ l.hosts # <<>> /\ l.hosts[1].type # "redis"
AssertionFails(l, v) == Misfilled(l) \/ (l.type = "http" /\ v.type # "http")

AddVirtualHost ==
  /\ phase = "add"
  /\ LET i == getListener(made.config["listener"])
     IN IF i = 0 THEN Exit
        ELSE IF AssertionFails(listeners[i], made) THEN Ends("panicked")
        ELSE IF NameTaken(listeners[i], made) THEN Exit
        ELSE /\ listeners' = [listeners EXCEPT ![i].hosts = IF listeners[i].type = "http" THEN Append(@, made) ELSE <<made>>]
             /\ host' = host + 1 /\ script' = 0
             /\ phase' = "load"
             /\ UNCHANGED <<cmd, pos, builder, made>>

\* srv.Run()
StartRun ==
  /\ phase = "load" /\ host > Len(cmd.hosts)
  /\ phase' = "running"
  /\ UNCHANGED <<cmd, host, script, pos, builder, made, listeners>>

StartInit ==
  /\ cmd \in CommandLines
  /\ phase = "listeners" /\ host = 1 /\ script = 0 /\ pos = 1
  /\ builder = NoBuilder /\ made = [type |-> "", config |-> <<>>, services |-> <<>>]
  /\ listeners = <<>>

StartNext ==
  \/ NewServer \/ LoadScript
  \/ PushConfig \/ PopConfig \/ ConfigProperty \/ ConfigCommand \/ ConfigRaises \/ ConfigCaught
  \/ ComposeVHost \/ ComposeService \/ AddVirtualHost \/ StartRun

-----------------------------------------------------------------------------
(* What a script says, read as a text of nested blocks: what was caught says *)
(* nothing, and a block that an exception left without a pop is still open.  *)

\* The blocks around instruction i, by the positions where they open.
Around(ops, i) ==
  {j \in 1..i - 1 :
     /\ ops[j].k = "push"
     /\ \A m \in j + 1..i - 1 :
          Cardinality({n \in j + 1..m : ops[n].k = "pop"}) <= Cardinality({n \in j + 1..m : ops[n].k = "push"})}
Block(ops, i) == IF Around(ops, i) = {} THEN "" ELSE ops[Max(Around(ops, i))].name

\* The instruction is one that the documentation allows in its block, or its
\* error is caught.
Legal(kind, ops, i) ==
  LET op == ops[i]
      block == Block(ops, i)
  IN CASE op.k = "push" -> \/ block = "" /\ op.name = Outermost(kind)
                           \/ kind = "service" /\ block = "service" /\ op.name \in Inner
       [] op.k = "set" -> block = Outermost(kind) /\ Settable(kind, op.name, op.val)
       [] op.k = "cmd" -> kind = "service" /\ block \in Inner
       [] op.k \in {"pop", "caught"} -> TRUE
       [] op.k = "raise" -> FALSE

\* Only what fails is caught.
CaughtFails(kind, ops) ==
  \A i \in DOMAIN ops : ops[i].k = "caught" => ~Legal(kind, [ops EXCEPT ![i] = ops[i].of], i)
ASSUME CaughtAssumption ==
  \A c \in CommandLines : \A i \in DOMAIN c.hosts :
    /\ CaughtFails(c.hosts[i].type, c.hosts[i].main.ops)
    /\ \A k \in DOMAIN c.hosts[i].services : CaughtFails("service", c.hosts[i].services[k].ops)

\* The last value given to a name, and the commands of a block in order.
Value(ops, name) ==
  LET sets == {i \in DOMAIN ops : ops[i].k = "set" /\ ops[i].name = name}
  IN IF sets = {} THEN "" ELSE ops[Max(sets)].val
InOrder(S) == [k \in 1..Cardinality(S) |-> Min({i \in S : Cardinality({j \in S : j <= i}) = k})]
Commands(ops, block) ==
  LET at == {i \in DOMAIN ops : ops[i].k = "cmd" /\ Block(ops, i) = block}
  IN [k \in DOMAIN InOrder(at) |-> ops[InOrder(at)[k]].name]

Written(kind, ops) == [name \in DOMAIN Fields(kind) |-> Value(ops, name)]
WrittenService(s) ==
  [config |-> Written("service", s.ops), request |-> Commands(s.ops, "request"), response |-> Commands(s.ops, "response"),
   application |-> IF Commands(s.ops, "application") = <<>> THEN "" ELSE Last(Commands(s.ops, "application"))]
WrittenHost(h) ==
  [type |-> h.type, config |-> Written(h.type, h.main.ops),
   services |-> IF h.type = "http" THEN [i \in DOMAIN h.services |-> WrittenService(h.services[i])] ELSE <<>>]

\* The listener that a virtual host belongs to: the first of the name it gives.
Owner(h) ==
  LET named == {i \in DOMAIN cmd.listeners : cmd.listeners[i].name = Value(h.main.ops, "listener")}
  IN IF named = {} THEN 0 ELSE Min(named)

SoundMain(h) ==
  /\ h.main.compiles /\ \A i \in DOMAIN h.main.ops : Legal(h.type, h.main.ops, i)
  /\ FormatOk(Value(h.main.ops, "log_format"))
SoundService(s) ==
  LET w == WrittenService(s)
  IN /\ s.compiles /\ \A i \in DOMAIN s.ops : Legal("service", s.ops, i)
     /\ ToSet(w.request) \subseteq RequestFactories /\ ToSet(w.response) \subseteq ResponseFactories
     /\ w.application \in ApplicationFactories /\ newRouter(w.config["router"]) = "ok"
Sound(h) ==
  SoundMain(h) /\ (h.type = "http" => \A k \in DOMAIN h.services : SoundService(h.services[k]))

Placed(h) == Owner(h) # 0 /\ cmd.listeners[Owner(h)].type = h.type
Misplaced(h) == Owner(h) # 0 /\ cmd.listeners[Owner(h)].type = "redis" /\ h.type = "http"

\* Virtual hosts of one HTTP listener differ in name and in server name.  On a
\* Redis listener a later one takes the place, unless it has the same name.
Apart(g, h) ==
  Owner(g) = Owner(h) =>
    /\ Value(g.main.ops, "name") # Value(h.main.ops, "name")
    /\ h.type = "http" => Value(g.main.ops, "server_name") # Value(h.main.ops, "server_name")
After(i) == {j \in DOMAIN cmd.hosts : j > i /\ Owner(cmd.hosts[j]) = Owner(cmd.hosts[i])}
Clash ==
  \E i \in DOMAIN cmd.hosts : \E j \in After(i) :
    /\ cmd.hosts[i].type = "redis" => j = Min(After(i))
    /\ ~Apart(cmd.hosts[i], cmd.hosts[j])

-----------------------------------------------------------------------------
(* Properties. *)

\* The process serves exactly if everything on its command line can be served
\* as written; otherwise it ends before any listener runs, however far it had
\* come with the other virtual hosts (cmd/main.go:65, server/server.go:44,
\* http/vhost/vhs.go:161).  An error that its script catches is none.  The one exception: an HTTP virtual host that names
\* a Redis listener is taken in (server/server.go:55 compares the type of the
\* virtual host with itself), and ends the process later.
StartsIfSound ==
  LET known == \A i \in DOMAIN cmd.listeners :
                 ParseListenerConfig(cmd.listeners[i]) /\ newListener(cmd.listeners[i])
      sound(h) == Sound(h) /\ Placed(h)
      accepted(h) == Sound(h) /\ (Placed(h) \/ Misplaced(h))
      All(P(_)) == known /\ ~Clash /\ \A i \in DOMAIN cmd.hosts : P(cmd.hosts[i])
  IN /\ phase \in {"exited", "panicked"} => ~All(sound)
     /\ phase = "running" => All(accepted)

\* Each listener has the virtual hosts that name it, each configured by its
\* own scripts and by nothing else: no property, middleware or application of
\* another script or another block (http/vhost/new_vhost.go:85, vhs.go:173),
\* and nothing of a call that failed.  What follows a caught exception belongs
\* to the blocks that it left open (pl/parser.go:4083).
ServedAsWritten ==
  phase = "running" =>
    \A l \in DOMAIN listeners :
      LET mine == InOrder({i \in DOMAIN cmd.hosts : Owner(cmd.hosts[i]) = l})
          wanted == [k \in DOMAIN mine |-> WrittenHost(cmd.hosts[mine[k]])]
      IN listeners[l].hosts =
           IF listeners[l].type = "http" \/ wanted = <<>> THEN wanted ELSE <<Last(wanted)>>
=============================================================================
