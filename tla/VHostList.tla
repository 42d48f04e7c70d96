----------------------------- MODULE VHostList -----------------------------
(***************************************************************************)
(* The virtual host list of an HTTP listener (http/vhost_list.go) under    *)
(* the goroutines that configure it and the requests it routes             *)
(* (listener.ServeHTTP in http/listener.go).                               *)
(*                                                                         *)
(* add, remove and resolve hold the list's lock throughout and are one     *)
(* step each.  update calls remove, releases the lock, and takes it again  *)
(* to store: two steps, between which other goroutines run.                *)
(***************************************************************************)
CONSTANTS
  Admin,     \* goroutines that call AddVHost, UpdateVHost, RemoveVHost
  Request,   \* goroutines in ServeHTTP
  VHost,     \* virtual host objects
  Name,      \* VHost.Config.Name values
  Server,    \* VHost.Config.ServerName values, and request Host headers
  NameOf,    \* NameOf[v]   = v.Config.Name
  ServerOf,  \* ServerOf[v] = v.Config.ServerName
  NoVHost    \* nil, or an absent map entry

ASSUME ConfigAssumption ==
  /\ NameOf \in [VHost -> Name]
  /\ ServerOf \in [VHost -> Server]
  /\ NoVHost \notin VHost

VARIABLES
  index,    \* vhostlist.index, by server name
  name,     \* vhostlist.name, by virtual host name
  storing,  \* storing[t]: the argument of an update between its two sections
  host,     \* host[r]: the Host header of the request r is serving
  serving   \* serving[r]: the virtual host ServeHTTP resolved for r

vars == <<index, name, storing, host, serving>>

Init ==
  /\ index = [s \in Server |-> NoVHost]
  /\ name = [n \in Name |-> NoVHost]
  /\ storing = [t \in Admin |-> NoVHost]
  /\ host \in [Request -> Server]
  /\ serving = [r \in Request |-> NoVHost]

(* add: refused when the server name or the virtual host name is taken.     *)
Add(t, v) ==
  /\ storing[t] = NoVHost
  /\ index[ServerOf[v]] = NoVHost
  /\ name[NameOf[v]] = NoVHost
  /\ index' = [index EXCEPT ![ServerOf[v]] = v]
  /\ name' = [name EXCEPT ![NameOf[v]] = v]
  /\ UNCHANGED <<storing, host, serving>>

(* Faults: the index entry stays; the whole index goes.                     *)
removeName(n) ==
  /\ name' = [name EXCEPT ![n] = NoVHost]
  /\ UNCHANGED index

removeAll(n) ==
  IF name[n] = NoVHost
  THEN UNCHANGED <<index, name>>
  ELSE /\ index' = [s \in Server |-> NoVHost]
       /\ name' = [name EXCEPT ![n] = NoVHost]

(* remove, also the first critical section of update: the index entry that  *)
(* goes is the one of the server name in the stored configuration.          *)
remove(n) ==
  IF name[n] = NoVHost
  THEN UNCHANGED <<index, name>>
  ELSE /\ index' = [index EXCEPT ![ServerOf[name[n]]] = NoVHost]
       /\ name' = [name EXCEPT ![n] = NoVHost]

Remove(t, n) ==
  /\ storing[t] = NoVHost
  /\ remove(n)
  /\ UNCHANGED <<storing, host, serving>>

UpdateRemove(t, v) ==
  /\ storing[t] = NoVHost
  /\ remove(NameOf[v])
  /\ storing' = [storing EXCEPT ![t] = v]
  /\ UNCHANGED <<host, serving>>

(* A fault: only the name is stored.                                        *)
UpdateStoreName(t) ==
  /\ storing[t] # NoVHost
  /\ name' = [name EXCEPT ![NameOf[storing[t]]] = storing[t]]
  /\ storing' = [storing EXCEPT ![t] = NoVHost]
  /\ UNCHANGED <<index, host, serving>>

(* update, second critical section: both entries are overwritten unchecked. *)
UpdateStore(t) ==
  /\ storing[t] # NoVHost
  /\ index' = [index EXCEPT ![ServerOf[storing[t]]] = storing[t]]
  /\ name' = [name EXCEPT ![NameOf[storing[t]]] = storing[t]]
  /\ storing' = [storing EXCEPT ![t] = NoVHost]
  /\ UNCHANGED <<host, serving>>

(* A fault: an unknown host goes to some virtual host instead of a 403.     *)
ResolveDefault(r) ==
  /\ serving[r] = NoVHost
  /\ \E s \in Server :
       /\ index[s] # NoVHost
       /\ s = host[r] \/ index[host[r]] = NoVHost
       /\ serving' = [serving EXCEPT ![r] = index[s]]
  /\ UNCHANGED <<index, name, storing, host>>

(* ServeHTTP resolves the Host header once and keeps the virtual host it    *)
(* found until the request is done; an unknown host is answered 403.        *)
Resolve(r) ==
  /\ serving[r] = NoVHost
  /\ index[host[r]] # NoVHost
  /\ serving' = [serving EXCEPT ![r] = index[host[r]]]
  /\ UNCHANGED <<index, name, storing, host>>

(* The request is done, or was answered 403; the goroutine's next request   *)
(* may be for any host.                                                     *)
NextRequest(r) ==
  /\ serving[r] # NoVHost \/ index[host[r]] = NoVHost
  /\ serving' = [serving EXCEPT ![r] = NoVHost]
  /\ \E s \in Server : host' = [host EXCEPT ![r] = s]
  /\ UNCHANGED <<index, name, storing>>

Next ==
  \/ \E t \in Admin :
       \/ \E v \in VHost : Add(t, v) \/ UpdateRemove(t, v)
       \/ \E n \in Name : Remove(t, n)
       \/ UpdateStore(t)
  \/ \E r \in Request : Resolve(r) \/ NextRequest(r)

Spec == Init /\ [][Next]_vars

----------------------------------------------------------------------------
(* Every entry is absent or a virtual host object.                          *)
TypeOK ==
  /\ index \in [Server -> VHost \cup {NoVHost}]
  /\ name \in [Name -> VHost \cup {NoVHost}]
  /\ storing \in [Admin -> VHost \cup {NoVHost}]
  /\ host \in [Request -> Server]
  /\ serving \in [Request -> VHost \cup {NoVHost}]

(* "when an index is pointed to something, then the vhost must be existed": *)
(* whatever requests are routed to can be found, updated and removed by its *)
(* name.                                                                    *)
IndexNamed ==
  \A s \in Server : index[s] # NoVHost => name[NameOf[index[s]]] = index[s]

(* The converse: a virtual host that is listed by name receives the         *)
(* requests for its server name.                                            *)
NamedIndexed ==
  \A n \in Name : name[n] # NoVHost => index[ServerOf[name[n]]] = name[n]

(* A request only ever reaches a virtual host configured for its Host, even *)
(* when the list changed after it was resolved.                             *)
RoutedByServerName ==
  \A r \in Request : serving[r] # NoVHost => ServerOf[serving[r]] = host[r]

(* What requests can reach evolves like the abstract registry.              *)
Live == {index[s] : s \in Server} \ {NoVHost}
Registry == INSTANCE VHostRegistry WITH live <- Live
ServesRegistry == Registry!Spec

(* The configurations under which a list with concurrent updates stays      *)
(* consistent: a virtual host keeps its server name for life and shares it  *)
(* with no other name.                                                      *)
FixedServerNames ==
  \A u, v \in VHost : NameOf[u] = NameOf[v] <=> ServerOf[u] = ServerOf[v]
=============================================================================
