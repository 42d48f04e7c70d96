--------------------------- MODULE VHostList_proofs ---------------------------
(***************************************************************************)
(* Proofs about VHostList, for any number of goroutines and virtual hosts. *)
(* That requests are routed by their server name holds for every           *)
(* configuration; that the two maps agree, and that the list behaves like  *)
(* VHostRegistry, needs FixedServerNames: without it a concurrent update   *)
(* breaks them, as the run VHostListMoving shows.                          *)
(***************************************************************************)
EXTENDS VHostList, TLAPS

(* An entry is filed under the names in the entry's own configuration.      *)
Filed ==
  /\ TypeOK
  /\ \A s \in Server : index[s] # NoVHost => ServerOf[index[s]] = s
  /\ \A n \in Name : name[n] # NoVHost => NameOf[name[n]] = n
  /\ RoutedByServerName

LEMMA FiledInvariant == Spec => []Filed
<1> USE ConfigAssumption
<1>1. Init => Filed
  BY DEF Init, Filed, TypeOK, RoutedByServerName
<1>2. Filed /\ [Next]_vars => Filed'
  <2> SUFFICES ASSUME Filed, [Next]_vars PROVE Filed'
    OBVIOUS
  <2> USE DEF Filed, TypeOK, RoutedByServerName
  <2>1. ASSUME NEW t \in Admin, NEW v \in VHost, Add(t, v) PROVE Filed'
    BY <2>1 DEF Add
  <2>2. ASSUME NEW t \in Admin, NEW n \in Name, Remove(t, n) PROVE Filed'
    BY <2>2 DEF Remove, remove
  <2>3. ASSUME NEW t \in Admin, NEW v \in VHost, UpdateRemove(t, v) PROVE Filed'
    BY <2>3 DEF UpdateRemove, remove
  <2>4. ASSUME NEW t \in Admin, UpdateStore(t) PROVE Filed'
    BY <2>4 DEF UpdateStore
  <2>5. ASSUME NEW r \in Request, Resolve(r) PROVE Filed'
    BY <2>5 DEF Resolve
  <2>6. ASSUME NEW r \in Request, NextRequest(r) PROVE Filed'
    BY <2>6 DEF NextRequest
  <2>7. CASE UNCHANGED vars
    BY <2>7 DEF vars
  <2> QED  BY <2>1, <2>2, <2>3, <2>4, <2>5, <2>6, <2>7 DEF Next
<1> QED  BY <1>1, <1>2, PTL DEF Spec

(* Whatever happens to the list meanwhile, a request is served by a virtual *)
(* host configured for the Host it named.                                   *)
THEOREM RequestsRoutedByServerName == Spec => []RoutedByServerName
<1>1. Filed => RoutedByServerName
  BY DEF Filed
<1> QED  BY <1>1, FiledInvariant, PTL

----------------------------------------------------------------------------
(* The two maps hold the same virtual hosts.                                *)
Agree == Filed /\ IndexNamed /\ NamedIndexed

LEMMA AgreeStep ==
  ASSUME FixedServerNames, Agree, Filed', [Next]_vars
  PROVE  Agree'
<1> USE ConfigAssumption
        DEF Agree, Filed, TypeOK, IndexNamed, NamedIndexed, FixedServerNames
<1>1. ASSUME NEW t \in Admin, NEW v \in VHost, Add(t, v) PROVE Agree'
  BY <1>1 DEF Add
<1>2. ASSUME NEW t \in Admin, NEW n \in Name, Remove(t, n) PROVE Agree'
  BY <1>2 DEF Remove, remove
<1>3. ASSUME NEW t \in Admin, NEW v \in VHost, UpdateRemove(t, v) PROVE Agree'
  BY <1>3 DEF UpdateRemove, remove
<1>4. ASSUME NEW t \in Admin, UpdateStore(t) PROVE Agree'
  BY <1>4 DEF UpdateStore
<1>5. ASSUME NEW r \in Request, Resolve(r) \/ NextRequest(r) PROVE Agree'
  BY <1>5 DEF Resolve, NextRequest
<1>6. CASE UNCHANGED vars
  BY <1>6 DEF vars
<1> QED  BY <1>1, <1>2, <1>3, <1>4, <1>5, <1>6 DEF Next

LEMMA AgreeInvariant == ASSUME FixedServerNames PROVE Spec => []Agree
<1>1. Init => Agree
  BY ConfigAssumption
     DEF Init, Agree, Filed, TypeOK, IndexNamed, NamedIndexed, RoutedByServerName
<1>2. Agree /\ Filed' /\ [Next]_vars => Agree'
  BY FixedServerNames, AgreeStep
<1> QED  BY <1>1, <1>2, FiledInvariant, PTL DEF Spec

(* When virtual hosts keep their server names, what requests can reach is   *)
(* listed by name, so it can be found, updated and removed.                 *)
THEOREM IndexedAreNamed == ASSUME FixedServerNames PROVE Spec => []IndexNamed
<1>1. Agree => IndexNamed
  BY DEF Agree
<1> QED  BY <1>1, AgreeInvariant, PTL

(* And what is listed by name can be reached by requests.                   *)
THEOREM NamedAreIndexed == ASSUME FixedServerNames PROVE Spec => []NamedIndexed
<1>1. Agree => NamedIndexed
  BY DEF Agree
<1> QED  BY <1>1, AgreeInvariant, PTL

----------------------------------------------------------------------------
LEMMA RegistryStep ==
  ASSUME FixedServerNames, Agree, [Next]_vars
  PROVE  [Registry!Next]_Live
<1> USE ConfigAssumption
        DEF Agree, Filed, TypeOK, IndexNamed, NamedIndexed, FixedServerNames, Live
<1>1. \A n \in Name : Registry!OfName(n) = IF name[n] = NoVHost THEN {} ELSE {name[n]}
  BY DEF Registry!OfName
<1>2. ASSUME NEW v \in VHost,
             index' = [index EXCEPT ![ServerOf[v]] = v]
      PROVE  Registry!Bind(v)
  <2>1. Live' = (Live \ {index[ServerOf[v]]}) \cup {v}
    BY <1>2
  <2>2. index[ServerOf[v]] = name[NameOf[v]]
    OBVIOUS
  <2> QED  BY <1>1, <2>1, <2>2 DEF Registry!Bind
<1>3. ASSUME NEW n \in Name, remove(n)
      PROVE  Live' = Live \ Registry!OfName(n)
  <2>1. CASE name[n] = NoVHost
    BY <1>1, <1>3, <2>1 DEF remove
  <2>2. CASE name[n] # NoVHost
    <3>1. Live' = Live \ {name[n]}
      BY <1>3, <2>2 DEF remove
    <3> QED  BY <1>1, <2>2, <3>1
  <2> QED  BY <2>1, <2>2
<1>4. ASSUME NEW t \in Admin, NEW v \in VHost, Add(t, v) PROVE Registry!Next
  BY <1>2, <1>4 DEF Add, Registry!Next
<1>5. ASSUME NEW t \in Admin, UpdateStore(t) PROVE Registry!Next
  BY ZenonT(30), <1>2, <1>5 DEF UpdateStore, Registry!Next
<1>6. ASSUME NEW n \in Name, remove(n) PROVE [Registry!Next]_Live
  <2>1. CASE \E v \in VHost : NameOf[v] = n
    BY <1>3, <1>6, <2>1 DEF Registry!Next, Registry!Unbind
  <2>2. CASE ~\E v \in VHost : NameOf[v] = n
    <3>1. name[n] = NoVHost
      BY <2>2
    <3>2. UNCHANGED index
      BY <1>6, <3>1 DEF remove
    <3> QED  BY <3>2
  <2> QED  BY <2>1, <2>2
<1>7. ASSUME NEW r \in Request, Resolve(r) \/ NextRequest(r) PROVE Live' = Live
  BY <1>7 DEF Resolve, NextRequest
<1>8. CASE UNCHANGED vars
  BY <1>8 DEF vars
<1> QED
  BY <1>4, <1>5, <1>6, <1>7, <1>8 DEF Next, Remove, UpdateRemove

(* When virtual hosts keep their server names, the list behaves like        *)
(* VHostRegistry although update is two steps and others run between them.  *)
THEOREM ListServesRegistry == ASSUME FixedServerNames PROVE Spec => ServesRegistry
<1>1. Init => Registry!Init
  BY DEF Init, Registry!Init, Live
<1>2. Agree /\ [Next]_vars => [Registry!Next]_Live
  BY FixedServerNames, RegistryStep
<1> QED  BY <1>1, <1>2, AgreeInvariant, PTL DEF Spec, ServesRegistry, Registry!Spec
=============================================================================
