------------------------- MODULE ServerProcess_proofs -------------------------
(***************************************************************************)
(* Proofs about the start of the process, for all command lines, and about *)
(* Server.Run, for any number of listeners.                                *)
(***************************************************************************)
EXTENDS ServerProcess, FiniteSetTheorems, SequenceTheorems, TLAPS

----------------------------------------------------------------------------
(* What a script says up to an instruction: the last values given so far,   *)
(* the commands so far, and the blocks that are open.                       *)

SetsTo(ops, name, p) == {i \in 1..p - 1 : ops[i].k = "set" /\ ops[i].name = name}
ValueTo(ops, name, p) == IF SetsTo(ops, name, p) = {} THEN "" ELSE ops[Max(SetsTo(ops, name, p))].val

CmdsTo(ops, block, p) == {i \in 1..p - 1 : ops[i].k = "cmd" /\ Block(ops, i) = block}
NamesOf(ops, at) == [k \in DOMAIN InOrder(at) |-> ops[InOrder(at)[k]].name]
LastName(names) == IF names = <<>> THEN "" ELSE Last(names)

Count(ops, k, a, b) == Cardinality({n \in a..b : ops[n].k = k})
Excess(ops, j, p) == Count(ops, "push", j + 1, p - 1) - Count(ops, "pop", j + 1, p - 1)

(* The builder's stack of scopes names the open blocks; a block has as many *)
(* unclosed blocks inside as the stack has scopes above it.                 *)
Nested(kind, ops, p, scopes) ==
  \/ scopes = <<>> /\ Around(ops, p) = {}
  \/ \E a \in 1..p - 1 :
       /\ Around(ops, p) = {a} /\ Excess(ops, a, p) = 0
       /\ ops[a].name = Outermost(kind) /\ scopes = <<Outermost(kind)>>
  \/ \E a, b \in 1..p - 1 :
       /\ Around(ops, p) = {a, b} /\ a < b
       /\ Excess(ops, a, p) = 1 /\ Excess(ops, b, p) = 0
       /\ kind = "service" /\ ops[a].name = "service"
       /\ ops[b].name \in Inner /\ scopes = <<"service", ops[b].name>>

Built(kind, ops, p, scopes) ==
  [scopes |-> scopes,
   fields |-> [name \in DOMAIN Fields(kind) |-> ValueTo(ops, name, p)],
   request |-> NamesOf(ops, CmdsTo(ops, "request", p)),
   response |-> NamesOf(ops, CmdsTo(ops, "response", p)),
   application |-> LastName(NamesOf(ops, CmdsTo(ops, "application", p)))]

----------------------------------------------------------------------------
(* The start so far. *)

Known ==
  \A i \in DOMAIN cmd.listeners : ParseListenerConfig(cmd.listeners[i]) /\ newListener(cmd.listeners[i])
Serveable ==
  Known /\ ~Clash /\ \A i \in DOMAIN cmd.hosts : Sound(cmd.hosts[i]) /\ Placed(cmd.hosts[i])

(* InOrder lists S, the greatest element last.                              *)
Ordered(S) ==
  /\ \A k \in DOMAIN InOrder(S) : InOrder(S)[k] \in S
  /\ \A i \in S : \E k \in DOMAIN InOrder(S) : InOrder(S)[k] = i
  /\ \A i \in S : i <= Last(InOrder(S))

Mine(l, n) == {i \in DOMAIN cmd.hosts : i <= n /\ Owner(cmd.hosts[i]) = l}
HostList(hosts, S) == [k \in DOMAIN InOrder(S) |-> WrittenHost(hosts[InOrder(S)[k]])]
Kept(type, wanted) == IF type = "http" \/ wanted = <<>> THEN wanted ELSE <<Last(wanted)>>
HostsTo(l, n) == Kept(cmd.listeners[l].type, HostList(cmd.hosts, Mine(l, n)))

(* None of the first n virtual hosts clashes with a later one of them, and  *)
(* an HTTP one on a Redis listener is the last.                             *)
Compatible(n) ==
  \A i, j \in 1..n :
    j \in After(i) =>
      /\ ~Misplaced(cmd.hosts[i])
      /\ (cmd.hosts[i].type = "redis" => j = Min(After(i))) => Apart(cmd.hosts[i], cmd.hosts[j])

(* The listeners serve the first n virtual hosts, all sound, as written.    *)
Accepted(n) ==
  /\ Known
  /\ listeners = [l \in DOMAIN cmd.listeners |->
       [type |-> cmd.listeners[l].type, name |-> cmd.listeners[l].name, hosts |-> HostsTo(l, n)]]
  /\ \A i \in 1..n : Sound(cmd.hosts[i]) /\ (Placed(cmd.hosts[i]) \/ Misplaced(cmd.hosts[i]))
  /\ Compatible(n)
  /\ \A l \in DOMAIN cmd.listeners : Ordered(Mine(l, n))

(* The host that is being made, of which n services are.                    *)
MadeTo(n) ==
  /\ SoundMain(Host) /\ \A k \in 1..n : SoundService(Host.services[k])
  /\ made = [type |-> Host.type, config |-> Written(Host.type, Host.main.ops),
             services |-> [k \in 1..n |-> WrittenService(Host.services[k])]]

InScript ==
  /\ host \in DOMAIN cmd.hosts
  /\ \/ script = 0
     \/ script \in DOMAIN Host.services /\ Host.type = "http" /\ MadeTo(script - 1)

InConfig ==
  /\ InScript /\ Script.compiles
  /\ pos \in 1..Len(Script.ops) + 1
  /\ \A i \in 1..pos - 1 : Legal(Kind, Script.ops, i)
  /\ Nested(Kind, Script.ops, pos, builder.scopes)
  /\ builder = Built(Kind, Script.ops, pos, builder.scopes)

Progress ==
  /\ cmd \in CommandLines
  /\ phase \in {"listeners", "load", "config", "add", "running", "exited", "panicked"}
  /\ phase = "listeners" => host = 1 /\ script = 0
  /\ phase \in {"load", "config", "add", "running"} => host \in 1..Len(cmd.hosts) + 1 /\ Accepted(host - 1)
  /\ phase = "load" => InScript \/ host = Len(cmd.hosts) + 1
  /\ phase = "config" => InConfig
  /\ phase = "add" => host \in DOMAIN cmd.hosts /\ Sound(Host) /\ made = WrittenHost(Host)
  /\ phase = "running" => host = Len(cmd.hosts) + 1
  /\ phase \in {"exited", "panicked"} => ~Serveable

----------------------------------------------------------------------------
(* Least and greatest elements, and sets in order.                           *)

LEMMA LeastOne ==
  ASSUME NEW S, S \subseteq Nat, S # {}
  PROVE  Min(S) \in S /\ \A x \in S : Min(S) <= x
<1>1. PICK m \in S : \A x \in S : <<x, m>> \notin OpToRel(<, Nat)
  BY WFMin, NatLessThanWellFounded, Zenon
<1>2. ASSUME NEW x \in S PROVE m <= x
  <2>1. x \in Nat /\ m \in Nat
    OBVIOUS
  <2>2. ~(x < m)
    BY <1>1, <2>1 DEF OpToRel
  <2> QED  BY <2>1, <2>2
<1>3. \E m1 \in S : \A x \in S : m1 <= x
  BY <1>2
<1> QED  BY <1>3 DEF Min

LEMMA MaxOfAdded ==
  ASSUME NEW S, NEW p \in Nat, S \subseteq Nat, \A x \in S : x <= p
  PROVE  Max(S \cup {p}) = p
<1>1. p \in S \cup {p} /\ \A y \in S \cup {p} : p >= y
  OBVIOUS
<1>2. \A x \in S \cup {p} : (\A y \in S \cup {p} : x >= y) => x = p
  OBVIOUS
<1> QED  BY <1>1, <1>2 DEF Max

LEMMA MinOfOne ==
  ASSUME NEW p \in Nat
  PROVE  Min({p}) = p
<1>1. \A x \in {p} : x = p
  OBVIOUS
<1>2. p \in {p} /\ \A y \in {p} : p <= y
  OBVIOUS
<1> QED  BY <1>1, <1>2 DEF Min

(* A sequence with one more element.                                         *)
LEMMA AppendListed ==
  ASSUME NEW n \in Nat, NEW S, NEW s \in [1..n -> S], NEW t \in [1..n + 1 -> S],
         \A k \in 1..n : t[k] = s[k]
  PROVE  t = Append(s, t[n + 1])
<1>1. Len(s) = n /\ s \in Seq(S)
  OBVIOUS
<1>2. s \in Seq(S)
  BY <1>1
<1>3. t \in Seq(S) /\ Len(t) = n + 1 /\ t[n + 1] \in S
  OBVIOUS
<1>4. t[n + 1] \in S
  BY <1>3
<1> DEFINE e == t[n + 1]
           u == Append(s, e)
<1>5. u \in Seq(S) /\ Len(u) = n + 1
  BY <1>1, <1>2, <1>4
<1>6. \A k \in 1..Len(t) : t[k] = u[k]
  <2>1. \A k \in 1..n : u[k] = s[k]
    BY <1>1, <1>2, <1>4
  <2>2. u[n + 1] = e
    BY <1>1, <1>2, <1>4
  <2> HIDE DEF e, u
  <2>3. t[n + 1] = e
    BY DEF e
  <2> QED  BY <1>3, <2>1, <2>2, <2>3
<1> HIDE DEF u
<1>7. t = u
  BY <1>3, <1>5, <1>6, SeqEqual
<1> QED  BY <1>7 DEF u, e

(* Adding a greater number to a set adds it at the end of the list.          *)
LEMMA InOrderAdded ==
  ASSUME NEW S, S \subseteq Nat, IsFiniteSet(S), NEW p \in Nat, \A i \in S : i < p
  PROVE  /\ InOrder(S \cup {p}) = Append(InOrder(S), p)
         /\ DOMAIN InOrder(S) = 1..Cardinality(S) /\ Cardinality(S) \in Nat
         /\ DOMAIN InOrder(S \cup {p}) = 1..Cardinality(S) + 1
         /\ InOrder(S \cup {p})[Cardinality(S) + 1] = p
         /\ \A k \in 1..Cardinality(S) : InOrder(S \cup {p})[k] = InOrder(S)[k]
         /\ IsFiniteSet(S \cup {p})
<1> DEFINE T == S \cup {p}
           n == Cardinality(S)
<1>1. n \in Nat /\ IsFiniteSet(T) /\ Cardinality(T) = n + 1
  <2>1. p \notin S
    OBVIOUS
  <2> QED  BY <2>1, FS_CardinalityType, FS_AddElement
<1>2. \A i \in S : {j \in T : j <= i} = {j \in S : j <= i}
  OBVIOUS
<1>3. {j \in T : j <= p} = T
  <2>1. \A j \in T : j <= p
    OBVIOUS
  <2> QED  BY <2>1, Zenon
<1>4. \A i \in S : Cardinality({j \in S : j <= i}) \in Nat /\ Cardinality({j \in S : j <= i}) <= n
  <2>1. \A i \in S : {j \in S : j <= i} \in SUBSET S
    OBVIOUS
  <2> QED  BY <2>1, FS_Subset, FS_CardinalityType
<1>5. \A k \in 1..n :
        {i \in T : Cardinality({j \in T : j <= i}) = k} = {i \in S : Cardinality({j \in S : j <= i}) = k}
  <2> TAKE k \in 1..n
  <2>1. Cardinality({j \in T : j <= p}) # k
    BY <1>1, <1>3
  <2> QED  BY <1>2, <2>1
<1>6. {i \in T : Cardinality({j \in T : j <= i}) = n + 1} = {p}
  <2>1. \A i \in S : Cardinality({j \in T : j <= i}) # n + 1
    BY <1>1, <1>2, <1>4
  <2>2. Cardinality({j \in T : j <= p}) = n + 1
    BY <1>1, <1>3
  <2> QED  BY <2>1, <2>2
<1> DEFINE s == InOrder(S)
           t == InOrder(T)
           At(U, k) == Min({i \in U : Cardinality({j \in U : j <= i}) = k})
<1>7. s = [k \in 1..n |-> At(S, k)]
  BY DEF InOrder
<1>8. t = [k \in 1..n + 1 |-> At(T, k)]
  BY <1>1 DEF InOrder
<1>9. \A k \in 1..n : At(T, k) = At(S, k)
  BY <1>5
<1>10. At(T, n + 1) = p
  BY <1>6, MinOfOne
<1> HIDE DEF At, s, t, T, n
<1>11. s = [k \in 1..n |-> s[k]] /\ t = [k \in 1..n + 1 |-> t[k]]
       /\ t[n + 1] = p /\ \A k \in 1..n : t[k] = s[k]
  BY <1>1, <1>7, <1>8, <1>9, <1>10
<1>12. t = Append(s, t[n + 1])
  <2> DEFINE A == {s[k] : k \in 1..n} \cup {t[k] : k \in 1..n + 1}
  <2>1. (\A k \in 1..n : s[k] \in A) /\ (\A k \in 1..n + 1 : t[k] \in A)
    OBVIOUS
  <2> HIDE DEF A
  <2>2. s \in [1..n -> A] /\ t \in [1..n + 1 -> A]
    BY <1>11, <2>1
  <2> QED  BY ZenonT(30), <1>1, <1>11, <2>2, AppendListed
<1>13. DOMAIN s = 1..n /\ DOMAIN t = 1..n + 1
  BY <1>7, <1>8
<1> QED  BY <1>1, <1>11, <1>12, <1>13 DEF s, t, T, n

LEMMA InOrderEmpty == InOrder({}) = <<>>
<1>1. Cardinality({}) = 0
  BY FS_EmptySet
<1>2. 1..0 = {}
  OBVIOUS
<1> QED  BY <1>1, <1>2 DEF InOrder

----------------------------------------------------------------------------
(* One instruction more.                                                     *)

LEMMA ValueStep ==
  ASSUME NEW ops, NEW p \in Nat \ {0}, NEW name
  PROVE  /\ ops[p].k = "set" /\ ops[p].name = name => ValueTo(ops, name, p + 1) = ops[p].val
         /\ ~(ops[p].k = "set" /\ ops[p].name = name) => ValueTo(ops, name, p + 1) = ValueTo(ops, name, p)
<1>1. SetsTo(ops, name, p) \subseteq Nat /\ \A i \in SetsTo(ops, name, p) : i <= p
  BY DEF SetsTo
<1>2. CASE ops[p].k = "set" /\ ops[p].name = name
  <2>1. SetsTo(ops, name, p + 1) = SetsTo(ops, name, p) \cup {p}
    BY <1>2 DEF SetsTo
  <2>2. Max(SetsTo(ops, name, p + 1)) = p
    BY <1>1, <2>1, MaxOfAdded
  <2>3. SetsTo(ops, name, p + 1) # {}
    BY <2>1
  <2> QED  BY <1>2, <2>2, <2>3 DEF ValueTo
<1>3. CASE ~(ops[p].k = "set" /\ ops[p].name = name)
  <2>1. SetsTo(ops, name, p + 1) = SetsTo(ops, name, p)
    BY <1>3 DEF SetsTo
  <2> QED  BY <1>3, <2>1 DEF ValueTo
<1> QED  BY <1>2, <1>3

LEMMA NamesAdded ==
  ASSUME NEW ops, NEW at, at \subseteq Nat, IsFiniteSet(at), NEW p \in Nat, \A i \in at : i < p
  PROVE  /\ NamesOf(ops, at \cup {p}) = Append(NamesOf(ops, at), ops[p].name)
         /\ LastName(NamesOf(ops, at \cup {p})) = ops[p].name
<1> DEFINE n == Cardinality(at)
           u == InOrder(at)
           v == InOrder(at \cup {p})
           s == NamesOf(ops, at)
           t == NamesOf(ops, at \cup {p})
<1>1. /\ DOMAIN u = 1..n /\ DOMAIN v = 1..n + 1 /\ n \in Nat /\ v[n + 1] = p
      /\ \A k \in 1..n : v[k] = u[k]
  BY InOrderAdded
<1>2. s = [k \in DOMAIN u |-> ops[u[k]].name] /\ t = [k \in DOMAIN v |-> ops[v[k]].name]
  BY DEF NamesOf
<1> HIDE DEF n, u, v, s, t
<1>3. /\ s = [k \in 1..n |-> s[k]] /\ t = [k \in 1..n + 1 |-> t[k]]
      /\ t[n + 1] = ops[p].name /\ \A k \in 1..n : t[k] = s[k]
  BY <1>1, <1>2
<1> DEFINE A == {s[k] : k \in 1..n} \cup {t[k] : k \in 1..n + 1}
<1>4. (\A k \in 1..n : s[k] \in A) /\ (\A k \in 1..n + 1 : t[k] \in A)
  OBVIOUS
<1> HIDE DEF A
<1>5. s \in [1..n -> A] /\ t \in [1..n + 1 -> A]
  BY <1>3, <1>4
<1>6. t = Append(s, t[n + 1])
  BY <1>1, <1>3, <1>5, AppendListed
<1>7. t \in Seq(A) /\ Len(t) = n + 1
  BY <1>1, <1>5
<1>8. t # <<>>
  BY <1>1, <1>7, EmptySeq
<1>9. LastName(t) = t[n + 1]
  BY <1>7, <1>8 DEF LastName, Last
<1> QED  BY <1>3, <1>6, <1>9 DEF s, t

LEMMA CmdsStep ==
  ASSUME NEW ops, NEW p \in Nat \ {0}, NEW block
  PROVE  /\ ops[p].k = "cmd" /\ Block(ops, p) = block =>
              /\ NamesOf(ops, CmdsTo(ops, block, p + 1)) = Append(NamesOf(ops, CmdsTo(ops, block, p)), ops[p].name)
              /\ LastName(NamesOf(ops, CmdsTo(ops, block, p + 1))) = ops[p].name
         /\ ~(ops[p].k = "cmd" /\ Block(ops, p) = block) => CmdsTo(ops, block, p + 1) = CmdsTo(ops, block, p)
<1> DEFINE at == CmdsTo(ops, block, p)
<1>1. at \subseteq Nat /\ (\A i \in at : i < p) /\ at \in SUBSET (1..p - 1)
  BY DEF CmdsTo
<1>2. IsFiniteSet(at)
  <2>1. IsFiniteSet(1..p - 1)
    BY FS_Interval
  <2> QED  BY <1>1, <2>1, FS_Subset
<1>3. ops[p].k = "cmd" /\ Block(ops, p) = block => CmdsTo(ops, block, p + 1) = at \cup {p}
  BY DEF CmdsTo
<1>4. ~(ops[p].k = "cmd" /\ Block(ops, p) = block) => CmdsTo(ops, block, p + 1) = at
  BY DEF CmdsTo
<1> HIDE DEF at
<1>5. /\ NamesOf(ops, at \cup {p}) = Append(NamesOf(ops, at), ops[p].name)
      /\ LastName(NamesOf(ops, at \cup {p})) = ops[p].name
  BY <1>1, <1>2, NamesAdded
<1> QED  BY <1>3, <1>4, <1>5 DEF at

LEMMA CountStep ==
  ASSUME NEW ops, NEW k, NEW a \in Nat, NEW b \in Nat, a <= b + 1
  PROVE  /\ Count(ops, k, a, b) \in Nat
         /\ ops[b + 1].k = k => Count(ops, k, a, b + 1) = Count(ops, k, a, b) + 1
         /\ ops[b + 1].k # k => Count(ops, k, a, b + 1) = Count(ops, k, a, b)
<1> DEFINE S == {n \in a..b : ops[n].k = k}
           T == {n \in a..b + 1 : ops[n].k = k}
<1>1. IsFiniteSet(a..b) /\ S \in SUBSET (a..b)
  BY FS_Interval
<1>2. IsFiniteSet(S) /\ Cardinality(S) \in Nat
  BY <1>1, FS_Subset, FS_CardinalityType
<1>3. CASE ops[b + 1].k = k
  <2>1. T = S \cup {b + 1} /\ b + 1 \notin S
    BY <1>3
  <2>2. Cardinality(T) = Cardinality(S) + 1
    BY <1>2, <2>1, FS_AddElement
  <2> QED  BY <1>2, <1>3, <2>2 DEF Count
<1>4. CASE ops[b + 1].k # k
  <2>1. T = S
    BY <1>4
  <2> QED  BY <1>2, <1>4, <2>1 DEF Count
<1> QED  BY <1>3, <1>4

LEMMA CountNone ==
  ASSUME NEW ops, NEW k, NEW b \in Nat
  PROVE  Count(ops, k, b + 1, b) = 0
<1>1. {n \in b + 1..b : ops[n].k = k} = {}
  OBVIOUS
<1> QED  BY <1>1, FS_EmptySet DEF Count

LEMMA ExcessStep ==
  ASSUME NEW ops, NEW p \in Nat \ {0}, NEW j \in 1..p - 1
  PROVE  /\ Excess(ops, j, p) \in Int
         /\ ops[p].k = "push" => Excess(ops, j, p + 1) = Excess(ops, j, p) + 1
         /\ ops[p].k = "pop" => Excess(ops, j, p + 1) = Excess(ops, j, p) - 1
         /\ ops[p].k \notin {"push", "pop"} => Excess(ops, j, p + 1) = Excess(ops, j, p)
<1> DEFINE a == j + 1
           b == p - 1
           up == Count(ops, "push", a, b)
           down == Count(ops, "pop", a, b)
           up1 == Count(ops, "push", a, b + 1)
           down1 == Count(ops, "pop", a, b + 1)
<1>1. a \in Nat /\ b \in Nat /\ a <= b + 1 /\ b + 1 = p /\ p + 1 - 1 = b + 1
  OBVIOUS
<1>2. /\ up \in Nat /\ down \in Nat
      /\ ops[p].k = "push" => up1 = up + 1 /\ down1 = down
      /\ ops[p].k = "pop" => up1 = up /\ down1 = down + 1
      /\ ops[p].k \notin {"push", "pop"} => up1 = up /\ down1 = down
  BY <1>1, CountStep
<1>3. Excess(ops, j, p) = up - down /\ Excess(ops, j, p + 1) = up1 - down1
  BY <1>1 DEF Excess
<1> HIDE DEF up, down, up1, down1
<1> QED  BY <1>2, <1>3

LEMMA ExcessOfNew ==
  ASSUME NEW ops, NEW p \in Nat \ {0}
  PROVE  Excess(ops, p, p + 1) = 0
<1>1. p + 1 - 1 = p
  OBVIOUS
<1>2. Count(ops, "push", p + 1, p) = 0 /\ Count(ops, "pop", p + 1, p) = 0
  BY CountNone
<1> QED  BY <1>1, <1>2 DEF Excess

LEMMA AroundStep ==
  ASSUME NEW ops, NEW p \in Nat \ {0}
  PROVE  /\ ops[p].k = "push" => Around(ops, p + 1) = Around(ops, p) \cup {p}
         /\ ops[p].k = "pop" => Around(ops, p + 1) = {j \in Around(ops, p) : Excess(ops, j, p) >= 1}
         /\ ops[p].k \notin {"push", "pop"} => Around(ops, p + 1) = Around(ops, p)
<1> DEFINE Fine(j, m) == Count(ops, "pop", j + 1, m) <= Count(ops, "push", j + 1, m)
<1>1. \A q : Around(ops, q) = {j \in 1..q - 1 : ops[j].k = "push" /\ \A m \in j + 1..q - 1 : Fine(j, m)}
  BY DEF Around, Count
<1>2. ASSUME NEW j \in 1..p - 1
      PROVE  j \in Around(ops, p + 1) <=> j \in Around(ops, p) /\ Fine(j, p)
  <2>1. \A m : m \in j + 1..p + 1 - 1 <=> m \in j + 1..p - 1 \/ m = p
    OBVIOUS
  <2> HIDE DEF Fine
  <2>2. j \in 1..p + 1 - 1
    OBVIOUS
  <2> QED  BY <1>1, <2>1, <2>2
<1>3. ASSUME NEW j \in 1..p - 1, j \in Around(ops, p)
      PROVE  /\ ops[p].k # "pop" => Fine(j, p)
             /\ ops[p].k = "pop" => (Fine(j, p) <=> Excess(ops, j, p) >= 1)
  <2> DEFINE a == j + 1
             b == p - 1
             up == Count(ops, "push", a, b)
             down == Count(ops, "pop", a, b)
             up1 == Count(ops, "push", a, b + 1)
             down1 == Count(ops, "pop", a, b + 1)
  <2>1. a \in Nat /\ b \in Nat /\ a <= b + 1 /\ b + 1 = p
    OBVIOUS
  <2>2. /\ up \in Nat /\ down \in Nat
        /\ ops[p].k = "push" => up1 = up + 1 /\ down1 = down
        /\ ops[p].k = "pop" => up1 = up /\ down1 = down + 1
        /\ ops[p].k \notin {"push", "pop"} => up1 = up /\ down1 = down
    BY <2>1, CountStep
  <2>3. down <= up
    <3>1. CASE a <= b
      <4>1. b \in a..b
        BY <2>1, <3>1
      <4>2. Fine(j, b)
        BY <1>1, <1>3, <4>1
      <4> QED  BY <4>2
    <3>2. CASE a = b + 1
      BY <2>1, <2>2, <3>2, CountNone
    <3> QED  BY <2>1, <3>1, <3>2
  <2>4. Fine(j, p) <=> down1 <= up1
    BY <2>1
  <2>5. Excess(ops, j, p) = up - down
    BY DEF Excess
  <2> HIDE DEF up, down, up1, down1, Fine
  <2> QED  BY <2>2, <2>3, <2>4, <2>5
<1>4. p \in Around(ops, p + 1) <=> ops[p].k = "push"
  <2>1. p \in 1..p + 1 - 1 /\ p + 1..p + 1 - 1 = {}
    OBVIOUS
  <2> HIDE DEF Fine
  <2> QED  BY <1>1, <2>1
<1>5. Around(ops, p) \subseteq 1..p - 1 /\ Around(ops, p + 1) \subseteq 1..p
  BY DEF Around
<1>6. Around(ops, p + 1) \subseteq 1..p - 1 \cup {p}
  BY <1>5
<1> HIDE DEF Fine
<1> QED  BY <1>2, <1>3, <1>4, <1>5, <1>6

----------------------------------------------------------------------------
(* The stack of scopes follows the blocks of the text.                       *)

Kinds == {"http", "redis", "service"}
ScopeOf(scopes) == IF scopes = <<>> THEN "" ELSE Last(scopes)

(* A stack of one or two.                                                    *)
LEMMA SmallStacks ==
  ASSUME NEW x, NEW y
  PROVE  Append(<<x>>, y) = <<x, y>> /\ Front(<<x, y>>) = <<x>>
<1> DEFINE S == {x, y}
<1>1. <<x>> \in Seq(S) /\ <<x, y>> \in Seq(S) /\ y \in S
  OBVIOUS
<1>2. Len(<<x>>) = 1 /\ Len(<<x, y>>) = 2 /\ <<x>>[1] = x /\ <<x, y>>[1] = x /\ <<x, y>>[2] = y
  OBVIOUS
<1> DEFINE s == <<x>>
           t == <<x, y>>
<1>3. s \in Seq(S) /\ t \in Seq(S) /\ Len(s) = 1 /\ Len(t) = 2 /\ s[1] = x /\ t[1] = x /\ t[2] = y
  BY <1>1, <1>2
<1> HIDE DEF s, t, S
<1>4. Append(s, y) = t
  <2>1. Append(s, y) \in Seq(S) /\ Len(Append(s, y)) = 2 /\ Append(s, y)[1] = x /\ Append(s, y)[2] = y
    BY SMTT(30), <1>1, <1>3
  <2>2. \A i \in 1..2 : Append(s, y)[i] = t[i]
    BY <1>3, <2>1
  <2> QED  BY <1>3, <2>1, <2>2, SeqEqual
<1>5. Front(t) = s
  <2> DEFINE u == SubSeq(t, 1, 1)
  <2>1. u \in Seq(S) /\ Len(u) = 1 /\ u[1] = x
    BY <1>3
  <2>2. \A i \in 1..1 : u[i] = s[i]
    BY <1>3, <2>1
  <2>3. u = s
    BY <1>3, <2>1, <2>2, SeqEqual
  <2>4. Front(t) = u
    BY <1>3 DEF Front
  <2> QED  BY <2>3, <2>4
<1> QED  BY <1>4, <1>5 DEF s, t

LEMMA EmptyStacks ==
  ASSUME NEW x
  PROVE  Append(<<>>, x) = <<x>> /\ Front(<<x>>) = <<>> /\ Front(<<>>) = <<>>
<1>1. Append(<<>>, x) = <<x>>
  OBVIOUS
<1>2. Front(<<x>>) = <<>> /\ Front(<<>>) = <<>>
  BY DEF Front
<1> QED  BY <1>1, <1>2

LEMMA MaxOfTwo ==
  ASSUME NEW a \in Nat, NEW b \in Nat, a <= b
  PROVE  Max({a, b}) = b
<1>1. b \in {a, b} /\ \A y \in {a, b} : b >= y
  OBVIOUS
<1>2. \A x \in {a, b} : (\A y \in {a, b} : x >= y) => x = b
  OBVIOUS
<1> QED  BY <1>1, <1>2 DEF Max

LEMMA BlockOf ==
  ASSUME NEW kind \in Kinds, NEW ops, NEW p \in Nat \ {0}, NEW scopes, Nested(kind, ops, p, scopes)
  PROVE  /\ Block(ops, p) = ScopeOf(scopes)
         /\ \/ scopes = <<>> /\ ScopeOf(scopes) = ""
            \/ scopes = <<Outermost(kind)>> /\ ScopeOf(scopes) = Outermost(kind)
            \/ kind = "service" /\ ScopeOf(scopes) \in Inner
<1>1. CASE scopes = <<>> /\ Around(ops, p) = {}
  BY <1>1 DEF Block, ScopeOf
<1>2. ASSUME NEW a \in 1..p - 1, Around(ops, p) = {a}, ops[a].name = Outermost(kind),
             scopes = <<Outermost(kind)>>
      PROVE  Block(ops, p) = ScopeOf(scopes) /\ ScopeOf(scopes) = Outermost(kind)
  <2>1. Max({a}) = a
    <3>1. Max({a, a}) = a /\ {a, a} = {a}
      BY MaxOfTwo
    <3> QED  BY <3>1
  <2>2. {a} # {}
    OBVIOUS
  <2>3. Block(ops, p) = Outermost(kind)
    BY <1>2, <2>1, <2>2 DEF Block
  <2>4. scopes # <<>> /\ Last(scopes) = Outermost(kind)
    BY <1>2 DEF Last
  <2> QED  BY <2>3, <2>4 DEF ScopeOf
<1>3. ASSUME NEW a \in 1..p - 1, NEW b \in 1..p - 1, Around(ops, p) = {a, b}, a < b,
             ops[b].name \in Inner, scopes = <<"service", ops[b].name>>
      PROVE  Block(ops, p) = ScopeOf(scopes) /\ ScopeOf(scopes) \in Inner
  <2>1. Max({a, b}) = b
    BY <1>3, MaxOfTwo
  <2>2. {a, b} # {}
    OBVIOUS
  <2>3. Block(ops, p) = ops[b].name
    BY <1>3, <2>1, <2>2 DEF Block
  <2>4. scopes # <<>> /\ Last(scopes) = ops[b].name
    BY <1>3 DEF Last
  <2> QED  BY <1>3, <2>3, <2>4 DEF ScopeOf
<1> QED  BY <1>1, <1>2, <1>3 DEF Nested, ScopeOf

(* PushConfig opens a scope.                                                 *)
MayPush(kind, scopes, name) ==
  \/ ScopeOf(scopes) = "" /\ name = Outermost(kind)
  \/ ScopeOf(scopes) = "service" /\ name \in Inner

LEMMA OneMore ==
  ASSUME NEW p \in Nat \ {0}
  PROVE  p \in 1..p + 1 - 1 /\ \A a \in 1..p - 1 : a \in 1..p + 1 - 1 /\ a < p
<1>1. p \in 1..p + 1 - 1
  OBVIOUS
<1>2. \A a \in 1..p - 1 : a \in 1..p + 1 - 1
  OBVIOUS
<1>3. \A a \in 1..p - 1 : a < p
  OBVIOUS
<1> QED  BY <1>1, <1>2, <1>3

LEMMA NestedOnce ==
  ASSUME NEW kind, NEW ops, NEW p, NEW scopes, NEW a \in 1..p - 1,
         Around(ops, p) = {a}, Excess(ops, a, p) = 0,
         ops[a].name = Outermost(kind), scopes = <<Outermost(kind)>>
  PROVE  Nested(kind, ops, p, scopes)
BY DEF Nested

LEMMA NestedTwice ==
  ASSUME NEW kind, NEW ops, NEW p, NEW scopes, NEW a \in 1..p - 1, NEW b \in 1..p - 1,
         Around(ops, p) = {a, b}, a < b, Excess(ops, a, p) = 1, Excess(ops, b, p) = 0,
         kind = "service", ops[a].name = "service",
         ops[b].name \in Inner, scopes = <<"service", ops[b].name>>
  PROVE  Nested(kind, ops, p, scopes)
BY DEF Nested

LEMMA NestedPush ==
  ASSUME NEW kind \in Kinds, NEW ops, NEW p \in Nat \ {0}, NEW scopes, Nested(kind, ops, p, scopes),
         ops[p].k = "push",
         MayPush(kind, scopes, ops[p].name)
  PROVE  Nested(kind, ops, p + 1, Append(scopes, ops[p].name))
<1>1. Around(ops, p + 1) = Around(ops, p) \cup {p} /\ Excess(ops, p, p + 1) = 0
  BY AroundStep, ExcessOfNew
<1>2. p \in 1..p + 1 - 1 /\ \A a \in 1..p - 1 : a \in 1..p + 1 - 1 /\ a < p
  BY OneMore
<1>3. Outermost(kind) # "" /\ Outermost(kind) \notin Inner /\ "" \notin Inner /\ "service" \notin Inner
      /\ (Outermost(kind) = "service" => kind = "service")
  BY DEF Outermost, Kinds, Inner
<1>4. CASE scopes = <<>> /\ Around(ops, p) = {}
  <2>1. ops[p].name = Outermost(kind)
    BY <1>4 DEF ScopeOf, MayPush
  <2>2. Append(scopes, ops[p].name) = <<Outermost(kind)>>
    BY <1>4, <2>1, EmptyStacks
  <2>3. Around(ops, p + 1) = {p}
    BY <1>1, <1>4
  <2> DEFINE q == p + 1
             new == Append(scopes, ops[p].name)
  <2>4. p \in 1..q - 1 /\ Around(ops, q) = {p} /\ Excess(ops, p, q) = 0 /\ ops[p].name = Outermost(kind)
        /\ new = <<Outermost(kind)>>
    BY <1>1, <1>2, <2>1, <2>2, <2>3
  <2> HIDE DEF q, new
  <2>5. Nested(kind, ops, q, new)
    BY <2>4, NestedOnce
  <2> QED  BY <2>5 DEF q, new
<1>5. ASSUME NEW a \in 1..p - 1, Around(ops, p) = {a}, Excess(ops, a, p) = 0,
             ops[a].name = Outermost(kind), scopes = <<Outermost(kind)>>
      PROVE  Nested(kind, ops, p + 1, Append(scopes, ops[p].name))
  <2>1. ScopeOf(scopes) = Outermost(kind)
    BY <1>5 DEF ScopeOf, Last
  <2>2. kind = "service" /\ Outermost(kind) = "service" /\ ops[p].name \in Inner
    BY <1>3, <2>1 DEF MayPush
  <2>3. Append(scopes, ops[p].name) = <<"service", ops[p].name>>
    BY <1>5, <2>2, SmallStacks
  <2>4. Excess(ops, a, p + 1) = Excess(ops, a, p) + 1
    BY ExcessStep
  <2>5. Around(ops, p + 1) = {a, p}
    BY <1>1, <1>5
  <2>6. ops[a].name = "service" /\ a \in 1..p + 1 - 1 /\ a < p
    BY <1>2, <1>5, <2>2
  <2> DEFINE q == p + 1
             new == Append(scopes, ops[p].name)
  <2>7. Excess(ops, a, q) = 1
    <3> DEFINE x == Excess(ops, a, p)
               y == Excess(ops, a, q)
    <3>1. x = 0 /\ y = x + 1
      BY <1>5, <2>4
    <3> HIDE DEF x, y
    <3>2. y = 1
      BY <3>1
    <3> QED  BY <3>2 DEF y
  <2>8. p \in 1..q - 1 /\ a \in 1..q - 1 /\ Around(ops, q) = {a, p} /\ Excess(ops, p, q) = 0
        /\ new = <<"service", ops[p].name>>
    BY <1>1, <1>2, <2>3, <2>5
  <2> HIDE DEF q, new
  <2>9. Nested(kind, ops, q, new)
    BY <2>2, <2>6, <2>7, <2>8, NestedTwice
  <2> QED  BY <2>9 DEF q, new
<1>6. ~(ScopeOf(scopes) \in Inner)
  BY <1>3 DEF MayPush
<1>7. ASSUME NEW a \in 1..p - 1, NEW b \in 1..p - 1, Around(ops, p) = {a, b},
             ops[b].name \in Inner, scopes = <<"service", ops[b].name>>
      PROVE  FALSE
  <2>1. ScopeOf(scopes) \in Inner
    BY <1>7 DEF ScopeOf, Last
  <2> QED  BY <1>6, <2>1
<1> QED  BY <1>4, <1>5, <1>7 DEF Nested

LEMMA NestedPop ==
  ASSUME NEW kind \in Kinds, NEW ops, NEW p \in Nat \ {0}, NEW scopes, Nested(kind, ops, p, scopes),
         ops[p].k = "pop"
  PROVE  Nested(kind, ops, p + 1, Front(scopes))
<1>1. Around(ops, p + 1) = {j \in Around(ops, p) : Excess(ops, j, p) >= 1}
  BY AroundStep
<1>2. CASE scopes = <<>> /\ Around(ops, p) = {}
  <2>1. Front(scopes) = <<>>
    BY <1>2, EmptyStacks
  <2> QED  BY <1>1, <1>2, <2>1 DEF Nested
<1>3. ASSUME NEW a \in 1..p - 1, Around(ops, p) = {a}, Excess(ops, a, p) = 0, scopes = <<Outermost(kind)>>
      PROVE  Nested(kind, ops, p + 1, Front(scopes))
  <2>1. Front(scopes) = <<>>
    BY <1>3, EmptyStacks
  <2>2. Around(ops, p + 1) = {}
    BY <1>1, <1>3
  <2> QED  BY <2>1, <2>2 DEF Nested
<1>4. ASSUME NEW a \in 1..p - 1, NEW b \in 1..p - 1, Around(ops, p) = {a, b}, a < b,
             Excess(ops, a, p) = 1, Excess(ops, b, p) = 0, kind = "service", ops[a].name = "service",
             scopes = <<"service", ops[b].name>>
      PROVE  Nested(kind, ops, p + 1, Front(scopes))
  <2>1. Front(scopes) = <<"service">>
    BY <1>4, SmallStacks
  <2>2. Around(ops, p + 1) = {a}
    BY <1>1, <1>4
  <2>3. Excess(ops, a, p + 1) = 0
    BY <1>4, ExcessStep
  <2>4. Outermost(kind) = "service" /\ a \in 1..p + 1 - 1
    BY <1>4 DEF Outermost
  <2> QED  BY <1>4, <2>1, <2>2, <2>3, <2>4 DEF Nested
<1> QED  BY <1>2, <1>3, <1>4 DEF Nested

LEMMA NestedStays ==
  ASSUME NEW kind, NEW ops, NEW p \in Nat \ {0}, NEW scopes, Nested(kind, ops, p, scopes),
         ops[p].k \notin {"push", "pop"}
  PROVE  Nested(kind, ops, p + 1, scopes)
<1>1. Around(ops, p + 1) = Around(ops, p)
  BY AroundStep
<1>2. \A a \in 1..p - 1 : a \in 1..p + 1 - 1 /\ Excess(ops, a, p + 1) = Excess(ops, a, p)
  BY ExcessStep
<1> QED  BY <1>1, <1>2 DEF Nested

----------------------------------------------------------------------------
(* The builder follows the text.                                             *)

LEMMA BuiltStart ==
  ASSUME NEW kind \in Kinds, NEW ops
  PROVE  /\ Nested(kind, ops, 1, <<>>)
         /\ [NoBuilder EXCEPT !.fields = Fields(kind)] = Built(kind, ops, 1, <<>>)
<1>1. 1..1 - 1 = {}
  OBVIOUS
<1>2. Around(ops, 1) = {} /\ \A block : CmdsTo(ops, block, 1) = {}
  BY <1>1 DEF Around, CmdsTo
<1>3. \A name : ValueTo(ops, name, 1) = ""
  BY <1>1 DEF ValueTo, SetsTo
<1>4. NamesOf(ops, {}) = <<>>
  <2>1. DOMAIN InOrder({}) = {}
    BY InOrderEmpty
  <2> QED  BY <2>1 DEF NamesOf
<1>5. LastName(<<>>) = ""
  BY DEF LastName
<1>6. Fields(kind) = [name \in DOMAIN Fields(kind) |-> ValueTo(ops, name, 1)]
  BY <1>3 DEF Fields
<1>7. [NoBuilder EXCEPT !.fields = Fields(kind)] = Built(kind, ops, 1, <<>>)
  <2>1. [NoBuilder EXCEPT !.fields = Fields(kind)] =
          [scopes |-> <<>>, fields |-> Fields(kind), request |-> <<>>, response |-> <<>>, application |-> ""]
    <3> DEFINE f == Fields(kind)
    <3> HIDE DEF f
    <3> DEFINE r == NoBuilder
               none == <<>>
               app == ""
    <3>1. r = [scopes |-> none, fields |-> none, request |-> none, response |-> none, application |-> app]
      BY DEF NoBuilder
    <3> HIDE DEF r, none, app
    <3>2. [r EXCEPT !.fields = f] =
            [scopes |-> none, fields |-> f, request |-> none, response |-> none, application |-> app]
      BY <3>1
    <3> QED  BY <3>2 DEF f, r, none, app
  <2>2. Built(kind, ops, 1, <<>>) =
          [scopes |-> <<>>, fields |-> [name \in DOMAIN Fields(kind) |-> ValueTo(ops, name, 1)],
           request |-> <<>>, response |-> <<>>, application |-> ""]
    BY <1>2, <1>4, <1>5 DEF Built
  <2> HIDE DEF Fields
  <2> QED  BY <1>6, <2>1, <2>2
<1> QED  BY <1>2, <1>7 DEF Nested

LEMMA BuiltScope ==
  ASSUME NEW kind, NEW ops, NEW p \in Nat \ {0}, NEW scopes, NEW new, ops[p].k \in {"push", "pop", "caught"}
  PROVE  [Built(kind, ops, p, scopes) EXCEPT !.scopes = new] = Built(kind, ops, p + 1, new)
<1> DEFINE fields == [name \in DOMAIN Fields(kind) |-> ValueTo(ops, name, p)]
           names(block) == NamesOf(ops, CmdsTo(ops, block, p))
           app == LastName(names("application"))
           old == Built(kind, ops, p, scopes)
           next_ == Built(kind, ops, p + 1, new)
<1>1. [name \in DOMAIN Fields(kind) |-> ValueTo(ops, name, p + 1)] = fields
  <2>1. \A name : ValueTo(ops, name, p + 1) = ValueTo(ops, name, p)
    BY ValueStep
  <2> QED  BY <2>1
<1>2. \A block : CmdsTo(ops, block, p + 1) = CmdsTo(ops, block, p)
  BY CmdsStep
<1> HIDE DEF fields
<1>3. old = [scopes |-> scopes, fields |-> fields, request |-> names("request"),
             response |-> names("response"), application |-> app]
  BY DEF Built, fields
<1>4. next_ = [scopes |-> new, fields |-> fields, request |-> names("request"),
               response |-> names("response"), application |-> app]
  BY <1>1, <1>2 DEF Built
<1> HIDE DEF names, app, old, next_
<1>5. [old EXCEPT !.scopes = new] = next_
  BY <1>3, <1>4
<1> QED  BY <1>5 DEF old, next_

AfterSet(b, op, c) == [b EXCEPT !.fields = [b.fields EXCEPT ![op.name] = op.val]] = c
AfterCommand(b, block, name, c) ==
  /\ block = "request" => [b EXCEPT !.request = Append(b.request, name)] = c
  /\ block = "response" => [b EXCEPT !.response = Append(b.response, name)] = c
  /\ block = "application" => [b EXCEPT !.application = name] = c

LEMMA BuiltSet ==
  ASSUME NEW kind, NEW ops, NEW p \in Nat \ {0}, NEW scopes, ops[p].k = "set",
         ops[p].name \in DOMAIN Fields(kind)
  PROVE  AfterSet(Built(kind, ops, p, scopes), ops[p], Built(kind, ops, p + 1, scopes))
<1> DEFINE was == [name \in DOMAIN Fields(kind) |-> ValueTo(ops, name, p)]
           is == [name \in DOMAIN Fields(kind) |-> ValueTo(ops, name, p + 1)]
           names(block) == NamesOf(ops, CmdsTo(ops, block, p))
           app == LastName(names("application"))
           old == Built(kind, ops, p, scopes)
           next_ == Built(kind, ops, p + 1, scopes)
<1>1. [was EXCEPT ![ops[p].name] = ops[p].val] = is
  <2>1. \A name : ValueTo(ops, name, p + 1) =
                  IF ops[p].name = name THEN ops[p].val ELSE ValueTo(ops, name, p)
    BY ValueStep
  <2> QED  BY <2>1
<1>2. \A block : CmdsTo(ops, block, p + 1) = CmdsTo(ops, block, p)
  BY CmdsStep
<1> HIDE DEF was, is
<1>3. old = [scopes |-> scopes, fields |-> was, request |-> names("request"),
             response |-> names("response"), application |-> app]
  BY DEF Built, was
<1>4. next_ = [scopes |-> scopes, fields |-> is, request |-> names("request"),
               response |-> names("response"), application |-> app]
  BY <1>2 DEF Built, is
<1> HIDE DEF names, app, old, next_
<1>5. [old EXCEPT !.fields = is] = next_ /\ old.fields = was
  BY <1>3, <1>4
<1>6. [old EXCEPT !.fields = [old.fields EXCEPT ![ops[p].name] = ops[p].val]] = next_
  BY <1>1, <1>5
<1> DEFINE op == ops[p]
<1>7. AfterSet(old, op, next_)
  BY <1>6 DEF AfterSet
<1> HIDE DEF op
<1> QED  BY <1>7 DEF old, next_, op

LEMMA BuiltCommand ==
  ASSUME NEW kind, NEW ops, NEW p \in Nat \ {0}, NEW scopes, ops[p].k = "cmd"
  PROVE  AfterCommand(Built(kind, ops, p, scopes), Block(ops, p), ops[p].name, Built(kind, ops, p + 1, scopes))
<1> DEFINE fields == [name \in DOMAIN Fields(kind) |-> ValueTo(ops, name, p)]
           was(block) == NamesOf(ops, CmdsTo(ops, block, p))
           is(block) == NamesOf(ops, CmdsTo(ops, block, p + 1))
           name1 == ops[p].name
           old == Built(kind, ops, p, scopes)
           next_ == Built(kind, ops, p + 1, scopes)
<1>1. [name \in DOMAIN Fields(kind) |-> ValueTo(ops, name, p + 1)] = fields
  <2>1. \A name : ValueTo(ops, name, p + 1) = ValueTo(ops, name, p)
    BY ValueStep
  <2> QED  BY <2>1
<1>2. \A block : Block(ops, p) # block => is(block) = was(block)
  BY CmdsStep
<1>3. \A block : Block(ops, p) = block => is(block) = Append(was(block), name1) /\ LastName(is(block)) = name1
  BY CmdsStep
<1> HIDE DEF fields
<1>4. old = [scopes |-> scopes, fields |-> fields, request |-> was("request"),
             response |-> was("response"), application |-> LastName(was("application"))]
  BY DEF Built, fields
<1>5. next_ = [scopes |-> scopes, fields |-> fields, request |-> is("request"),
               response |-> is("response"), application |-> LastName(is("application"))]
  BY <1>1 DEF Built
<1> HIDE DEF was, is, name1, old, next_
<1>6. CASE Block(ops, p) = "request"
  <2>1. /\ is("request") = Append(was("request"), name1) /\ is("response") = was("response")
        /\ is("application") = was("application")
    BY <1>2, <1>3, <1>6
  <2>2. [old EXCEPT !.request = is("request")] = next_ /\ old.request = was("request")
    BY <1>4, <1>5, <2>1
  <2>3. [old EXCEPT !.request = Append(old.request, name1)] = next_
    BY <2>1, <2>2
  <2>4. AfterCommand(old, "request", name1, next_)
    BY <2>3 DEF AfterCommand
  <2> QED  BY <1>6, <2>4 DEF old, next_, name1
<1>7. CASE Block(ops, p) = "response"
  <2>1. /\ is("request") = was("request") /\ is("response") = Append(was("response"), name1)
        /\ is("application") = was("application")
    BY <1>2, <1>3, <1>7
  <2>2. [old EXCEPT !.response = is("response")] = next_ /\ old.response = was("response")
    BY <1>4, <1>5, <2>1
  <2>3. [old EXCEPT !.response = Append(old.response, name1)] = next_
    BY <2>1, <2>2
  <2>4. AfterCommand(old, "response", name1, next_)
    BY <2>3 DEF AfterCommand
  <2> QED  BY <1>7, <2>4 DEF old, next_, name1
<1>8. CASE Block(ops, p) = "application"
  <2>1. /\ is("request") = was("request") /\ is("response") = was("response")
        /\ LastName(is("application")) = name1
    BY <1>2, <1>3, <1>8
  <2>2. [old EXCEPT !.application = name1] = next_
    BY <1>4, <1>5, <2>1
  <2>3. AfterCommand(old, "application", name1, next_)
    BY <2>2 DEF AfterCommand
  <2> QED  BY <1>8, <2>3 DEF old, next_, name1
<1>9. CASE Block(ops, p) \notin {"request", "response", "application"}
  BY <1>9 DEF AfterCommand
<1> QED  BY <1>6, <1>7, <1>8, <1>9

(* At its end.                                                               *)
LEMMA BuiltEnd ==
  ASSUME NEW kind, NEW ops, IsList(ops), NEW scopes
  PROVE  LET b == Built(kind, ops, Len(ops) + 1, scopes)
         IN /\ b.fields = Written(kind, ops)
            /\ b.request = Commands(ops, "request") /\ b.response = Commands(ops, "response")
            /\ b.application =
                 IF Commands(ops, "application") = <<>> THEN "" ELSE Last(Commands(ops, "application"))
<1>1. 1..Len(ops) + 1 - 1 = DOMAIN ops
  BY DEF IsList
<1> DEFINE q == Len(ops) + 1
<1>2. \A name : ValueTo(ops, name, q) = Value(ops, name)
  <2>1. \A name : SetsTo(ops, name, q) = {i \in DOMAIN ops : ops[i].k = "set" /\ ops[i].name = name}
    BY <1>1 DEF SetsTo
  <2> QED  BY <2>1 DEF ValueTo, Value
<1>3. \A block : NamesOf(ops, CmdsTo(ops, block, q)) = Commands(ops, block)
  <2>1. \A block : CmdsTo(ops, block, q) = {i \in DOMAIN ops : ops[i].k = "cmd" /\ Block(ops, i) = block}
    BY <1>1 DEF CmdsTo
  <2> QED  BY <2>1 DEF NamesOf, Commands
<1> HIDE DEF q
<1>4. [name \in DOMAIN Fields(kind) |-> ValueTo(ops, name, q)] = Written(kind, ops)
  BY <1>2 DEF Written
<1>5. Built(kind, ops, q, scopes) =
        [scopes |-> scopes, fields |-> Written(kind, ops), request |-> Commands(ops, "request"),
         response |-> Commands(ops, "response"), application |-> LastName(Commands(ops, "application"))]
  BY <1>3, <1>4 DEF Built
<1> DEFINE b == Built(kind, ops, q, scopes)
<1>6. b.fields = Written(kind, ops) /\ b.request = Commands(ops, "request")
  BY <1>5
<1>7. b.response = Commands(ops, "response") /\ b.application = LastName(Commands(ops, "application"))
  BY <1>5
<1> HIDE DEF b
<1> QED  BY <1>6, <1>7 DEF LastName, q, b

----------------------------------------------------------------------------
(* One call of a builder: it accepts what is legal in the text.              *)

LEMMA HostTyped ==
  ASSUME cmd \in CommandLines, host \in DOMAIN cmd.hosts
  PROVE  /\ Host.type \in Types /\ IsScript(Host.main) /\ IsList(Host.services)
         /\ \A k \in DOMAIN Host.services : IsScript(Host.services[k])
BY CommandLinesAssumption DEF CommandLinesAssumption, Host

LEMMA ScriptTyped ==
  ASSUME cmd \in CommandLines, InScript
  PROVE  Kind \in Kinds /\ IsScript(Script)
<1>1. host \in DOMAIN cmd.hosts /\ (script = 0 \/ script \in DOMAIN Host.services)
  BY DEF InScript
<1>2. CASE script = 0
  BY <1>1, <1>2, HostTyped DEF Kind, Kinds, Types, Script
<1>3. CASE script # 0
  BY <1>1, <1>3, HostTyped DEF Kind, Kinds, Script
<1> QED  BY <1>2, <1>3

(* A script that is not sound makes its virtual host unsound.                *)
SoundScript == IF script = 0 THEN SoundMain(Host) ELSE SoundService(Script)

LEMMA UnsoundScript ==
  ASSUME cmd \in CommandLines, InScript, ~SoundScript
  PROVE  ~Serveable
<1>1. host \in DOMAIN cmd.hosts
  BY DEF InScript
<1>2. script = 0 => ~Sound(Host)
  BY DEF SoundScript, Sound
<1>3. script # 0 => ~Sound(Host)
  <2> SUFFICES ASSUME script # 0 PROVE ~Sound(Host)
    OBVIOUS
  <2>1. script \in DOMAIN Host.services /\ Host.type = "http"
    BY HostTyped DEF InScript
  <2>2. ~SoundService(Host.services[script])
    BY DEF SoundScript, Script
  <2> QED  BY <2>1, <2>2 DEF Sound
<1> QED  BY <1>1, <1>2, <1>3 DEF Serveable, Host

LEMMA Illegal ==
  ASSUME cmd \in CommandLines, InConfig, pos <= Len(Script.ops), ~Legal(Kind, Script.ops, pos)
  PROVE  ~Serveable
<1>1. pos \in DOMAIN Script.ops
  BY ScriptTyped DEF InConfig, IsScript, IsList
<1>2. ~SoundScript
  <2>1. CASE script = 0
    BY <1>1, <2>1 DEF SoundScript, SoundMain, Script, Kind
  <2>2. CASE script # 0
    BY <1>1, <2>2 DEF SoundScript, SoundService, Kind
  <2> QED  BY <2>1, <2>2
<1> QED  BY <1>2, UnsoundScript DEF InConfig

LEMMA ConfiguredOn ==
  ASSUME cmd \in CommandLines, InConfig, pos <= Len(Script.ops), Legal(Kind, Script.ops, pos),
         NEW b, NEW s, b = Built(Kind, Script.ops, pos + 1, s), Nested(Kind, Script.ops, pos + 1, s),
         Configured(b)
  PROVE  InConfig' /\ UNCHANGED <<cmd, phase, host, script, made, listeners>>
<1>1. builder' = b /\ pos' = pos + 1 /\ UNCHANGED <<cmd, phase, host, script, made, listeners>>
  BY DEF Configured
<1>2. Host' = Host /\ Script' = Script /\ Kind' = Kind
  BY <1>1 DEF Host, Script, Kind
<1>3. MadeTo(script - 1) => MadeTo(script - 1)'
  BY <1>1, <1>2 DEF MadeTo
<1>4. InScript'
  BY <1>1, <1>2, <1>3 DEF InConfig, InScript
<1>5. IsList(Script.ops)
  BY ScriptTyped DEF InConfig, IsScript
<1>6. pos' \in 1..Len(Script.ops) + 1 /\ \A i \in 1..pos' - 1 : Legal(Kind, Script.ops, i)
  <2>1. Len(Script.ops) \in Nat /\ pos \in 1..Len(Script.ops) + 1
    BY <1>5 DEF IsList, InConfig
  <2>2. \A i \in 1..pos + 1 - 1 : i \in 1..pos - 1 \/ i = pos
    BY <2>1
  <2>3. \A i \in 1..pos - 1 : Legal(Kind, Script.ops, i)
    BY DEF InConfig
  <2> QED  BY <1>1, <2>1, <2>2, <2>3
<1>7. builder'.scopes = s
  BY <1>1 DEF Built
<1>8. Nested(Kind, Script.ops, pos + 1, builder'.scopes) /\ builder' = Built(Kind, Script.ops, pos + 1, builder'.scopes)
  BY <1>1, <1>7
<1> QED  BY <1>1, <1>2, <1>4, <1>6, <1>8 DEF InConfig

(* What a builder does with the instruction at pos.                          *)
Advances ==
  \/ InConfig' /\ UNCHANGED <<cmd, phase, host, script, made, listeners>>
  \/ Exit /\ ~Serveable

(* The same for a text: what is legal is what the builder takes, and then   *)
(* it has what the text says one instruction further on.                    *)
LEMMA LegalPush ==
  ASSUME NEW kind, NEW ops, NEW p, ops[p].k = "push"
  PROVE  Legal(kind, ops, p) <=>
           \/ Block(ops, p) = "" /\ ops[p].name = Outermost(kind)
           \/ kind = "service" /\ Block(ops, p) = "service" /\ ops[p].name \in Inner
BY DEF Legal

LEMMA LegalCommand ==
  ASSUME NEW kind, NEW ops, NEW p, ops[p].k = "cmd"
  PROVE  Legal(kind, ops, p) <=> kind = "service" /\ Block(ops, p) \in Inner
BY DEF Legal

LEMMA LegalOthers ==
  ASSUME NEW kind, NEW ops, NEW p
  PROVE  /\ ops[p].k \in {"pop", "caught"} => Legal(kind, ops, p)
         /\ ops[p].k = "raise" => ~Legal(kind, ops, p)
BY DEF Legal

LEMMA TextPush ==
  ASSUME NEW kind \in Kinds, NEW ops, NEW p \in Nat \ {0}, NEW scopes, Nested(kind, ops, p, scopes),
         ops[p].k = "push"
  PROVE  /\ Legal(kind, ops, p) <=> MayPush(kind, scopes, ops[p].name)
         /\ MayPush(kind, scopes, ops[p].name) => Nested(kind, ops, p + 1, Append(scopes, ops[p].name))
<1> DEFINE name == ops[p].name
           block == ScopeOf(scopes)
<1>1. Block(ops, p) = block
  BY BlockOf
<1>2. block = "service" => kind = "service"
  <2>1. block = "" \/ block = Outermost(kind) \/ kind = "service"
    BY BlockOf
  <2>2. Outermost(kind) = "service" => kind = "service"
    BY DEF Outermost, Kinds
  <2> QED  BY <2>1, <2>2
<1>3. Legal(kind, ops, p) <=> \/ block = "" /\ name = Outermost(kind)
                              \/ kind = "service" /\ block = "service" /\ name \in Inner
  BY <1>1, LegalPush
<1>4. MayPush(kind, scopes, name) <=> \/ block = "" /\ name = Outermost(kind)
                                      \/ block = "service" /\ name \in Inner
  BY DEF MayPush
<1> HIDE DEF block, name
<1>5. Legal(kind, ops, p) <=> MayPush(kind, scopes, name)
  BY <1>2, <1>3, <1>4
<1> QED  BY <1>5, NestedPush DEF name

LEMMA TextCommand ==
  ASSUME NEW kind \in Kinds, NEW ops, NEW p \in Nat \ {0}, NEW scopes, Nested(kind, ops, p, scopes),
         ops[p].k = "cmd"
  PROVE  Legal(kind, ops, p) <=> ScopeOf(scopes) \in Inner
<1> DEFINE block == ScopeOf(scopes)
<1>1. Block(ops, p) = block
  BY BlockOf
<1>2. block \in Inner => kind = "service"
  <2>1. block = "" \/ block = Outermost(kind) \/ kind = "service"
    BY BlockOf
  <2>2. Outermost(kind) \notin Inner /\ "" \notin Inner
    BY DEF Outermost, Kinds, Inner
  <2> QED  BY <2>1, <2>2
<1>3. Legal(kind, ops, p) <=> kind = "service" /\ block \in Inner
  BY <1>1, LegalCommand
<1> QED  BY <1>2, <1>3

LEMMA TextSet ==
  ASSUME NEW kind \in Kinds, NEW ops, NEW p \in Nat \ {0}, NEW scopes, Nested(kind, ops, p, scopes),
         ops[p].k = "set"
  PROVE  Legal(kind, ops, p) <=> ScopeOf(scopes) = Outermost(kind) /\ Settable(kind, ops[p].name, ops[p].val)
<1>1. Block(ops, p) = ScopeOf(scopes)
  BY BlockOf
<1> QED  BY <1>1 DEF Legal

LEMMA AtTyped ==
  ASSUME cmd \in CommandLines, InConfig, NEW k, AtInstr(k)
  PROVE  /\ Script.ops[pos].k = k /\ Instr = Script.ops[pos] /\ pos \in Nat \ {0}
         /\ pos <= Len(Script.ops) /\ Kind \in Kinds
         /\ Nested(Kind, Script.ops, pos, builder.scopes)
         /\ builder = Built(Kind, Script.ops, pos, builder.scopes)
         /\ Scope = ScopeOf(builder.scopes)
<1>1. Script.ops[pos].k = k /\ Instr = Script.ops[pos] /\ pos <= Len(Script.ops)
  BY DEF AtInstr, Instr
<1>2. IsList(Script.ops) /\ Kind \in Kinds
  BY ScriptTyped DEF InConfig, IsScript
<1>3. /\ Nested(Kind, Script.ops, pos, builder.scopes)
      /\ builder = Built(Kind, Script.ops, pos, builder.scopes)
  BY DEF InConfig
<1>4. pos \in Nat \ {0}
  <2>1. Len(Script.ops) \in Nat /\ pos \in 1..Len(Script.ops) + 1
    BY <1>2 DEF InConfig, IsList
  <2> QED  BY <2>1
<1>5. Scope = ScopeOf(builder.scopes)
  BY DEF Scope, ScopeOf
<1> QED  BY <1>1, <1>2, <1>3, <1>4, <1>5

LEMMA PushStep ==
  ASSUME cmd \in CommandLines, InConfig, PushConfig
  PROVE  Advances
<1> DEFINE ops == Script.ops
           name == ops[pos].name
           scopes == builder.scopes
           new == Append(scopes, name)
<1>1. AtInstr("push")
  BY DEF PushConfig
<1>2. /\ ops[pos].k = "push" /\ Instr = ops[pos] /\ pos \in Nat \ {0} /\ pos <= Len(ops) /\ Kind \in Kinds
      /\ Nested(Kind, ops, pos, scopes) /\ builder = Built(Kind, ops, pos, scopes) /\ Scope = ScopeOf(scopes)
  BY <1>1, AtTyped
<1>3. /\ MayPush(Kind, scopes, name) => Configured([builder EXCEPT !.scopes = new])
      /\ ~MayPush(Kind, scopes, name) => Exit
  BY <1>2 DEF PushConfig, Opens, MayPush
<1> HIDE DEF ops
<1>4. /\ Legal(Kind, ops, pos) <=> MayPush(Kind, scopes, name)
      /\ MayPush(Kind, scopes, name) => Nested(Kind, ops, pos + 1, new)
  BY <1>2, TextPush
<1> HIDE DEF scopes, name, new
<1>5. [Built(Kind, ops, pos, scopes) EXCEPT !.scopes = new] = Built(Kind, ops, pos + 1, new)
  BY <1>2, BuiltScope
<1>6. [builder EXCEPT !.scopes = new] = Built(Kind, ops, pos + 1, new)
  BY <1>2, <1>5
<1>7. CASE MayPush(Kind, scopes, name)
  BY <1>2, <1>3, <1>4, <1>6, <1>7, ConfiguredOn DEF Advances, ops
<1>8. CASE ~MayPush(Kind, scopes, name)
  BY <1>2, <1>3, <1>4, <1>8, Illegal DEF Advances, ops
<1> QED  BY <1>7, <1>8

LEMMA PopStep ==
  ASSUME cmd \in CommandLines, InConfig, PopConfig
  PROVE  Advances
<1> DEFINE ops == Script.ops
           scopes == builder.scopes
           new == Front(scopes)
<1>1. AtInstr("pop") /\ Configured([builder EXCEPT !.scopes = Front(@)])
  BY DEF PopConfig
<1>2. /\ ops[pos].k = "pop" /\ pos \in Nat \ {0} /\ pos <= Len(ops) /\ Kind \in Kinds
      /\ Nested(Kind, ops, pos, scopes) /\ builder = Built(Kind, ops, pos, scopes)
  BY <1>1, AtTyped
<1>3. Configured([builder EXCEPT !.scopes = new])
  BY <1>1
<1> HIDE DEF ops, scopes
<1>4. Nested(Kind, ops, pos + 1, new) /\ Legal(Kind, ops, pos)
  BY <1>2, NestedPop, LegalOthers
<1> HIDE DEF new
<1>5. [Built(Kind, ops, pos, scopes) EXCEPT !.scopes = new] = Built(Kind, ops, pos + 1, new)
  BY <1>2, BuiltScope
<1>6. [builder EXCEPT !.scopes = new] = Built(Kind, ops, pos + 1, new)
  BY <1>2, <1>5
<1> QED  BY <1>2, <1>3, <1>4, <1>6, ConfiguredOn DEF Advances, ops

LEMMA PropertyStep ==
  ASSUME cmd \in CommandLines, InConfig, ConfigProperty
  PROVE  Advances
<1> DEFINE ops == Script.ops
           op == ops[pos]
           scopes == builder.scopes
           ok == ScopeOf(scopes) = Outermost(Kind) /\ Settable(Kind, op.name, op.val)
<1>1. AtInstr("set")
  BY DEF ConfigProperty, Sets
<1>2. /\ ops[pos].k = "set" /\ Instr = op /\ pos \in Nat \ {0} /\ pos <= Len(ops) /\ Kind \in Kinds
      /\ Nested(Kind, ops, pos, scopes) /\ builder = Built(Kind, ops, pos, scopes) /\ Scope = ScopeOf(scopes)
  BY <1>1, AtTyped
<1>3. (ok => Configured([builder EXCEPT !.fields[op.name] = op.val])) /\ (~ok => Exit)
  BY <1>2 DEF ConfigProperty, Sets
<1> HIDE DEF ops, scopes
<1>4. Legal(Kind, ops, pos) <=> ok
  BY <1>2, TextSet
<1>5. CASE ok
  <2>1. op.name \in DOMAIN Fields(Kind)
    BY <1>5 DEF Settable, Fields
  <2> DEFINE old == Built(Kind, ops, pos, scopes)
             next_ == Built(Kind, ops, pos + 1, scopes)
  <2>5. AfterSet(old, op, next_)
    BY <1>2, <2>1, BuiltSet
  <2>6. builder = old
    BY <1>2
  <2> HIDE DEF old, op, next_
  <2>7. [builder EXCEPT !.fields[op.name] = op.val] = next_
    BY <2>5, <2>6 DEF AfterSet
  <2>3. Nested(Kind, ops, pos + 1, scopes)
    BY <1>2, NestedStays
  <2> DEFINE b == [builder EXCEPT !.fields[op.name] = op.val]
  <2>4. b = Built(Kind, ops, pos + 1, scopes) /\ Configured(b)
    BY <1>3, <1>5, <2>7 DEF next_
  <2> HIDE DEF b, ok, op
  <2> QED  BY <1>2, <1>4, <1>5, <2>3, <2>4, ConfiguredOn DEF Advances, ops
<1> HIDE DEF ok, op
<1>6. CASE ~ok
  BY <1>2, <1>3, <1>4, <1>6, Illegal DEF Advances, ops
<1> QED  BY <1>5, <1>6

LEMMA CommandStep ==
  ASSUME cmd \in CommandLines, InConfig, ConfigCommand
  PROVE  Advances
<1> DEFINE ops == Script.ops
           name == ops[pos].name
           scopes == builder.scopes
<1>1. AtInstr("cmd")
  BY DEF ConfigCommand
<1>2. /\ ops[pos].k = "cmd" /\ Instr.name = name /\ pos \in Nat \ {0} /\ pos <= Len(ops) /\ Kind \in Kinds
      /\ Nested(Kind, ops, pos, scopes) /\ builder = Built(Kind, ops, pos, scopes) /\ Scope = ScopeOf(scopes)
  BY <1>1, AtTyped
<1>3. /\ Scope = "request" => Configured([builder EXCEPT !.request = Append(@, name)])
      /\ Scope = "response" => Configured([builder EXCEPT !.response = Append(@, name)])
      /\ Scope = "application" => Configured([builder EXCEPT !.application = name])
      /\ Scope \notin Inner => Exit
  BY <1>2 DEF ConfigCommand, Inner
<1> HIDE DEF ops, scopes
<1>4. /\ Legal(Kind, ops, pos) <=> Scope \in Inner
      /\ Nested(Kind, ops, pos + 1, scopes) /\ Block(ops, pos) = Scope
  BY <1>2, TextCommand, NestedStays, BlockOf
<1> DEFINE next_ == Built(Kind, ops, pos + 1, scopes)
<1>5. ASSUME Scope \in Inner, NEW b, b = next_, Configured(b) PROVE Advances
  BY <1>2, <1>4, <1>5, ConfiguredOn DEF Advances, ops
<1>6. /\ Scope = "request" => [builder EXCEPT !.request = Append(@, name)] = next_
      /\ Scope = "response" => [builder EXCEPT !.response = Append(@, name)] = next_
      /\ Scope = "application" => [builder EXCEPT !.application = name] = next_
  <2> DEFINE old == Built(Kind, ops, pos, scopes)
  <2>1. AfterCommand(old, Scope, name, next_)
    <3>1. AfterCommand(old, Block(ops, pos), name, next_)
      BY <1>2, BuiltCommand
    <3> QED  BY <1>4, <3>1
  <2>2. builder = old
    BY <1>2
  <2> HIDE DEF old, next_
  <2> QED  BY <2>1, <2>2 DEF AfterCommand
<1> HIDE DEF next_, name
<1>7. CASE Scope = "request"
  BY <1>3, <1>5, <1>6, <1>7 DEF Inner
<1>8. CASE Scope = "response"
  BY <1>3, <1>5, <1>6, <1>8 DEF Inner
<1>9. CASE Scope = "application"
  BY <1>3, <1>5, <1>6, <1>9 DEF Inner
<1>10. CASE Scope \notin Inner
  BY <1>2, <1>3, <1>4, <1>10, Illegal DEF Advances, ops
<1> QED  BY <1>7, <1>8, <1>9, <1>10 DEF Inner

LEMMA CaughtStep ==
  ASSUME cmd \in CommandLines, InConfig, ConfigCaught
  PROVE  Advances
<1> DEFINE ops == Script.ops
           scopes == builder.scopes
<1>1. AtInstr("caught") /\ Configured(builder)
  BY DEF ConfigCaught
<1>2. /\ ops[pos].k = "caught" /\ pos \in Nat \ {0} /\ pos <= Len(ops) /\ Kind \in Kinds
      /\ Nested(Kind, ops, pos, scopes) /\ builder = Built(Kind, ops, pos, scopes)
  BY <1>1, AtTyped
<1> HIDE DEF ops, scopes
<1>3. Nested(Kind, ops, pos + 1, scopes) /\ Legal(Kind, ops, pos)
  BY <1>2, NestedStays, LegalOthers
<1>4. [Built(Kind, ops, pos, scopes) EXCEPT !.scopes = scopes] = Built(Kind, ops, pos + 1, scopes)
  BY <1>2, BuiltScope
<1>5. [Built(Kind, ops, pos, scopes) EXCEPT !.scopes = scopes] = Built(Kind, ops, pos, scopes)
  BY DEF Built
<1>6. builder = Built(Kind, ops, pos + 1, scopes)
  BY <1>2, <1>4, <1>5
<1> QED  BY <1>1, <1>2, <1>3, <1>6, ConfiguredOn DEF Advances, ops

LEMMA RaiseStep ==
  ASSUME cmd \in CommandLines, InConfig, ConfigRaises
  PROVE  Advances
<1>1. AtInstr("raise") /\ Exit
  BY DEF ConfigRaises
<1>2. Script.ops[pos].k = "raise" /\ pos <= Len(Script.ops)
  BY <1>1, AtTyped
<1>3. ~Legal(Kind, Script.ops, pos)
  BY <1>2, LegalOthers
<1> QED  BY <1>1, <1>2, <1>3, Illegal DEF Advances


----------------------------------------------------------------------------
(* Steps of main.                                                            *)

LEMMA SameCommand ==
  ASSUME cmd' = cmd
  PROVE  /\ Known' <=> Known
         /\ Serveable' <=> Serveable
         /\ \A l, n : HostsTo(l, n)' = HostsTo(l, n) /\ Mine(l, n)' = Mine(l, n)
         /\ \A h : (Placed(h)' <=> Placed(h)) /\ (Misplaced(h)' <=> Misplaced(h))
         /\ \A g, h : Apart(g, h)' <=> Apart(g, h)
         /\ \A i : After(i)' = After(i)
<1>1. \A h : Owner(h)' = Owner(h)
  BY DEF Owner
<1>2. \A h : (Placed(h)' <=> Placed(h)) /\ (Misplaced(h)' <=> Misplaced(h))
  BY <1>1 DEF Placed, Misplaced
<1>3. \A g, h : Apart(g, h)' <=> Apart(g, h)
  BY <1>1 DEF Apart
<1>4. \A i : After(i)' = After(i)
  BY <1>1 DEF After
<1>5. Clash' <=> Clash
  BY <1>3, <1>4 DEF Clash
<1>6. Known' <=> Known
  BY DEF Known
<1>7. Serveable' <=> Serveable
  BY <1>2, <1>5, <1>6 DEF Serveable
<1>8. \A l, n : Mine(l, n)' = Mine(l, n)
  BY <1>1 DEF Mine
<1>9. \A l, n : HostsTo(l, n)' = HostsTo(l, n)
  BY <1>8 DEF HostsTo
<1> QED  BY <1>2, <1>3, <1>4, <1>6, <1>7, <1>8, <1>9

LEMMA SameAccepted ==
  ASSUME cmd' = cmd, listeners' = listeners
  PROVE  \A n : Accepted(n) => Accepted(n)'
BY SameCommand DEF Accepted, Compatible

LEMMA EndStep ==
  ASSUME cmd \in CommandLines, ~Serveable, NEW as \in {"exited", "panicked"}, Ends(as)
  PROVE  Progress'
<1>1. phase' = as /\ cmd' = cmd
  BY DEF Ends
<1>2. ~Serveable'
  BY <1>1, SameCommand
<1> QED  BY <1>1, <1>2 DEF Progress

LEMMA LoadStep ==
  ASSUME Progress, LoadScript
  PROVE  Progress'
<1>1. cmd \in CommandLines /\ phase = "load" /\ host <= Len(cmd.hosts) /\ Accepted(host - 1)
  BY DEF Progress, LoadScript
<1>2. IsList(cmd.hosts)
  BY <1>1, CommandLinesAssumption DEF CommandLinesAssumption
<1>3. host \in 1..Len(cmd.hosts) + 1 /\ InScript
  <2>1. host # Len(cmd.hosts) + 1 /\ host \in 1..Len(cmd.hosts) + 1
    BY <1>1, <1>2 DEF IsList, Progress
  <2> QED  BY <1>1, <2>1 DEF Progress
<1>4. CASE ~Script.compiles
  <2>1. Ends("exited")
    BY <1>4 DEF LoadScript, Exit
  <2>2. ~SoundScript
    BY <1>4 DEF SoundScript, SoundMain, SoundService, Script
  <2> QED  BY <1>1, <1>3, <2>1, <2>2, UnsoundScript, EndStep
<1>5. CASE Script.compiles
  <2>1. /\ builder' = [NoBuilder EXCEPT !.fields = Fields(Kind)] /\ pos' = 1 /\ phase' = "config"
        /\ UNCHANGED <<cmd, host, script, made, listeners>>
    BY <1>5 DEF LoadScript
  <2>2. Kind \in Kinds /\ IsList(Script.ops)
    BY <1>1, <1>3, ScriptTyped DEF IsScript
  <2>3. /\ Nested(Kind, Script.ops, 1, <<>>)
        /\ [NoBuilder EXCEPT !.fields = Fields(Kind)] = Built(Kind, Script.ops, 1, <<>>)
    BY <2>2, BuiltStart
  <2>4. Host' = Host /\ Script' = Script /\ Kind' = Kind
    BY <2>1 DEF Host, Script, Kind
  <2>5. builder' = Built(Kind, Script.ops, 1, <<>>)
    BY <2>1, <2>3
  <2>6. builder'.scopes = <<>>
    BY <2>5 DEF Built
  <2>7. MadeTo(script - 1) => MadeTo(script - 1)'
    BY <2>1, <2>4 DEF MadeTo
  <2>8. InScript'
    BY <1>3, <2>1, <2>4, <2>7 DEF InScript
  <2>9. pos' \in 1..Len(Script.ops) + 1 /\ \A i \in 1..pos' - 1 : Legal(Kind, Script.ops, i)
    BY <2>1, <2>2 DEF IsList
  <2>10. InConfig'
    BY <1>5, <2>1, <2>3, <2>4, <2>5, <2>6, <2>8, <2>9 DEF InConfig
  <2>11. Accepted(host - 1)'
    BY <1>1, <2>1, SameAccepted
  <2> QED  BY <1>1, <1>3, <2>1, <2>10, <2>11 DEF Progress
<1> QED  BY <1>4, <1>5

(* One call of a builder.                                                    *)
LEMMA ConfigStep ==
  ASSUME Progress, PushConfig \/ PopConfig \/ ConfigProperty \/ ConfigCommand \/ ConfigRaises \/ ConfigCaught
  PROVE  Progress'
<1>1. cmd \in CommandLines
  BY DEF Progress
<1>2. phase = "config"
  BY DEF PushConfig, PopConfig, ConfigProperty, ConfigCommand, ConfigRaises, ConfigCaught, AtInstr
<1>3. InConfig /\ Accepted(host - 1) /\ host \in 1..Len(cmd.hosts) + 1
  BY <1>2 DEF Progress
<1>4. Advances
  BY <1>1, <1>3, PushStep, PopStep, PropertyStep, CommandStep, RaiseStep, CaughtStep
<1>5. CASE InConfig' /\ UNCHANGED <<cmd, phase, host, script, made, listeners>>
  <2>1. Accepted(host - 1)'
    BY <1>3, <1>5, SameAccepted
  <2> QED  BY <1>1, <1>2, <1>3, <1>5, <2>1 DEF Progress
<1>6. CASE Exit /\ ~Serveable
  BY <1>1, <1>6, EndStep DEF Exit
<1> QED  BY <1>4, <1>5, <1>6 DEF Advances

----------------------------------------------------------------------------
(* The end of a script.                                                      *)

LEMMA ScriptRead ==
  ASSUME cmd \in CommandLines, InConfig, AtEnd
  PROVE  /\ builder.fields = Written(Kind, Script.ops)
         /\ builder.request = Commands(Script.ops, "request")
         /\ builder.response = Commands(Script.ops, "response")
         /\ builder.application =
              IF Commands(Script.ops, "application") = <<>> THEN "" ELSE Last(Commands(Script.ops, "application"))
         /\ Script.compiles /\ \A i \in DOMAIN Script.ops : Legal(Kind, Script.ops, i)
<1> DEFINE ops == Script.ops
           kind == Kind
           scopes == builder.scopes
<1>1. IsList(ops)
  BY ScriptTyped DEF InConfig, IsScript
<1>2. pos = Len(ops) + 1
  BY <1>1 DEF IsList, InConfig, AtEnd
<1>3. \A i \in DOMAIN ops : Legal(Kind, ops, i)
  <2>1. 1..pos - 1 = DOMAIN ops
    BY <1>1, <1>2 DEF IsList
  <2> QED  BY <2>1 DEF InConfig
<1>4. builder = Built(kind, ops, Len(ops) + 1, scopes)
  BY <1>2 DEF InConfig
<1> HIDE DEF ops, kind, scopes
<1> DEFINE b == Built(kind, ops, Len(ops) + 1, scopes)
<1>5. /\ b.fields = Written(kind, ops)
      /\ b.request = Commands(ops, "request") /\ b.response = Commands(ops, "response")
      /\ b.application =
           IF Commands(ops, "application") = <<>> THEN "" ELSE Last(Commands(ops, "application"))
  BY <1>1, BuiltEnd
<1> HIDE DEF b
<1>6. builder = b /\ Script.compiles
  BY <1>4 DEF b, InConfig
<1> QED  BY <1>3, <1>5, <1>6 DEF ops, kind

LEMMA ComposeVHostStep ==
  ASSUME Progress, ComposeVHost
  PROVE  Progress'
<1>1. cmd \in CommandLines /\ phase = "config" /\ script = 0 /\ AtEnd
  BY DEF Progress, ComposeVHost, AtEnd
<1>2. InConfig /\ Accepted(host - 1) /\ host \in 1..Len(cmd.hosts) + 1
  BY <1>1 DEF Progress
<1>3. /\ host \in DOMAIN cmd.hosts /\ Script = Host.main /\ Kind = Host.type
      /\ Host.type \in Types /\ IsList(Host.services)
  BY <1>1, <1>2, HostTyped DEF InConfig, InScript, Script, Kind
<1>4. /\ builder.fields = Written(Host.type, Host.main.ops)
      /\ Host.main.compiles /\ \A i \in DOMAIN Host.main.ops : Legal(Host.type, Host.main.ops, i)
  BY <1>1, <1>2, <1>3, ScriptRead
<1>5. Written(Host.type, Host.main.ops)["log_format"] = Value(Host.main.ops, "log_format")
  <2>1. "log_format" \in DOMAIN Fields(Host.type)
    BY <1>3 DEF Types, Fields, Strings
  <2> QED  BY <2>1 DEF Written
<1>6. SoundMain(Host) <=> FormatOk(builder.fields["log_format"])
  BY <1>4, <1>5 DEF SoundMain
<1>7. CASE ~FormatOk(builder.fields["log_format"])
  <2>1. Ends("exited")
    BY <1>7 DEF ComposeVHost, Exit
  <2>2. ~SoundScript
    BY <1>1, <1>6, <1>7 DEF SoundScript
  <2>3. ~Serveable
    BY <1>1, <1>2, <2>2, UnsoundScript DEF InConfig
  <2> QED  BY <1>1, <2>1, <2>3, EndStep
<1>8. CASE FormatOk(builder.fields["log_format"])
  <2>1. /\ made' = [type |-> Host.type, config |-> Written(Host.type, Host.main.ops), services |-> <<>>]
        /\ script' = 1 /\ UNCHANGED <<cmd, host, pos, builder, listeners>>
        /\ phase' = IF Host.type = "http" /\ 0 < Len(Host.services) THEN "load" ELSE "add"
    BY <1>1, <1>4, <1>8 DEF ComposeVHost, NextScript
  <2>2. SoundMain(Host) /\ Host' = Host
    BY <1>6, <1>8, <2>1 DEF Host
  <2>3. Accepted(host - 1)'
    BY <1>2, <2>1, SameAccepted
  <2>4. Len(Host.services) \in Nat /\ DOMAIN Host.services = 1..Len(Host.services)
    BY <1>3 DEF IsList
  <2>5. CASE Host.type = "http" /\ 0 < Len(Host.services)
    <3>1. 1 \in DOMAIN Host.services /\ 1..1 - 1 = {}
      BY <2>4, <2>5
    <3>2. MadeTo(1 - 1)'
      BY <2>1, <2>2, <3>1 DEF MadeTo
    <3>3. InScript'
      BY <1>3, <2>1, <2>2, <2>5, <3>1, <3>2 DEF InScript
    <3>4. phase' = "load"
      BY <2>1, <2>5
    <3> QED  BY <1>1, <1>2, <2>1, <2>3, <3>3, <3>4 DEF Progress
  <2>6. CASE ~(Host.type = "http" /\ 0 < Len(Host.services))
    <3>1. Host.type = "http" => DOMAIN Host.services = {}
      BY <2>4, <2>6
    <3>2. Sound(Host)
      BY <2>2, <3>1 DEF Sound
    <3>3. made' = WrittenHost(Host)
      <4> DEFINE services == IF Host.type = "http"
                             THEN [i \in DOMAIN Host.services |-> WrittenService(Host.services[i])] ELSE <<>>
      <4>1. services = <<>>
        <5>2. CASE Host.type = "http"
          <6>1. [i \in DOMAIN Host.services |-> WrittenService(Host.services[i])] =
                  [i \in {} |-> WrittenService(Host.services[i])]
            BY <3>1, <5>2
          <6> HIDE DEF services
          <6>2. [i \in {} |-> WrittenService(Host.services[i])] = <<>>
            OBVIOUS
          <6> QED  BY <5>2, <6>1, <6>2 DEF services
        <5> QED  BY <5>2
      <4> HIDE DEF services
      <4>2. made' = [type |-> Host.type, config |-> Written(Host.type, Host.main.ops), services |-> services]
        BY <2>1, <4>1
      <4> QED  BY <4>2 DEF WrittenHost, services
    <3>4. Sound(Host)'
      BY <2>2, <3>2
    <3>5. made' = WrittenHost(Host)'
      BY <2>2, <3>3
    <3>6. phase' = "add"
      BY <2>1, <2>6
    <3> QED  BY <1>1, <1>2, <1>3, <2>1, <2>3, <3>4, <3>5, <3>6 DEF Progress
  <2> QED  BY <2>5, <2>6
<1> QED  BY <1>7, <1>8

LEMMA ComposeServiceStep ==
  ASSUME Progress, ComposeService
  PROVE  Progress'
<1>1. cmd \in CommandLines /\ phase = "config" /\ script # 0 /\ AtEnd
  BY DEF Progress, ComposeService, AtEnd
<1>2. InConfig /\ Accepted(host - 1) /\ host \in 1..Len(cmd.hosts) + 1
  BY <1>1 DEF Progress
<1>3. /\ host \in DOMAIN cmd.hosts /\ script \in DOMAIN Host.services /\ Host.type = "http" /\ MadeTo(script - 1)
      /\ Script = Host.services[script] /\ Kind = "service" /\ IsList(Host.services)
  BY <1>1, <1>2, HostTyped DEF InConfig, InScript, Script, Kind
<1> DEFINE w == WrittenService(Script)
<1>4. ComposedService = w
  BY <1>1, <1>2, <1>3, ScriptRead DEF ComposedService, WrittenService
<1>5. /\ ComposedService.config = builder.fields /\ ComposedService.request = builder.request
      /\ ComposedService.response = builder.response /\ ComposedService.application = builder.application
  BY DEF ComposedService
<1>6. Script.compiles /\ \A i \in DOMAIN Script.ops : Legal("service", Script.ops, i)
  BY <1>1, <1>2, <1>3, ScriptRead
<1>7. newRouter(builder.fields["router"]) \in {"error", "panic", "ok"}
  BY DEF newRouter
<1>8. SoundService(Script) <=> ~ServiceRefused /\ newRouter(builder.fields["router"]) = "ok"
  <2> HIDE DEF w
  <2>1. SoundService(Script) <=>
          /\ Script.compiles /\ \A i \in DOMAIN Script.ops : Legal("service", Script.ops, i)
          /\ ToSet(w.request) \subseteq RequestFactories /\ ToSet(w.response) \subseteq ResponseFactories
          /\ w.application \in ApplicationFactories /\ newRouter(w.config["router"]) = "ok"
    BY DEF SoundService, w
  <2> QED  BY <1>4, <1>5, <1>6, <1>7, <2>1 DEF ServiceRefused
<1>9. CASE ~SoundService(Script)
  <2>1. PICK as \in {"exited", "panicked"} : Ends(as)
    <3>1. Composed(Append(made.services, ComposedService))
      BY DEF ComposeService
    <3>2. ServiceRefused \/ newRouter(builder.fields["router"]) \in {"error", "panic"}
      BY <1>7, <1>8, <1>9
    <3>3. newRouter(builder.fields["router"]) = "error" => ServiceRefused
      BY DEF ServiceRefused
    <3>4. Ends("exited") \/ Ends("panicked")
      BY <3>1, <3>2, <3>3 DEF Composed, Exit
    <3> QED  BY <3>4
  <2>2. ~SoundScript
    BY <1>1, <1>9 DEF SoundScript
  <2>3. ~Serveable
    BY <1>1, <1>2, <2>2, UnsoundScript DEF InConfig
  <2> QED  BY <1>1, <2>1, <2>3, EndStep
<1>10. CASE SoundService(Script)
  <2> DEFINE all == [k \in 1..script |-> WrittenService(Host.services[k])]
             before == [k \in 1..script - 1 |-> WrittenService(Host.services[k])]
  <2>1. /\ made' = [made EXCEPT !.services = Append(made.services, ComposedService)]
        /\ script' = script + 1 /\ UNCHANGED <<cmd, host, pos, builder, listeners>>
        /\ phase' = IF Host.type = "http" /\ script < Len(Host.services) THEN "load" ELSE "add"
    BY <1>8, <1>10 DEF ComposeService, Composed, NextScript
  <2>2. Host' = Host
    BY <2>1 DEF Host
  <2>3. Accepted(host - 1)'
    BY <1>2, <2>1, SameAccepted
  <2>4. /\ Len(Host.services) \in Nat /\ DOMAIN Host.services = 1..Len(Host.services)
        /\ script - 1 \in Nat /\ script - 1 + 1 = script /\ script + 1 - 1 = script
    BY <1>3 DEF IsList
  <2>5. SoundMain(Host) /\ \A k \in 1..script : SoundService(Host.services[k])
    <3>1. \A k \in 1..script : k \in 1..script - 1 \/ k = script
      BY <2>4
    <3> QED  BY <1>3, <1>10, <3>1 DEF MadeTo
  <2>6. all = Append(before, w)
    <3> DEFINE S == {WrittenService(Host.services[k]) : k \in 1..script}
    <3>1. all \in [1..script - 1 + 1 -> S] /\ all[script - 1 + 1] = w
      BY <1>3, <2>4
    <3>2. before \in [1..script - 1 -> S] /\ \A k \in 1..script - 1 : all[k] = before[k]
      BY <2>4
    <3> HIDE DEF S, all, before, w
    <3> QED  BY <2>4, <3>1, <3>2, AppendListed
  <2>7. made = [type |-> Host.type, config |-> Written(Host.type, Host.main.ops), services |-> before]
    BY <1>3 DEF MadeTo
  <2>8. made' = [type |-> Host.type, config |-> Written(Host.type, Host.main.ops), services |-> all]
    <3> DEFINE t == Host.type
               c == Written(Host.type, Host.main.ops)
    <3>1. made' = [made EXCEPT !.services = Append(made.services, w)]
      BY <1>4, <2>1
    <3> HIDE DEF t, c, w, before, all
    <3>2. made = [type |-> t, config |-> c, services |-> before]
      BY <2>7 DEF t, c
    <3>3. made.services = before
      BY <3>2
    <3>4. made' = [made EXCEPT !.services = all]
      BY <2>6, <3>1, <3>3
    <3>5. made' = [type |-> t, config |-> c, services |-> all]
      BY <3>2, <3>4
    <3> QED  BY <3>5 DEF t, c
  <2>9. CASE script < Len(Host.services)
    <3>1. script + 1 \in DOMAIN Host.services
      BY <2>4, <2>9
    <3>2. script' - 1 = script
      BY <2>1, <2>4
    <3>3. MadeTo(script - 1)'
      BY <2>2, <2>5, <2>8, <3>2 DEF MadeTo
    <3>5. InScript'
      BY <1>3, <2>1, <2>2, <3>1, <3>3 DEF InScript
    <3>4. phase' = "load"
      BY <1>3, <2>1, <2>9
    <3> QED  BY <1>1, <1>2, <2>1, <2>3, <3>4, <3>5 DEF Progress
  <2>10. CASE ~(script < Len(Host.services))
    <3>1. DOMAIN Host.services = 1..script
      BY <1>3, <2>4, <2>10
    <3>2. Sound(Host)
      BY <2>5, <3>1 DEF Sound
    <3>3. made' = WrittenHost(Host)
      BY <1>3, <2>8, <3>1 DEF WrittenHost
    <3>4. Sound(Host)'
      BY <2>2, <3>2
    <3>5. made' = WrittenHost(Host)'
      BY <2>2, <3>3
    <3>6. phase' = "add"
      BY <2>1, <2>10
    <3> QED  BY <1>1, <1>2, <1>3, <2>1, <2>3, <3>4, <3>5, <3>6 DEF Progress
  <2> QED  BY <2>9, <2>10
<1> QED  BY <1>9, <1>10

----------------------------------------------------------------------------
(* What the listeners serve.                                                 *)

LEMMA OrderedEmpty == Ordered({}) /\ \A hosts : HostList(hosts, {}) = <<>>
<1>1. DOMAIN InOrder({}) = {}
  BY InOrderEmpty
<1> QED  BY <1>1 DEF Ordered, HostList

LEMMA OrderedAdded ==
  ASSUME NEW S, S \subseteq Nat, IsFiniteSet(S), NEW p \in Nat, \A i \in S : i < p, Ordered(S)
  PROVE  Ordered(S \cup {p})
<1> DEFINE n == Cardinality(S)
           u == InOrder(S)
           v == InOrder(S \cup {p})
<1>1. /\ DOMAIN u = 1..n /\ DOMAIN v = 1..n + 1 /\ n \in Nat /\ v[n + 1] = p
      /\ \A k \in 1..n : v[k] = u[k]
  BY InOrderAdded
<1>2. v = Append(u, p)
  BY InOrderAdded
<1>3. /\ \A k \in DOMAIN u : u[k] \in S
      /\ \A i \in S : \E k \in DOMAIN u : u[k] = i
  BY DEF Ordered
<1>4. v = [k \in DOMAIN v |-> v[k]]
  BY DEF InOrder
<1> HIDE DEF n, u, v
<1>5. Last(v) = p
  <2>1. v \in Seq(S \cup {p}) /\ Len(v) = n + 1
    <3>1. \A k \in 1..n + 1 : v[k] \in S \cup {p}
      BY <1>1, <1>3
    <3>2. v \in [1..n + 1 -> S \cup {p}]
      BY <1>1, <1>4, <3>1
    <3> QED  BY <1>1, <3>2
  <2> QED  BY <1>1, <2>1 DEF Last
<1>6. \A k \in DOMAIN v : v[k] \in S \cup {p}
  BY <1>1, <1>3
<1>7. \A i \in S \cup {p} : \E k \in DOMAIN v : v[k] = i
  <2>1. n + 1 \in DOMAIN v /\ v[n + 1] = p
    BY <1>1
  <2>2. \A i \in S : \E k \in DOMAIN v : v[k] = i
    BY <1>1, <1>3
  <2> QED  BY <2>1, <2>2
<1>8. \A i \in S \cup {p} : i <= p
  OBVIOUS
<1> QED  BY <1>5, <1>6, <1>7, <1>8 DEF Ordered, v

LEMMA HostAdded ==
  ASSUME NEW hosts, NEW S, S \subseteq Nat, IsFiniteSet(S), NEW p \in Nat, \A i \in S : i < p
  PROVE  /\ HostList(hosts, S \cup {p}) = Append(HostList(hosts, S), WrittenHost(hosts[p]))
         /\ HostList(hosts, S \cup {p}) # <<>>
         /\ Last(HostList(hosts, S \cup {p})) = WrittenHost(hosts[p])
<1> DEFINE n == Cardinality(S)
           u == InOrder(S)
           v == InOrder(S \cup {p})
           s == HostList(hosts, S)
           t == HostList(hosts, S \cup {p})
<1>1. /\ DOMAIN u = 1..n /\ DOMAIN v = 1..n + 1 /\ n \in Nat /\ v[n + 1] = p
      /\ \A k \in 1..n : v[k] = u[k]
  BY InOrderAdded
<1>2. s = [k \in DOMAIN u |-> WrittenHost(hosts[u[k]])] /\ t = [k \in DOMAIN v |-> WrittenHost(hosts[v[k]])]
  BY DEF HostList
<1> HIDE DEF n, u, v, s, t
<1> DEFINE A == {WrittenHost(hosts[u[k]]) : k \in 1..n} \cup {WrittenHost(hosts[v[k]]) : k \in 1..n + 1}
<1>3. s \in [1..n -> A] /\ t \in [1..n + 1 -> A]
  BY <1>1, <1>2
<1>4. t[n + 1] = WrittenHost(hosts[p]) /\ \A k \in 1..n : t[k] = s[k]
  BY <1>1, <1>2
<1> HIDE DEF A
<1>5. t = Append(s, t[n + 1])
  BY <1>1, <1>3, <1>4, AppendListed
<1>6. t \in Seq(A) /\ Len(t) = n + 1
  BY <1>1, <1>3
<1>7. t # <<>> /\ Last(t) = t[n + 1]
  BY <1>1, <1>6 DEF Last
<1> QED  BY <1>4, <1>5, <1>7 DEF s, t

LEMMA MineStep ==
  ASSUME IsList(cmd.hosts), NEW n \in Nat, NEW l
  PROVE  /\ Mine(l, n) \subseteq Nat /\ IsFiniteSet(Mine(l, n)) /\ \A i \in Mine(l, n) : i \in 1..n /\ i < n + 1
         /\ Mine(l, 0) = {}
         /\ n + 1 \in DOMAIN cmd.hosts =>
              Mine(l, n + 1) = IF Owner(cmd.hosts[n + 1]) = l THEN Mine(l, n) \cup {n + 1} ELSE Mine(l, n)
<1>1. Len(cmd.hosts) \in Nat /\ DOMAIN cmd.hosts = 1..Len(cmd.hosts)
  BY DEF IsList
<1>2. Mine(l, n) \subseteq 1..n
  BY <1>1 DEF Mine
<1>3. IsFiniteSet(1..n)
  BY FS_Interval
<1>4. IsFiniteSet(Mine(l, n))
  BY <1>2, <1>3, FS_Subset
<1>5. Mine(l, 0) = {}
  BY <1>1 DEF Mine
<1>6. n + 1 \in DOMAIN cmd.hosts =>
        Mine(l, n + 1) = IF Owner(cmd.hosts[n + 1]) = l THEN Mine(l, n) \cup {n + 1} ELSE Mine(l, n)
  <2> SUFFICES ASSUME n + 1 \in DOMAIN cmd.hosts
               PROVE  Mine(l, n + 1) = IF Owner(cmd.hosts[n + 1]) = l THEN Mine(l, n) \cup {n + 1} ELSE Mine(l, n)
    OBVIOUS
  <2>1. \A i \in DOMAIN cmd.hosts : i <= n + 1 <=> i <= n \/ i = n + 1
    BY <1>1
  <2> QED  BY <2>1 DEF Mine
<1> QED  BY <1>2, <1>4, <1>5, <1>6

(* The virtual hosts of a listener: all that name it, or the last of them.   *)
LEMMA Served ==
  ASSUME IsList(cmd.hosts), NEW n \in Nat, NEW l, Ordered(Mine(l, n)), NEW type
  PROVE  LET hosts == Kept(type, HostList(cmd.hosts, Mine(l, n)))
             mine == Mine(l, n)
         IN /\ type = "http" =>
                 /\ \A k \in DOMAIN hosts : \E a \in mine : hosts[k] = WrittenHost(cmd.hosts[a])
                 /\ \A a \in mine : \E k \in DOMAIN hosts : hosts[k] = WrittenHost(cmd.hosts[a])
            /\ type # "http" =>
                 \/ hosts = <<>> /\ mine = {}
                 \/ \E g \in mine : hosts = <<WrittenHost(cmd.hosts[g])>> /\ \A a \in mine : a <= g
<1> DEFINE S == Mine(l, n)
           u == InOrder(S)
           c == Cardinality(S)
           list == HostList(cmd.hosts, S)
<1>1. S \subseteq Nat /\ IsFiniteSet(S) /\ c \in Nat
  BY MineStep, FS_CardinalityType
<1>2. DOMAIN u = 1..c /\ u = [k \in 1..c |-> u[k]]
  BY DEF InOrder
<1>3. /\ \A k \in DOMAIN u : u[k] \in S
      /\ \A i \in S : \E k \in DOMAIN u : u[k] = i
      /\ \A i \in S : i <= Last(u)
  BY DEF Ordered
<1>4. list = [k \in DOMAIN u |-> WrittenHost(cmd.hosts[u[k]])]
  BY DEF HostList
<1> HIDE DEF S, u, c, list
<1>5. CASE type = "http"
  <2>1. Kept(type, list) = list
    BY <1>5 DEF Kept
  <2>2. /\ \A k \in DOMAIN list : \E a \in S : list[k] = WrittenHost(cmd.hosts[a])
        /\ \A a \in S : \E k \in DOMAIN list : list[k] = WrittenHost(cmd.hosts[a])
    BY <1>3, <1>4
  <2> QED  BY <1>5, <2>1, <2>2 DEF S, list
<1>6. CASE type # "http" /\ S = {}
  <2>1. list = <<>>
    BY <1>6, OrderedEmpty DEF list
  <2>2. Kept(type, list) = <<>>
    BY <2>1 DEF Kept
  <2> QED  BY <1>6, <2>2 DEF S, list
<1>7. CASE type # "http" /\ S # {}
  <2>1. c > 0 /\ c \in DOMAIN u
    <3>1. \E k \in 1..c : TRUE
      BY <1>2, <1>3, <1>7
    <3> QED  BY <1>1, <1>2, <3>1
  <2>2. u \in Seq(S) /\ Len(u) = c
    <3>1. u \in [1..c -> S]
      BY <1>2, <1>3
    <3> QED  BY <1>1, <3>1
  <2>3. Last(u) = u[c] /\ u[c] \in S
    BY <1>3, <2>1, <2>2 DEF Last
  <2> DEFINE A == {WrittenHost(cmd.hosts[u[k]]) : k \in 1..c}
  <2>4. list \in [1..c -> A]
    BY <1>2, <1>4
  <2> HIDE DEF A
  <2>5. list \in Seq(A) /\ Len(list) = c
    BY <1>1, <2>4
  <2>6. list # <<>> /\ Last(list) = list[c]
    BY <2>1, <2>5 DEF Last
  <2>7. Last(list) = WrittenHost(cmd.hosts[Last(u)])
    BY <1>4, <2>1, <2>3, <2>6
  <2>8. Kept(type, list) = <<WrittenHost(cmd.hosts[Last(u)])>>
    BY <1>7, <2>6, <2>7 DEF Kept
  <2> QED  BY <1>3, <1>7, <2>3, <2>8 DEF S, list
<1> QED  BY <1>5, <1>6, <1>7 DEF S

----------------------------------------------------------------------------
(* Making the listeners, and adding a virtual host.                          *)

LEMMA NewServerStep ==
  ASSUME Progress, NewServer
  PROVE  Progress'
<1>1. cmd \in CommandLines /\ phase = "listeners" /\ host = 1 /\ script = 0
  BY DEF Progress, NewServer
<1>2. IsList(cmd.hosts)
  BY <1>1, CommandLinesAssumption DEF CommandLinesAssumption
<1>3. CASE ~Known
  <2>1. Ends("exited")
    BY <1>3 DEF NewServer, Exit, Known
  <2> QED  BY <1>1, <1>3, <2>1, EndStep DEF Serveable
<1>4. CASE Known
  <2>1. /\ listeners' = [i \in DOMAIN cmd.listeners |->
             [type |-> cmd.listeners[i].type, name |-> cmd.listeners[i].name, hosts |-> <<>>]]
        /\ phase' = "load" /\ UNCHANGED <<cmd, host, script, pos, builder, made>>
    BY <1>4 DEF NewServer, Known
  <2>2. \A l : Mine(l, 0) = {}
    BY <1>2, MineStep
  <2>3. \A l : HostsTo(l, 0) = <<>>
    BY <2>2, OrderedEmpty DEF HostsTo, Kept
  <2>4. \A l : HostsTo(l, 0)' = <<>> /\ Ordered(Mine(l, 0))'
    BY <2>1, <2>2, <2>3, SameCommand, OrderedEmpty
  <2>5. Accepted(0)'
    <3>1. Known' /\ 1..0 = {}
      BY <1>4, <2>1, SameCommand
    <3>2. Compatible(0)'
      BY <3>1 DEF Compatible
    <3> QED  BY <2>1, <2>4, <3>1, <3>2 DEF Accepted
  <2>6. Accepted(host - 1)'
    <3>1. host' - 1 = 0
      BY <1>1, <2>1
    <3> QED  BY <2>5, <3>1
  <2>7. host' \in 1..Len(cmd'.hosts) + 1 /\ (host' \in DOMAIN cmd'.hosts \/ host' = Len(cmd'.hosts) + 1)
    BY <1>1, <1>2, <2>1 DEF IsList
  <2>8. host' \in DOMAIN cmd'.hosts => InScript'
    BY <1>1, <2>1 DEF InScript
  <2> QED  BY <1>1, <2>1, <2>6, <2>7, <2>8 DEF Progress
<1> QED  BY <1>3, <1>4

LEMMA NamesWritten ==
  ASSUME NEW h, h.type \in Types
  PROVE  /\ WrittenHost(h).type = h.type
         /\ WrittenHost(h).config["name"] = Value(h.main.ops, "name")
         /\ WrittenHost(h).config["listener"] = Value(h.main.ops, "listener")
         /\ h.type = "http" => WrittenHost(h).config["server_name"] = Value(h.main.ops, "server_name")
<1>1. "name" \in DOMAIN Fields(h.type) /\ "listener" \in DOMAIN Fields(h.type)
  BY DEF Types, Fields, Strings
<1>2. h.type = "http" => "server_name" \in DOMAIN Fields(h.type)
  BY DEF Fields, Strings
<1> DEFINE w == Written(h.type, h.main.ops)
<1>3. /\ w["name"] = Value(h.main.ops, "name") /\ w["listener"] = Value(h.main.ops, "listener")
      /\ h.type = "http" => w["server_name"] = Value(h.main.ops, "server_name")
  BY <1>1, <1>2 DEF Written
<1> HIDE DEF w
<1>4. WrittenHost(h).type = h.type /\ WrittenHost(h).config = w
  BY DEF WrittenHost, w
<1> QED  BY <1>3, <1>4

(* getListener finds the listener that the virtual host is written for.      *)
LEMMA OwnerFound ==
  ASSUME cmd \in CommandLines, NEW n, Accepted(n), host \in DOMAIN cmd.hosts, made = WrittenHost(Host)
  PROVE  /\ getListener(made.config["listener"]) = Owner(Host)
         /\ Owner(Host) # 0 => Owner(Host) \in DOMAIN cmd.listeners
<1>1. Host.type \in Types /\ IsList(cmd.listeners)
  BY CommandLinesAssumption DEF CommandLinesAssumption, Host
<1> DEFINE wanted == made.config["listener"]
           named == {i \in DOMAIN cmd.listeners : cmd.listeners[i].name = wanted}
<1>2. wanted = Value(Host.main.ops, "listener")
  BY <1>1, NamesWritten
<1>3. \A i \in DOMAIN cmd.listeners : listeners[i].name = cmd.listeners[i].name
  BY DEF Accepted
<1>4. DOMAIN listeners = DOMAIN cmd.listeners
  BY DEF Accepted
<1> HIDE DEF wanted
<1>5. {i \in DOMAIN listeners : listeners[i].name = wanted} = named
  BY <1>3, <1>4
<1>6. {i \in DOMAIN cmd.listeners : cmd.listeners[i].name = Value(Host.main.ops, "listener")} = named
  BY <1>2
<1>7. getListener(wanted) = IF named = {} THEN 0 ELSE Min(named)
  BY <1>5 DEF getListener
<1>8. Owner(Host) = IF named = {} THEN 0 ELSE Min(named)
  BY <1>6 DEF Owner
<1>9. named # {} => Min(named) \in DOMAIN cmd.listeners
  <2>1. named \subseteq Nat
    BY <1>1 DEF IsList
  <2>2. named # {} => Min(named) \in named
    BY <2>1, LeastOne
  <2> QED  BY <2>2
<1> HIDE DEF named
<1> QED  BY <1>7, <1>8, <1>9 DEF wanted

(* Virtual host n + 1 is to be added to listener i.                          *)
Adding(n, i) ==
  /\ cmd \in CommandLines /\ n \in Nat /\ host = n + 1 /\ host \in DOMAIN cmd.hosts
  /\ Accepted(n) /\ Sound(Host) /\ made = WrittenHost(Host)
  /\ i = Owner(Host) /\ i \in DOMAIN cmd.listeners

(* Those before it on the listener.                                          *)
LEMMA Earlier ==
  ASSUME NEW n, NEW i, Adding(n, i), NEW a \in Mine(i, n)
  PROVE  /\ a \in DOMAIN cmd.hosts /\ a \in 1..n /\ a < host /\ Owner(cmd.hosts[a]) = i
         /\ host \in After(a)
         /\ cmd.hosts[a].type \in Types /\ (cmd.hosts[a].type = "redis" => Host.type = "redis")
<1>1. IsList(cmd.hosts) /\ host = n + 1 /\ n \in Nat /\ host \in DOMAIN cmd.hosts /\ Owner(cmd.hosts[host]) = i
  BY CommandLinesAssumption DEF CommandLinesAssumption, Adding, Host
<1>2. a \in 1..n /\ a < host
  BY <1>1, MineStep
<1>3. a \in DOMAIN cmd.hosts /\ Owner(cmd.hosts[a]) = i
  BY DEF Mine
<1>4. host \in After(a)
  BY <1>1, <1>2, <1>3 DEF After
<1>5. cmd.hosts[a].type \in Types
  BY <1>3, CommandLinesAssumption DEF CommandLinesAssumption, Adding
<1>6. cmd.hosts[a].type = "redis" => Host.type = "redis"
  <2>1. a \in 1..host - 1
    BY <1>1, <1>2
  <2>2. \A j \in 1..host - 1 : cmd.hosts[j].type = "redis" => cmd.hosts[host].type = "redis"
    BY <1>1, CommandLinesAssumption DEF CommandLinesAssumption, Adding
  <2> QED  BY <2>1, <2>2 DEF Host
<1> QED  BY <1>2, <1>3, <1>4, <1>5, <1>6

LEMMA LastBefore ==
  ASSUME NEW n, NEW i, Adding(n, i), NEW g \in Mine(i, n), \A a \in Mine(i, n) : a <= g
  PROVE  host = Min(After(g))
<1>1. IsList(cmd.hosts) /\ host = n + 1 /\ n \in Nat /\ host \in DOMAIN cmd.hosts
  BY CommandLinesAssumption DEF CommandLinesAssumption, Adding
<1>2. host \in After(g) /\ g \in 1..n /\ Owner(cmd.hosts[g]) = i
  BY Earlier
<1>3. \A j \in After(g) : j \in Nat /\ j > g /\ (j <= n => j \in Mine(i, n))
  BY <1>1, <1>2 DEF After, Mine, IsList
<1>4. \A j \in After(g) : j >= host
  BY <1>1, <1>2, <1>3
<1>5. Min(After(g)) \in After(g) /\ \A j \in After(g) : Min(After(g)) <= j
  <2>1. After(g) \subseteq Nat /\ After(g) # {}
    BY <1>2, <1>3
  <2> QED  BY <2>1, LeastOne
<1>6. Min(After(g)) <= host /\ Min(After(g)) >= host /\ Min(After(g)) \in Nat
  BY <1>2, <1>3, <1>4, <1>5
<1> QED  BY <1>1, <1>6

(* What the listener has.                                                    *)
LEMMA AddingTo ==
  ASSUME NEW n, NEW i, Adding(n, i)
  PROVE  /\ listeners[i].type = cmd.listeners[i].type /\ listeners[i].type \in Types
         /\ listeners[i].hosts = HostsTo(i, n)
         /\ Host.type \in Types /\ made.type = Host.type
         /\ listeners[i].type = "http" =>
              /\ \A k \in DOMAIN listeners[i].hosts :
                   \E a \in Mine(i, n) : listeners[i].hosts[k] = WrittenHost(cmd.hosts[a])
              /\ \A a \in Mine(i, n) :
                   \E k \in DOMAIN listeners[i].hosts : listeners[i].hosts[k] = WrittenHost(cmd.hosts[a])
         /\ listeners[i].type # "http" =>
              \/ listeners[i].hosts = <<>> /\ Mine(i, n) = {}
              \/ \E g \in Mine(i, n) :
                   listeners[i].hosts = <<WrittenHost(cmd.hosts[g])>> /\ \A a \in Mine(i, n) : a <= g
<1>1. /\ IsList(cmd.hosts) /\ n \in Nat /\ i \in DOMAIN cmd.listeners /\ Accepted(n) /\ made = WrittenHost(Host)
      /\ Host.type \in Types
  BY CommandLinesAssumption DEF CommandLinesAssumption, Adding, Host
<1>2. /\ listeners[i].type = cmd.listeners[i].type /\ listeners[i].hosts = HostsTo(i, n)
      /\ Known /\ Ordered(Mine(i, n))
  BY <1>1 DEF Accepted
<1>3. cmd.listeners[i].type \in Types
  BY <1>1, <1>2 DEF Known, ParseListenerConfig
<1>4. made.type = Host.type
  BY <1>1, NamesWritten
<1> DEFINE hosts == Kept(cmd.listeners[i].type, HostList(cmd.hosts, Mine(i, n)))
           type == cmd.listeners[i].type
<1>5. /\ type = "http" =>
           /\ \A k \in DOMAIN hosts : \E a \in Mine(i, n) : hosts[k] = WrittenHost(cmd.hosts[a])
           /\ \A a \in Mine(i, n) : \E k \in DOMAIN hosts : hosts[k] = WrittenHost(cmd.hosts[a])
      /\ type # "http" =>
           \/ hosts = <<>> /\ Mine(i, n) = {}
           \/ \E g \in Mine(i, n) : hosts = <<WrittenHost(cmd.hosts[g])>> /\ \A a \in Mine(i, n) : a <= g
  BY <1>1, <1>2, Served
<1>6. listeners[i].hosts = hosts
  BY <1>2 DEF HostsTo
<1> HIDE DEF hosts
<1> QED  BY <1>1, <1>2, <1>3, <1>4, <1>5, <1>6

(* A type assertion that fails: a virtual host is on a listener of the other *)
(* type, the new one or the one before it.                                   *)
LEMMA AssertionStep ==
  ASSUME NEW n, NEW i, Adding(n, i), AssertionFails(listeners[i], made)
  PROVE  ~Serveable
<1> DEFINE l == listeners[i]
<1>1. host \in DOMAIN cmd.hosts /\ i = Owner(Host) /\ Host = cmd.hosts[host]
  BY DEF Adding, Host
<1>2. l.type = cmd.listeners[i].type /\ l.type \in Types /\ made.type = Host.type
  BY AddingTo
<1>3. CASE l.type = "http" /\ made.type # "http"
  <2>1. ~Placed(Host)
    BY <1>1, <1>2, <1>3 DEF Placed
  <2> QED  BY <1>1, <2>1 DEF Serveable
<1>4. CASE Misfilled(l)
  <2>1. l.type = "redis" /\ l.hosts # <<>> /\ l.hosts[1].type # "redis"
    BY <1>4 DEF Misfilled
  <2>2. PICK g \in Mine(i, n) : l.hosts = <<WrittenHost(cmd.hosts[g])>>
    BY <2>1, AddingTo
  <2>3. g \in DOMAIN cmd.hosts /\ Owner(cmd.hosts[g]) = i /\ cmd.hosts[g].type \in Types
    BY Earlier
  <2>4. l.hosts[1].type = cmd.hosts[g].type
    <3>1. l.hosts[1] = WrittenHost(cmd.hosts[g])
      BY <2>2
    <3> QED  BY <2>3, <3>1, NamesWritten
  <2>5. ~Placed(cmd.hosts[g])
    BY <1>2, <2>1, <2>3, <2>4 DEF Placed
  <2> QED  BY <2>3, <2>5 DEF Serveable
<1> HIDE DEF l
<1>5. Misfilled(l) \/ (l.type = "http" /\ made.type # "http")
  BY DEF AssertionFails, l
<1> QED  BY <1>3, <1>4, <1>5 DEF l

(* A name that is taken is taken by a virtual host of the same listener.     *)
LEMMA NameStep ==
  ASSUME NEW n, NEW i, Adding(n, i), ~AssertionFails(listeners[i], made), NameTaken(listeners[i], made)
  PROVE  ~Serveable
<1> DEFINE l == listeners[i]
<1>1. host \in DOMAIN cmd.hosts /\ i = Owner(Host) /\ Host = cmd.hosts[host] /\ made = WrittenHost(Host)
  BY DEF Adding, Host
<1>2. l.type \in Types /\ made.type = Host.type /\ Host.type \in Types
  BY AddingTo
<1>3. PICK k \in DOMAIN l.hosts :
        \/ l.hosts[k].config["name"] = made.config["name"]
        \/ l.type = "http" /\ l.hosts[k].config["server_name"] = made.config["server_name"]
  BY DEF NameTaken
<1>4. ASSUME NEW a \in Mine(i, n), l.hosts[k] = WrittenHost(cmd.hosts[a]), l.type = "http" => Host.type = "http",
             cmd.hosts[a].type = "redis" => host = Min(After(a))
      PROVE  ~Serveable
  <2>1. /\ a \in DOMAIN cmd.hosts /\ Owner(cmd.hosts[a]) = i /\ host \in After(a)
        /\ cmd.hosts[a].type \in Types /\ (cmd.hosts[a].type = "redis" => Host.type = "redis")
    BY Earlier
  <2>2. /\ l.hosts[k].config["name"] = Value(cmd.hosts[a].main.ops, "name")
        /\ cmd.hosts[a].type = "http" =>
             l.hosts[k].config["server_name"] = Value(cmd.hosts[a].main.ops, "server_name")
    BY <1>4, <2>1, NamesWritten
  <2>3. /\ made.config["name"] = Value(Host.main.ops, "name")
        /\ Host.type = "http" => made.config["server_name"] = Value(Host.main.ops, "server_name")
    BY <1>1, <1>2, NamesWritten
  <2>4. Host.type = "http" => cmd.hosts[a].type = "http"
    BY <2>1 DEF Types
  <2>5. ~Apart(cmd.hosts[a], Host)
    BY <1>1, <1>3, <1>4, <2>1, <2>2, <2>3, <2>4 DEF Apart
  <2>6. Clash
    BY <1>1, <1>4, <2>1, <2>5 DEF Clash
  <2> QED  BY <2>6 DEF Serveable
<1>5. CASE l.type = "http"
  <2>1. Host.type = "http"
    BY <1>2, <1>5 DEF AssertionFails
  <2>2. PICK a \in Mine(i, n) : l.hosts[k] = WrittenHost(cmd.hosts[a])
    BY <1>5, AddingTo
  <2>3. cmd.hosts[a].type # "redis"
    BY <2>1, Earlier
  <2> QED  BY <1>4, <2>1, <2>2, <2>3
<1>6. CASE l.type # "http"
  <2>1. l.hosts # <<>>
    OBVIOUS
  <2>2. PICK g \in Mine(i, n) : l.hosts = <<WrittenHost(cmd.hosts[g])>> /\ \A a \in Mine(i, n) : a <= g
    BY <1>6, <2>1, AddingTo
  <2>3. l.hosts[k] = WrittenHost(cmd.hosts[g])
    BY <2>2
  <2>4. host = Min(After(g))
    BY <2>2, LastBefore
  <2> QED  BY <1>4, <1>6, <2>3, <2>4
<1> QED  BY <1>5, <1>6

(* A virtual host that is taken in goes with those before it.                *)
LEMMA AddedCompatible ==
  ASSUME NEW n, NEW i, Adding(n, i), ~AssertionFails(listeners[i], made), ~NameTaken(listeners[i], made)
  PROVE  Compatible(n + 1) /\ (Placed(Host) \/ Misplaced(Host))
<1> DEFINE l == listeners[i]
<1>1. /\ host \in DOMAIN cmd.hosts /\ i = Owner(Host) /\ Host = cmd.hosts[host] /\ made = WrittenHost(Host)
      /\ host = n + 1 /\ n \in Nat /\ i \in DOMAIN cmd.listeners /\ Accepted(n) /\ IsList(cmd.hosts)
      /\ IsList(cmd.listeners)
  BY CommandLinesAssumption DEF CommandLinesAssumption, Adding, Host
<1>2. /\ l.type \in Types /\ made.type = Host.type /\ Host.type \in Types /\ l.type = cmd.listeners[i].type
  BY AddingTo
<1>3. Placed(Host) \/ Misplaced(Host)
  <2>1. i # 0
    BY <1>1 DEF IsList
  <2>2. l.type = "http" => Host.type = "http"
    BY <1>2 DEF AssertionFails
  <2> QED  BY <1>1, <1>2, <2>1, <2>2 DEF Placed, Misplaced, Types
<1>4. ASSUME NEW a \in Mine(i, n), NEW k \in DOMAIN l.hosts, l.hosts[k] = WrittenHost(cmd.hosts[a])
      PROVE  Apart(cmd.hosts[a], Host) \/ (l.type # "http" /\ cmd.hosts[a].type = "http")
  <2>1. cmd.hosts[a].type \in Types /\ (cmd.hosts[a].type = "redis" => Host.type = "redis")
    BY Earlier
  <2>2. /\ l.hosts[k].config["name"] = Value(cmd.hosts[a].main.ops, "name")
        /\ cmd.hosts[a].type = "http" =>
             l.hosts[k].config["server_name"] = Value(cmd.hosts[a].main.ops, "server_name")
    BY <1>4, <2>1, NamesWritten
  <2>3. /\ made.config["name"] = Value(Host.main.ops, "name")
        /\ Host.type = "http" => made.config["server_name"] = Value(Host.main.ops, "server_name")
    BY <1>1, <1>2, NamesWritten
  <2>4. /\ l.hosts[k].config["name"] # made.config["name"]
        /\ l.type = "http" => l.hosts[k].config["server_name"] # made.config["server_name"]
    BY DEF NameTaken
  <2>5. Host.type = "http" => cmd.hosts[a].type = "http"
    BY <2>1 DEF Types
  <2> HIDE DEF l
  <2> QED  BY <2>2, <2>3, <2>4, <2>5 DEF Apart
<1>5. ASSUME NEW a \in 1..n, host \in After(a), cmd.hosts[a].type = "redis" => host = Min(After(a))
      PROVE  ~Misplaced(cmd.hosts[a]) /\ Apart(cmd.hosts[a], cmd.hosts[host])
  <2>1. Owner(cmd.hosts[a]) = i /\ a \in Mine(i, n)
    BY <1>1, <1>5 DEF After, Mine, IsList
  <2>2. cmd.hosts[a].type \in Types /\ a \in DOMAIN cmd.hosts
    BY <2>1, Earlier
  <2>3. CASE l.type = "http"
    <3>1. ~Misplaced(cmd.hosts[a])
      BY <1>2, <2>1, <2>3 DEF Misplaced
    <3>2. PICK k \in DOMAIN l.hosts : l.hosts[k] = WrittenHost(cmd.hosts[a])
      BY <2>1, <2>3, AddingTo
    <3> QED  BY <1>1, <1>4, <2>1, <2>3, <3>1, <3>2
  <2>4. CASE l.type # "http"
    <3>1. PICK g \in Mine(i, n) : l.hosts = <<WrittenHost(cmd.hosts[g])>> /\ \A b \in Mine(i, n) : b <= g
      BY <2>1, <2>4, AddingTo
    <3>2. /\ g \in 1..n /\ g \in DOMAIN cmd.hosts /\ Owner(cmd.hosts[g]) = i /\ a <= g
          /\ cmd.hosts[g].type \in Types
      BY <2>1, <3>1, Earlier
    <3>3. l.hosts[1] = WrittenHost(cmd.hosts[g]) /\ 1 \in DOMAIN l.hosts /\ l.hosts # <<>>
      BY <3>1
    <3>4. cmd.hosts[g].type = "redis"
      <4>1. l.hosts[1].type = cmd.hosts[g].type
        BY <3>2, <3>3, NamesWritten
      <4>2. ~Misfilled(l) /\ l.type = "redis"
        BY <1>2, <2>4 DEF AssertionFails, Types
      <4> QED  BY <3>3, <4>1, <4>2 DEF Misfilled
    <3>5. a # g => g \in After(a)
      BY <1>5, <2>1, <3>2 DEF After
    <3>6. cmd.hosts[a].type # "http"
      <4>1. CASE a = g
        BY <3>4, <4>1
      <4>2. CASE a # g
        <5>1. ~Misplaced(cmd.hosts[a])
          BY <1>1, <1>5, <3>2, <3>5, <4>2 DEF Accepted, Compatible
        <5>2. i # 0 /\ cmd.listeners[i].type = "redis"
          BY <1>1, <1>2, <2>4 DEF IsList, Types
        <5> QED  BY <2>1, <5>1, <5>2 DEF Misplaced
      <4> QED  BY <4>1, <4>2
    <3>7. a = g
      <4>1. host = Min(After(a))
        BY <1>5, <2>2, <3>6 DEF Types
      <4>2. After(a) \subseteq Nat /\ After(a) # {}
        BY <1>1, <1>5 DEF After, IsList
      <4>3. \A j \in After(a) : host <= j
        BY <4>1, <4>2, LeastOne
      <4> QED  BY <1>1, <3>2, <3>5, <4>3
    <3>8. Apart(cmd.hosts[a], Host)
      BY <1>4, <2>1, <3>3, <3>6, <3>7
    <3> QED  BY <1>1, <3>6, <3>8 DEF Misplaced
  <2> QED  BY <2>3, <2>4
<1>6. ASSUME NEW a \in 1..n, host \in After(a) PROVE ~Misplaced(cmd.hosts[a])
  <2>1. CASE cmd.hosts[a].type = "redis"
    BY <2>1 DEF Misplaced
  <2>2. CASE cmd.hosts[a].type # "redis"
    BY <1>5, <1>6, <2>2
  <2> QED  BY <2>1, <2>2
<1>7. Compatible(n + 1)
  <2> SUFFICES ASSUME NEW a \in 1..n + 1, NEW b \in 1..n + 1, b \in After(a)
               PROVE  /\ ~Misplaced(cmd.hosts[a])
                      /\ (cmd.hosts[a].type = "redis" => b = Min(After(a))) => Apart(cmd.hosts[a], cmd.hosts[b])
    BY DEF Compatible
  <2>1. a < b
    BY <1>1 DEF After
  <2>2. a \in 1..n
    BY <1>1, <2>1
  <2>3. CASE b = host
    BY <1>5, <1>6, <2>2, <2>3
  <2>4. CASE b # host
    <3>1. b \in 1..n /\ Compatible(n)
      BY <1>1, <2>4 DEF Accepted
    <3> QED  BY <2>2, <3>1 DEF Compatible
  <2> QED  BY <2>3, <2>4
<1> QED  BY <1>3, <1>7

(* The listener has it, all others have what they had.                       *)
LEMMA AddedHosts ==
  ASSUME NEW n, NEW i, Adding(n, i), NEW l \in DOMAIN cmd.listeners
  PROVE  /\ Ordered(Mine(l, n + 1))
         /\ l # i => HostsTo(l, n + 1) = HostsTo(l, n)
         /\ l = i => HostsTo(l, n + 1) =
                       IF cmd.listeners[l].type = "http" THEN Append(HostsTo(l, n), made) ELSE <<made>>
<1>1. /\ host \in DOMAIN cmd.hosts /\ i = Owner(Host) /\ Host = cmd.hosts[host] /\ made = WrittenHost(Host)
      /\ host = n + 1 /\ n \in Nat /\ Accepted(n) /\ IsList(cmd.hosts)
  BY CommandLinesAssumption DEF CommandLinesAssumption, Adding, Host
<1>2. Mine(l, n + 1) = IF i = l THEN Mine(l, n) \cup {n + 1} ELSE Mine(l, n)
  BY <1>1, MineStep
<1>3. Mine(l, n) \subseteq Nat /\ IsFiniteSet(Mine(l, n)) /\ \A j \in Mine(l, n) : j < n + 1
  BY <1>1, MineStep
<1>4. Ordered(Mine(l, n))
  BY <1>1 DEF Accepted
<1>5. CASE l # i
  BY <1>2, <1>4, <1>5 DEF HostsTo
<1>6. CASE l = i
  <2> DEFINE S == Mine(l, n)
             type == cmd.listeners[l].type
             p == n + 1
             hosts == cmd.hosts
             h == WrittenHost(hosts[p])
  <2>1. S \subseteq Nat /\ IsFiniteSet(S) /\ (\A j \in S : j < p) /\ p \in Nat /\ Ordered(S)
    BY <1>1, <1>3, <1>4
  <2>2. Mine(l, n + 1) = S \cup {p} /\ h = made
    BY <1>1, <1>2, <1>6
  <2> HIDE DEF S, p, hosts, h
  <2>3. Ordered(S \cup {p})
    BY <2>1, OrderedAdded
  <2>4. /\ HostList(hosts, S \cup {p}) = Append(HostList(hosts, S), h)
        /\ HostList(hosts, S \cup {p}) # <<>>
        /\ Last(HostList(hosts, S \cup {p})) = h
    BY <2>1, HostAdded DEF h
  <2>5. Kept(type, HostList(hosts, S \cup {p})) =
          IF type = "http" THEN Append(Kept(type, HostList(hosts, S)), h) ELSE <<h>>
    BY <2>4 DEF Kept
  <2>6. /\ HostsTo(l, n + 1) = Kept(type, HostList(hosts, S \cup {p}))
        /\ HostsTo(l, n) = Kept(type, HostList(hosts, S))
    BY <2>2 DEF HostsTo, S, hosts
  <2> QED  BY <1>6, <2>2, <2>3, <2>5, <2>6
<1> QED  BY <1>5, <1>6

LEMMA AddStep ==
  ASSUME Progress, AddVirtualHost
  PROVE  Progress'
<1>1. /\ cmd \in CommandLines /\ phase = "add" /\ host \in DOMAIN cmd.hosts /\ Sound(Host)
      /\ made = WrittenHost(Host) /\ Accepted(host - 1) /\ host \in 1..Len(cmd.hosts) + 1
  BY DEF Progress, AddVirtualHost
<1> DEFINE owner == getListener(made.config["listener"])
<1>2. owner = Owner(Host) /\ (Owner(Host) # 0 => Owner(Host) \in DOMAIN cmd.listeners)
  BY <1>1, OwnerFound
<1>3. IsList(cmd.hosts) /\ IsList(cmd.listeners) /\ Host = cmd.hosts[host]
  BY <1>1, CommandLinesAssumption DEF CommandLinesAssumption, Host
<1> HIDE DEF owner
<1>4. CASE owner = 0
  <2>1. Ends("exited")
    BY <1>4 DEF AddVirtualHost, Exit, owner
  <2>2. ~Serveable
    BY <1>1, <1>2, <1>3, <1>4 DEF Serveable, Placed
  <2> QED  BY <1>1, <2>1, <2>2, EndStep
<1>5. CASE owner # 0
  <2>1. PICK n, i : n = host - 1 /\ i = owner
    OBVIOUS
  <2>2. Adding(n, i)
    <3>1. n \in Nat /\ host = n + 1
      BY <1>1, <1>3, <2>1 DEF IsList
    <3> QED  BY <1>1, <1>2, <1>5, <2>1, <3>1 DEF Adding
  <2>3. CASE AssertionFails(listeners[i], made)
    <3>1. Ends("panicked")
      BY <1>5, <2>1, <2>3 DEF AddVirtualHost, owner
    <3> QED  BY <1>1, <2>2, <2>3, <3>1, AssertionStep, EndStep
  <2>4. CASE ~AssertionFails(listeners[i], made) /\ NameTaken(listeners[i], made)
    <3>1. Ends("exited")
      BY <1>5, <2>1, <2>4 DEF AddVirtualHost, Exit, owner
    <3> QED  BY <1>1, <2>2, <2>4, <3>1, NameStep, EndStep
  <2>5. CASE ~AssertionFails(listeners[i], made) /\ ~NameTaken(listeners[i], made)
    <3>1. /\ listeners' = [listeners EXCEPT ![i].hosts =
                             IF listeners[i].type = "http" THEN Append(@, made) ELSE <<made>>]
          /\ host' = host + 1 /\ script' = 0 /\ phase' = "load" /\ UNCHANGED <<cmd, pos, builder, made>>
      BY <1>5, <2>1, <2>5 DEF AddVirtualHost, owner
    <3>2. Compatible(n + 1) /\ (Placed(Host) \/ Misplaced(Host))
      BY <2>2, <2>5, AddedCompatible
    <3>3. /\ n \in Nat /\ host = n + 1 /\ i \in DOMAIN cmd.listeners /\ Accepted(n)
      BY <2>2 DEF Adding
    <3>4. /\ Known /\ Compatible(n)
          /\ listeners = [l \in DOMAIN cmd.listeners |->
               [type |-> cmd.listeners[l].type, name |-> cmd.listeners[l].name, hosts |-> HostsTo(l, n)]]
          /\ \A j \in 1..n : Sound(cmd.hosts[j]) /\ (Placed(cmd.hosts[j]) \/ Misplaced(cmd.hosts[j]))
      BY <3>3 DEF Accepted
    <3>5. listeners' = [l \in DOMAIN cmd.listeners |->
               [type |-> cmd.listeners[l].type, name |-> cmd.listeners[l].name, hosts |-> HostsTo(l, n + 1)]]
      <4>1. \A l \in DOMAIN cmd.listeners : l # i => HostsTo(l, n + 1) = HostsTo(l, n)
        BY <2>2, AddedHosts
      <4>2. HostsTo(i, n + 1) = IF cmd.listeners[i].type = "http" THEN Append(HostsTo(i, n), made) ELSE <<made>>
        BY <2>2, <3>3, AddedHosts
      <4> DEFINE new == HostsTo(i, n + 1)
      <4>3. listeners' = [listeners EXCEPT ![i] = [listeners[i] EXCEPT !.hosts = new]]
        <5>1. listeners[i].type = cmd.listeners[i].type /\ listeners[i].hosts = HostsTo(i, n)
          BY <3>3, <3>4
        <5>2. new = IF listeners[i].type = "http" THEN Append(listeners[i].hosts, made) ELSE <<made>>
          BY <4>2, <5>1
        <5> HIDE DEF new
        <5> QED  BY <3>1, <5>2
      <4>4. listeners[i] = [type |-> cmd.listeners[i].type, name |-> cmd.listeners[i].name, hosts |-> HostsTo(i, n)]
        BY <3>3, <3>4
      <4> DEFINE t == cmd.listeners[i].type
                 m == cmd.listeners[i].name
                 old == HostsTo(i, n)
      <4> HIDE DEF new
      <4>5. [listeners[i] EXCEPT !.hosts = new] = [type |-> t, name |-> m, hosts |-> new]
        <5> HIDE DEF t, m, old
        <5>1. listeners[i] = [type |-> t, name |-> m, hosts |-> old]
          BY <4>4 DEF t, m, old
        <5> QED  BY <5>1
      <4>6. listeners' = [listeners EXCEPT ![i] = [type |-> t, name |-> m, hosts |-> new]]
        BY <4>3, <4>5
      <4>7. \A l \in DOMAIN cmd.listeners :
              listeners'[l] =
                [type |-> cmd.listeners[l].type, name |-> cmd.listeners[l].name, hosts |-> HostsTo(l, n + 1)]
        BY <3>3, <3>4, <4>1, <4>6 DEF new
      <4>8. listeners' = [l \in DOMAIN cmd.listeners |-> listeners'[l]]
        BY <3>4, <4>6
      <4> QED  BY <4>7, <4>8
    <3>6. \A j \in 1..n + 1 : Sound(cmd.hosts[j]) /\ (Placed(cmd.hosts[j]) \/ Misplaced(cmd.hosts[j]))
      <4>1. \A j \in 1..n + 1 : j \in 1..n \/ j = host
        BY <3>3
      <4> QED  BY <1>1, <1>3, <3>2, <3>4, <4>1
    <3>7. \A l \in DOMAIN cmd.listeners : Ordered(Mine(l, n + 1))
      BY <2>2, AddedHosts
    <3>8. Accepted(n + 1)'
      <4>1. PICK m : m = n + 1
        OBVIOUS
      <4>2. cmd' = cmd
        BY <3>1
      <4>3. Known'
        BY <3>4, <4>2, SameCommand
      <4>4. \A l \in DOMAIN cmd.listeners : HostsTo(l, m)' = HostsTo(l, m) /\ Mine(l, m)' = Mine(l, m)
        BY <4>2, SameCommand
      <4>5. listeners' = [l \in DOMAIN cmd'.listeners |->
              [type |-> cmd'.listeners[l].type, name |-> cmd'.listeners[l].name, hosts |-> HostsTo(l, m)']]
        BY <3>5, <4>1, <4>2, <4>4
      <4>6. \A j \in 1..m : Sound(cmd'.hosts[j]) /\ (Placed(cmd.hosts[j])' \/ Misplaced(cmd.hosts[j])')
        <5>1. \A h : (Placed(h)' <=> Placed(h)) /\ (Misplaced(h)' <=> Misplaced(h))
          BY <4>2, SameCommand
        <5>2. \A j \in 1..m : Placed(cmd.hosts[j])' \/ Misplaced(cmd.hosts[j])'
          BY <3>6, <4>1, <4>2, <5>1
        <5> QED  BY <3>6, <4>1, <4>2, <5>2
      <4>7. Compatible(m)'
        BY <3>2, <4>1, <4>2, SameCommand DEF Compatible
      <4>8. \A l \in DOMAIN cmd'.listeners : Ordered(Mine(l, m)')
        BY <3>7, <4>1, <4>2, <4>4
      <4>9. Accepted(m)'
        BY <4>3, <4>5, <4>6, <4>7, <4>8 DEF Accepted
      <4> QED  BY <4>1, <4>9
    <3>9. Accepted(host - 1)'
      <4>1. host' - 1 = n + 1
        BY <3>1, <3>3
      <4> QED  BY <3>8, <4>1
    <3>10. host' \in 1..Len(cmd.hosts) + 1 /\ (host' \in DOMAIN cmd.hosts \/ host' = Len(cmd.hosts) + 1)
      BY <1>1, <1>3, <3>1 DEF IsList
    <3>11. host' \in DOMAIN cmd.hosts => InScript'
      BY <3>1 DEF InScript
    <3> QED  BY <1>1, <3>1, <3>9, <3>10, <3>11 DEF Progress
  <2> QED  BY <2>3, <2>4, <2>5
<1> QED  BY <1>4, <1>5

----------------------------------------------------------------------------
(* Server.Run.                                                               *)

Running == {g \in Goroutine : go[g] # "ended"}

(* The goroutines of rounds to come are absent, so starting one never        *)
(* revives one that ended; and when Run has returned all have ended.        *)
Counted ==
  /\ TypeOK
  /\ vv \in {next, next + 1}
  /\ \A g \in Goroutine : go[g] = "absent" <=> g > next
  /\ \A g \in Goroutine : go[g] = "serving" => runs[g] \in Listener
  /\ wg = Cardinality(Running)
  /\ returned => \A g \in Goroutine : go[g] = "ended"

LEMMA RunningFinite ==
  /\ IsFiniteSet(Running) /\ IsFiniteSet(Goroutine)
  /\ Cardinality(Goroutine) = N
  /\ Cardinality(Running) \in 0..N
<1>1. IsFiniteSet(Goroutine) /\ Cardinality(Goroutine) = N
  BY ServerAssumption, FS_Interval DEF Goroutine
<1>2. Running \in SUBSET Goroutine
  BY DEF Running
<1> QED  BY <1>1, <1>2, FS_Subset, FS_CardinalityType, ServerAssumption

(* A goroutine that ends leaves Running and calls Done once.                *)
LEMMA GoroutineEnds ==
  ASSUME Counted, NEW g \in Goroutine, go[g] # "ended",
         go' = [go EXCEPT ![g] = "ended"], wg' = wg - 1
  PROVE  wg' = Cardinality(Running') /\ wg' \in 0..N /\ go' \in [Goroutine -> GoState]
<1>1. go \in [Goroutine -> GoState] /\ wg = Cardinality(Running)
  BY DEF Counted, TypeOK
<1>2. Running' = Running \ {g} /\ g \in Running
  BY <1>1 DEF Running
<1>3. Cardinality(Running') = Cardinality(Running) - 1
  BY <1>2, RunningFinite, FS_RemoveElement
<1>4. Cardinality(Running') \in 0..N
  BY <1>2, <1>3, RunningFinite, ServerAssumption, FS_RemoveElement, FS_CardinalityType
<1> QED  BY <1>1, <1>3, <1>4 DEF GoState

LEMMA CountedStart == Init => Counted
<1> SUFFICES ASSUME Init PROVE Counted
  OBVIOUS
<1>1. Running = Goroutine
  BY DEF Init, Running
<1>2. wg = Cardinality(Running) /\ wg \in 0..N
  BY <1>1, RunningFinite, ServerAssumption DEF Init
<1>3. \A g \in Goroutine : go[g] = "absent" /\ g > next
  BY DEF Init, Goroutine
<1>4. next = 0 /\ vv = 0 /\ returned = FALSE /\ 0 \in 0..N
      /\ go \in [Goroutine -> GoState] /\ runs \in [Goroutine -> 0..N]
  BY ServerAssumption DEF Init, GoState
<1> QED  BY <1>2, <1>3, <1>4 DEF Counted, TypeOK

LEMMA CountedStep ==
  ASSUME Counted, [Next]_vars
  PROVE  Counted'
<1> USE ServerAssumption DEF GoState, Counted, TypeOK
<1>1. CASE Assign
  BY <1>1 DEF Assign, Running
<1>2. CASE Go
  <2>1. vv \in Goroutine /\ go[vv] = "absent"
    BY <1>2 DEF Go, Goroutine
  <2>2. Running' = Running
    BY <1>2, <2>1 DEF Go, Running
  <2>3. wg' = Cardinality(Running')
    BY <1>2, <2>2 DEF Go
  <2> QED  BY <1>2, <2>1, <2>3 DEF Go, Goroutine
<1>3. ASSUME NEW g \in Goroutine, RunListener(g) PROVE Counted'
  <2>1. vv \in Listener
    BY <1>3 DEF RunListener, Goroutine, Listener
  <2>2. CASE go' = [go EXCEPT ![g] = "serving"] /\ UNCHANGED wg
    <3>1. Running' = Running
      BY <1>3, <2>2 DEF RunListener, Running
    <3> QED  BY <1>3, <2>1, <2>2, <3>1 DEF RunListener, Goroutine
  <2>3. CASE go' = [go EXCEPT ![g] = "ended"] /\ wg' = wg - 1
    <3>1. wg' = Cardinality(Running') /\ wg' \in 0..N
      BY <1>3, <2>3, GoroutineEnds DEF RunListener
    <3> QED  BY <1>3, <2>3, <3>1 DEF RunListener, Goroutine
  <2> QED  BY <1>3, <2>2, <2>3 DEF RunListener
<1>4. ASSUME NEW g \in Goroutine, ListenerFails(g) PROVE Counted'
  <2>1. wg' = Cardinality(Running') /\ wg' \in 0..N
    BY <1>4, GoroutineEnds DEF ListenerFails
  <2> QED  BY <1>4, <2>1 DEF ListenerFails, Goroutine
<1>5. CASE Wait
  <2>1. Running = {}
    BY <1>5, RunningFinite, FS_EmptySet DEF Wait
  <2>2. \A g \in Goroutine : go[g] = "ended"
    BY <2>1 DEF Running
  <2> QED  BY <1>5, <2>2 DEF Wait, Running
<1>6. CASE UNCHANGED vars
  BY <1>6 DEF vars, Running
<1> QED  BY <1>1, <1>2, <1>3, <1>4, <1>5, <1>6 DEF Next

LEMMA CountedWaits == Counted => WaitsForAll
BY DEF Counted, WaitsForAll, Running, Serving

(* Run returns only after every listener's goroutine has ended, and then it *)
(* does return: the WaitGroup counts exactly the goroutines left            *)
(* (server/server.go:79).                                                    *)
THEOREM RunWaitsForAll == Spec => []WaitsForAll
<1>1. Init => Counted
  BY CountedStart
<1>2. Counted /\ [Next]_vars => Counted'
  BY CountedStep
<1>3. Counted => WaitsForAll
  BY CountedWaits
<1> QED  BY <1>1, <1>2, <1>3, PTL DEF Spec

----------------------------------------------------------------------------
(* The whole process.                                                        *)

LEMMA ProgressStart == StartInit => Progress
<1> SUFFICES ASSUME StartInit PROVE Progress
  OBVIOUS
<1> QED  BY DEF StartInit, Progress

LEMMA StartRunStep ==
  ASSUME Progress, StartRun
  PROVE  Progress'
<1>1. /\ cmd \in CommandLines /\ phase = "load" /\ host > Len(cmd.hosts) /\ host \in 1..Len(cmd.hosts) + 1
      /\ Accepted(host - 1) /\ phase' = "running"
      /\ UNCHANGED <<cmd, host, script, pos, builder, made, listeners>>
  BY DEF Progress, StartRun
<1>2. IsList(cmd.hosts)
  BY <1>1, CommandLinesAssumption DEF CommandLinesAssumption
<1>3. host = Len(cmd.hosts) + 1
  BY <1>1, <1>2 DEF IsList
<1>4. Accepted(host - 1)'
  BY <1>1, SameAccepted
<1> QED  BY <1>1, <1>3, <1>4 DEF Progress

(* When all virtual hosts are accepted.                                      *)
LEMMA AllAccepted ==
  ASSUME Progress, phase = "running"
  PROVE  /\ IsList(cmd.hosts) /\ IsList(cmd.listeners) /\ Len(cmd.hosts) \in Nat
         /\ Accepted(Len(cmd.hosts)) /\ cmd \in CommandLines
<1>1. cmd \in CommandLines /\ host = Len(cmd.hosts) + 1 /\ Accepted(host - 1)
  BY DEF Progress
<1>2. IsList(cmd.hosts) /\ IsList(cmd.listeners)
  BY <1>1, CommandLinesAssumption DEF CommandLinesAssumption
<1>3. host - 1 = Len(cmd.hosts) /\ Len(cmd.hosts) \in Nat
  BY <1>1, <1>2 DEF IsList
<1> QED  BY <1>1, <1>2, <1>3

LEMMA FirstConnectionStep ==
  ASSUME Progress, Counted, FirstConnection
  PROVE  Progress'
<1>1. phase = "running" /\ Ends("panicked")
  BY DEF FirstConnection
<1> DEFINE n == Len(cmd.hosts)
<1>2. cmd \in CommandLines /\ IsList(cmd.hosts) /\ IsList(cmd.listeners) /\ n \in Nat /\ Accepted(n)
  BY <1>1, AllAccepted
<1>3. PICK g \in Serving : Misfilled(listeners[runs[g]])
  BY DEF FirstConnection
<1>4. PICK l : l = runs[g]
  OBVIOUS
<1>5. l \in DOMAIN cmd.listeners /\ Misfilled(listeners[l])
  <2>1. runs[g] \in Listener
    BY <1>3 DEF Counted, Serving
  <2>2. Len(cmd.listeners) = N
    BY <1>2, OneCounter
  <2> QED  BY <1>2, <1>3, <1>4, <2>1, <2>2 DEF IsList, Listener
<1> HIDE DEF n
<1>6. /\ listeners[l].type = cmd.listeners[l].type /\ listeners[l].hosts = HostsTo(l, n)
      /\ Ordered(Mine(l, n))
  BY <1>2, <1>5 DEF Accepted
<1> DEFINE type == cmd.listeners[l].type
           hosts == Kept(type, HostList(cmd.hosts, Mine(l, n)))
<1>7. type = "redis" /\ hosts # <<>> /\ hosts[1].type # "redis"
  BY <1>5, <1>6 DEF Misfilled, HostsTo
<1>8. type # "http" => \/ hosts = <<>> /\ Mine(l, n) = {}
                       \/ \E a \in Mine(l, n) : hosts = <<WrittenHost(cmd.hosts[a])>> /\ \A b \in Mine(l, n) : b <= a
  BY <1>2, <1>6, Served
<1> HIDE DEF hosts
<1>9. PICK a \in Mine(l, n) : hosts = <<WrittenHost(cmd.hosts[a])>>
  BY <1>7, <1>8
<1>10. a \in DOMAIN cmd.hosts /\ Owner(cmd.hosts[a]) = l /\ cmd.hosts[a].type \in Types
  BY <1>2, CommandLinesAssumption DEF CommandLinesAssumption, Mine
<1>11. hosts[1].type = cmd.hosts[a].type
  <2>1. hosts[1] = WrittenHost(cmd.hosts[a])
    BY <1>9
  <2> QED  BY <1>10, <2>1, NamesWritten
<1>12. ~Placed(cmd.hosts[a])
  BY <1>7, <1>10, <1>11 DEF Placed
<1>13. ~Serveable
  BY <1>10, <1>12 DEF Serveable
<1> QED  BY <1>1, <1>2, <1>13, EndStep

LEMMA StartStep ==
  ASSUME Progress, StartNext
  PROVE  Progress'
BY NewServerStep, LoadStep, ConfigStep, ComposeVHostStep, ComposeServiceStep, AddStep, StartRunStep DEF StartNext

LEMMA StillProgress ==
  ASSUME Progress, UNCHANGED startVars
  PROVE  Progress'
<1>1. UNCHANGED <<cmd, phase, host, script, pos, builder, made, listeners>>
  BY DEF startVars
<1>2. Host' = Host /\ Script' = Script /\ Kind' = Kind
  BY <1>1 DEF Host, Script, Kind
<1>3. Accepted(host - 1) => Accepted(host - 1)'
  BY <1>1, SameAccepted
<1>4. MadeTo(script - 1) => MadeTo(script - 1)'
  BY <1>1, <1>2 DEF MadeTo
<1>5. InScript => InScript'
  BY <1>1, <1>2, <1>4 DEF InScript
<1>6. InConfig => InConfig'
  BY <1>1, <1>2, <1>5 DEF InConfig
<1>7. Serveable' <=> Serveable
  BY <1>1, SameCommand
<1>8. Sound(Host)' <=> Sound(Host)
  BY <1>2
<1>9. WrittenHost(Host)' = WrittenHost(Host)
  BY <1>2
<1> QED  BY <1>1, <1>3, <1>5, <1>6, <1>7, <1>8, <1>9 DEF Progress

LEMMA ProcessInvariant == ProcessSpec => [](Progress /\ Counted)
<1>1. ProcessInit => Progress /\ Counted
  BY ProgressStart, CountedStart DEF ProcessInit
<1>2. Progress /\ Counted /\ [ProcessNext]_processVars => (Progress /\ Counted)'
  <2> SUFFICES ASSUME Progress, Counted, [ProcessNext]_processVars PROVE Progress' /\ Counted'
    OBVIOUS
  <2>1. CASE StartNext /\ UNCHANGED vars
    BY <2>1, StartStep, CountedStep
  <2>2. CASE Next /\ UNCHANGED startVars
    BY <2>2, StillProgress, CountedStep
  <2>3. CASE FirstConnection
    <3>1. UNCHANGED vars
      BY <2>3 DEF FirstConnection
    <3> QED  BY <2>3, <3>1, FirstConnectionStep, CountedStep
  <2>4. CASE UNCHANGED processVars
    <3>1. UNCHANGED startVars /\ UNCHANGED vars
      BY <2>4 DEF processVars
    <3> QED  BY <3>1, StillProgress, CountedStep
  <2> QED  BY <2>1, <2>2, <2>3, <2>4 DEF ProcessNext
<1> QED  BY <1>1, <1>2, PTL DEF ProcessSpec

----------------------------------------------------------------------------
(* Theorems.                                                                 *)

LEMMA NoClash ==
  ASSUME IsList(cmd.hosts), Compatible(Len(cmd.hosts))
  PROVE  ~Clash
<1> SUFFICES ASSUME NEW i \in DOMAIN cmd.hosts, NEW j \in After(i), cmd.hosts[i].type = "redis" => j = Min(After(i))
             PROVE  Apart(cmd.hosts[i], cmd.hosts[j])
  BY DEF Clash
<1>1. j \in DOMAIN cmd.hosts /\ DOMAIN cmd.hosts = 1..Len(cmd.hosts)
  BY DEF After, IsList
<1> QED  BY <1>1 DEF Compatible

LEMMA ProgressStarts ==
  ASSUME Progress
  PROVE  StartsIfSound
<1>1. phase \in {"exited", "panicked"} => ~Serveable
  BY DEF Progress
<1>2. phase = "running" =>
        Known /\ ~Clash /\ \A i \in DOMAIN cmd.hosts :
          Sound(cmd.hosts[i]) /\ (Placed(cmd.hosts[i]) \/ Misplaced(cmd.hosts[i]))
  <2> SUFFICES ASSUME phase = "running"
               PROVE  Known /\ ~Clash /\ \A i \in DOMAIN cmd.hosts :
                        Sound(cmd.hosts[i]) /\ (Placed(cmd.hosts[i]) \/ Misplaced(cmd.hosts[i]))
    OBVIOUS
  <2>1. IsList(cmd.hosts) /\ Accepted(Len(cmd.hosts))
    BY AllAccepted
  <2>2. Known /\ Compatible(Len(cmd.hosts)) /\ \A i \in 1..Len(cmd.hosts) :
          Sound(cmd.hosts[i]) /\ (Placed(cmd.hosts[i]) \/ Misplaced(cmd.hosts[i]))
    BY <2>1 DEF Accepted
  <2>3. DOMAIN cmd.hosts = 1..Len(cmd.hosts) /\ ~Clash
    BY <2>1, <2>2, NoClash DEF IsList
  <2> QED  BY <2>2, <2>3
<1> QED  BY <1>1, <1>2 DEF StartsIfSound, Serveable, Known

LEMMA ProgressServes ==
  ASSUME Progress
  PROVE  ServedAsWritten
<1> SUFFICES ASSUME phase = "running", NEW l \in DOMAIN listeners
             PROVE  LET mine == InOrder({i \in DOMAIN cmd.hosts : Owner(cmd.hosts[i]) = l})
                        wanted == [k \in DOMAIN mine |-> WrittenHost(cmd.hosts[mine[k]])]
                    IN listeners[l].hosts =
                         IF listeners[l].type = "http" \/ wanted = <<>> THEN wanted ELSE <<Last(wanted)>>
  BY DEF ServedAsWritten
<1> DEFINE n == Len(cmd.hosts)
           S == {i \in DOMAIN cmd.hosts : Owner(cmd.hosts[i]) = l}
<1>1. IsList(cmd.hosts) /\ n \in Nat /\ Accepted(n)
  BY AllAccepted
<1>2. listeners[l].type = cmd.listeners[l].type /\ listeners[l].hosts = HostsTo(l, n)
  BY <1>1 DEF Accepted
<1>3. Mine(l, n) = S
  BY <1>1 DEF Mine, IsList
<1> DEFINE wanted == HostList(cmd.hosts, S)
<1>4. listeners[l].hosts = Kept(listeners[l].type, wanted)
  BY <1>2, <1>3 DEF HostsTo
<1> HIDE DEF n
<1>5. wanted = [k \in DOMAIN InOrder(S) |-> WrittenHost(cmd.hosts[InOrder(S)[k]])]
  BY DEF HostList
<1>6. listeners[l].hosts = IF listeners[l].type = "http" \/ wanted = <<>> THEN wanted ELSE <<Last(wanted)>>
  BY <1>4 DEF Kept
<1> HIDE DEF wanted
<1> QED  BY <1>5, <1>6

(* For all command lines and scripts: the process serves only if everything  *)
(* on its command line can be served, and ends only if something cannot      *)
(* (cmd/main.go:65, server/server.go:44, http/vhost/vhs.go:161).             *)
THEOREM StartsOnlyIfSound == ProcessSpec => []StartsIfSound
<1>1. Progress /\ Counted => StartsIfSound
  BY ProgressStarts
<1> QED  BY <1>1, ProcessInvariant, PTL

(* For all command lines and scripts: each listener has the virtual hosts    *)
(* that name it, each configured by its own scripts alone, block by block    *)
(* (http/vhost/new_vhost.go:85, vhs.go:173).                                 *)
THEOREM ServesWhatIsWritten == ProcessSpec => []ServedAsWritten
<1>1. Progress /\ Counted => ServedAsWritten
  BY ProgressServes
<1> QED  BY <1>1, ProcessInvariant, PTL

(* The process waits for all its listeners.                                  *)
THEOREM ProcessWaitsForAll == ProcessSpec => []WaitsForAll
<1>1. Progress /\ Counted => WaitsForAll
  BY CountedWaits
<1> QED  BY <1>1, ProcessInvariant, PTL
===============================================================================
