----------------------- MODULE ScriptFrontEnd_proofs -----------------------
(***************************************************************************)
(* Proofs about the two parts of the script compiler that keep a state:    *)
(* the stack of scopes, for scripts of any size and nesting, and the       *)
(* loading of modules, for every program of the shape that the grammar     *)
(* gives it.  The parts share no state: neither half cites the other.      *)
(***************************************************************************)
EXTENDS ScriptScopes, ScriptModules, SequenceTheorems, WellFoundedInduction, TLAPS

(***************************************************************************)
(* PART 1: SCOPES.  Variables in reach never share a slot.  The slots of a *)
(* scope begin where those of the scope around it end, so the slots of two *)
(* scopes of one function are ordered like the scopes; and every scope of  *)
(* a function ends below what the function reserves, which only grows.     *)
(* Blocks that ended gave their slots back: nothing is claimed about those.*)
(*                                                                         *)
(* All of this is about the stack of scopes alone, so the lemmas are about *)
(* any stack st, and only the theorem is about the parser's.               *)
(***************************************************************************)

topOf(st, k) == Max({j \in 1..k : st[j].top})

ScopeOK(s) ==
  \E E, T, U : s \in [top : BOOLEAN, entry : E, offset : Nat, tbl : Seq(T),
                      maxLocal : Nat, upvalue : Seq(U)]

Shaped(st) ==
  /\ \E S : st \in Seq(S)
  /\ \A k \in DOMAIN st : ScopeOK(st[k])

\* Every scope is in a function, the one that prevTop finds.
Topped(st) == \A k \in DOMAIN st : topOf(st, k) \in 1..k /\ st[topOf(st, k)].top

\* Of two scopes of a function the inner one begins behind the outer one, and
\* none goes beyond what the function reserves.
Ordered(st) ==
  \A j, k \in DOMAIN st :
    topOf(st, j) = topOf(st, k) /\ j < k => nextOffset(st[j]) <= st[k].offset
Reserved(st) ==
  \A k \in DOMAIN st : nextOffset(st[k]) <= st[topOf(st, k)].maxLocal

LaidOut(st) == Shaped(st) /\ Topped(st) /\ Ordered(st) /\ Reserved(st)

LEMMA EmptyLaidOut == LaidOut(<<>>)
<1>1. <<>> \in Seq({}) /\ DOMAIN <<>> = {}
  OBVIOUS
<1> QED
  BY <1>1 DEF LaidOut, Shaped, Topped, Ordered, Reserved

LEMMA DomainOf ==
  ASSUME NEW st, Shaped(st)
  PROVE  Len(st) \in Nat /\ DOMAIN st = 1..Len(st)
BY DEF Shaped

LEMMA ScopeFacts ==
  ASSUME NEW s, ScopeOK(s)
  PROVE  /\ s.top \in BOOLEAN /\ s.offset \in Nat /\ s.maxLocal \in Nat
         /\ Len(s.tbl) \in Nat /\ DOMAIN s.tbl = 1..Len(s.tbl)
         /\ nextOffset(s) = s.offset + Len(s.tbl)
         /\ nextOffset(s) \in Nat /\ s.offset <= nextOffset(s)
BY DEF ScopeOK, nextOffset

(* prevTop looks at nothing but which scopes up to k are tops.             *)
LEMMA SameTops ==
  ASSUME NEW st, NEW su, NEW k, \A j \in 1..k : su[j].top = st[j].top
  PROVE  topOf(su, k) = topOf(st, k)
<1>1. {j \in 1..k : su[j].top} = {j \in 1..k : st[j].top}
  OBVIOUS
<1> QED
  BY <1>1 DEF topOf

(* A scope that is entered leaves those around it alone.                   *)
LEMMA Grown ==
  ASSUME NEW st, Shaped(st), NEW s, ScopeOK(s)
  PROVE  LET su == Append(st, s)
         IN /\ Shaped(su)
            /\ DOMAIN su = 1..Len(st) + 1
            /\ \A k \in 1..Len(st) : su[k] = st[k] /\ topOf(su, k) = topOf(st, k)
            /\ su[Len(st) + 1] = s
<1> DEFINE n == Len(st)
           su == Append(st, s)
<1>1. PICK S : st \in Seq(S)
  BY DEF Shaped
<1>2. n \in Nat /\ DOMAIN st = 1..n
  BY <1>1
<1>3. st \in Seq(S \cup {s}) /\ s \in S \cup {s}
  BY <1>1
<1>4. /\ su \in Seq(S \cup {s}) /\ DOMAIN su = 1..n + 1
      /\ \A k \in 1..n : su[k] = st[k]
      /\ su[n + 1] = s
  BY <1>3
<1> HIDE DEF su
<1>5. ASSUME NEW k \in 1..n PROVE topOf(su, k) = topOf(st, k)
  <2>1. \A j \in 1..k : su[j].top = st[j].top
    BY <1>2, <1>4, <1>5
  <2> QED
    BY <2>1, SameTops
<1>6. ASSUME NEW k \in 1..n + 1 PROVE ScopeOK(su[k])
  <2>1. CASE k \in 1..n
    BY <2>1, <1>2, <1>4 DEF Shaped
  <2>2. CASE k = n + 1
    BY <2>2, <1>4
  <2> QED
    BY <1>2, <2>1, <2>2
<1>7. Shaped(su)
  BY <1>4, <1>6 DEF Shaped
<1> QED
  BY <1>2, <1>4, <1>5, <1>7 DEF su

(* A function begins: its scope is the only one of its frame.              *)
LEMMA TopEntered ==
  ASSUME NEW st, LaidOut(st), NEW s, ScopeOK(s), s.top, nextOffset(s) <= s.maxLocal
  PROVE  LaidOut(Append(st, s))
<1> DEFINE n == Len(st)
           su == Append(st, s)
<1>1. n \in Nat /\ DOMAIN st = 1..n
  BY DomainOf DEF LaidOut
<1>2. /\ Shaped(su) /\ DOMAIN su = 1..n + 1
      /\ \A k \in 1..n : su[k] = st[k] /\ topOf(su, k) = topOf(st, k)
      /\ su[n + 1] = s
  BY <1>1, Grown DEF LaidOut
<1> HIDE DEF n, su
<1>3. topOf(su, n + 1) = n + 1
  <2> DEFINE T == {j \in 1..n + 1 : su[j].top}
  <2>1. n + 1 \in T /\ \A j \in T : j \in Int /\ j <= n + 1
    BY <1>1, <1>2
  <2>2. \A x \in T : (\A y \in T : x >= y) => x = n + 1
    BY <1>1, <2>1
  <2>3. \A y \in T : n + 1 >= y
    BY <1>1, <2>1
  <2> HIDE DEF T
  <2>4. Max(T) = n + 1
    BY <2>1, <2>2, <2>3 DEF Max
  <2> QED
    BY <2>4 DEF topOf, T
<1>4. \A k \in 1..n : topOf(st, k) \in 1..k /\ topOf(st, k) \in 1..n /\ st[topOf(st, k)].top
  BY <1>1 DEF LaidOut, Topped
<1>5. Topped(su)
  <2> SUFFICES ASSUME NEW k \in 1..n + 1
               PROVE  topOf(su, k) \in 1..k /\ su[topOf(su, k)].top
    BY <1>2 DEF Topped
  <2>1. CASE k \in 1..n
    BY <1>2, <1>4, <2>1
  <2>2. CASE k = n + 1
    BY <1>1, <1>2, <1>3, <2>2
  <2> QED
    BY <1>1, <2>1, <2>2
<1>6. Ordered(su)
  <2> SUFFICES ASSUME NEW j \in 1..n + 1, NEW k \in 1..n + 1,
                      topOf(su, j) = topOf(su, k), j < k
               PROVE  nextOffset(su[j]) <= su[k].offset
    BY <1>2 DEF Ordered
  <2>1. j \in 1..n
    BY <1>1
  <2>2. CASE k \in 1..n
    BY <1>1, <1>2, <2>1, <2>2 DEF LaidOut, Ordered
  <2>3. CASE k = n + 1
    BY <1>1, <1>2, <1>3, <1>4, <2>1, <2>3
  <2> QED
    BY <1>1, <2>2, <2>3
<1>7. Reserved(su)
  <2> SUFFICES ASSUME NEW k \in 1..n + 1
               PROVE  nextOffset(su[k]) <= su[topOf(su, k)].maxLocal
    BY <1>2 DEF Reserved
  <2>1. CASE k \in 1..n
    BY <1>1, <1>2, <1>4, <2>1 DEF LaidOut, Reserved
  <2>2. CASE k = n + 1
    BY <1>2, <1>3, <2>2
  <2> QED
    BY <1>1, <2>1, <2>2
<1> QED
  BY <1>2, <1>5, <1>6, <1>7 DEF LaidOut, su

(* What a stack that is laid out says of each scope.                       *)
LEMMA LaidOutFacts ==
  ASSUME NEW st, LaidOut(st), NEW k \in 1..Len(st)
  PROVE  /\ ScopeOK(st[k])
         /\ topOf(st, k) \in 1..k /\ topOf(st, k) \in 1..Len(st) /\ st[topOf(st, k)].top
         /\ st[k].offset \in Nat /\ nextOffset(st[k]) \in Nat
         /\ st[k].offset <= nextOffset(st[k])
         /\ nextOffset(st[k]) <= st[topOf(st, k)].maxLocal
         /\ st[topOf(st, k)].maxLocal \in Nat
<1>1. Len(st) \in Nat /\ DOMAIN st = 1..Len(st)
  BY DomainOf DEF LaidOut
<1>2. topOf(st, k) \in 1..k /\ topOf(st, k) \in 1..Len(st) /\ st[topOf(st, k)].top
  BY <1>1 DEF LaidOut, Topped
<1>3. ScopeOK(st[k]) /\ ScopeOK(st[topOf(st, k)])
  BY <1>1, <1>2 DEF LaidOut, Shaped
<1>4. nextOffset(st[k]) <= st[topOf(st, k)].maxLocal
  BY <1>1 DEF LaidOut, Reserved
<1> QED
  BY <1>2, <1>3, <1>4, ScopeFacts

(* A block begins: its slots follow those of the scope around it.          *)
LEMMA BlockEntered ==
  ASSUME NEW st, LaidOut(st), Len(st) > 0, NEW s, ScopeOK(s),
         ~s.top, Len(s.tbl) = 0, s.offset = nextOffset(st[Len(st)])
  PROVE  LaidOut(Append(st, s))
<1> DEFINE n == Len(st)
           su == Append(st, s)
<1>1. n \in Nat /\ n \in 1..n /\ DOMAIN st = 1..n
  BY DomainOf DEF LaidOut
<1>2. /\ Shaped(su) /\ DOMAIN su = 1..n + 1
      /\ \A k \in 1..n : su[k] = st[k] /\ topOf(su, k) = topOf(st, k)
      /\ su[n + 1] = s
  BY <1>1, Grown DEF LaidOut
<1>3. \A k \in 1..n : /\ topOf(st, k) \in 1..k /\ topOf(st, k) \in 1..n /\ st[topOf(st, k)].top
                      /\ st[k].offset \in Nat /\ nextOffset(st[k]) \in Nat
                      /\ st[k].offset <= nextOffset(st[k])
                      /\ nextOffset(st[k]) <= st[topOf(st, k)].maxLocal
  BY LaidOutFacts
<1>4. nextOffset(s) = nextOffset(st[n]) /\ s.offset = nextOffset(st[n])
  BY <1>1, <1>3 DEF nextOffset
<1> HIDE DEF n, su
<1>5. topOf(su, n + 1) = topOf(st, n)
  <2>1. {j \in 1..n + 1 : su[j].top} = {j \in 1..n : st[j].top}
    BY <1>1, <1>2
  <2> QED
    BY <2>1 DEF topOf
<1>6. Topped(su)
  <2> SUFFICES ASSUME NEW k \in 1..n + 1
               PROVE  topOf(su, k) \in 1..k /\ su[topOf(su, k)].top
    BY <1>2 DEF Topped
  <2>1. CASE k \in 1..n
    BY <1>2, <1>3, <2>1
  <2>2. CASE k = n + 1
    BY <1>1, <1>2, <1>5, <1>3, <2>2
  <2> QED
    BY <1>1, <2>1, <2>2
<1>7. Ordered(su)
  <2> SUFFICES ASSUME NEW j \in 1..n + 1, NEW k \in 1..n + 1,
                      topOf(su, j) = topOf(su, k), j < k
               PROVE  nextOffset(su[j]) <= su[k].offset
    BY <1>2 DEF Ordered
  <2>1. CASE k \in 1..n
    BY <1>1, <1>2, <2>1 DEF LaidOut, Ordered
  <2>2. CASE k = n + 1 /\ j = n
    BY <1>1, <1>2, <1>3, <1>4, <2>2
  <2>3. CASE k = n + 1 /\ j \in 1..n - 1
    <3>1. nextOffset(st[j]) <= st[n].offset
      BY <1>1, <1>2, <1>5, <2>3 DEF LaidOut, Ordered
    <3>2. nextOffset(st[j]) <= nextOffset(st[n])
      <4>1. /\ n \in 1..n /\ j \in 1..n
            /\ st[n].offset \in Nat /\ nextOffset(st[n]) \in Nat
            /\ st[n].offset <= nextOffset(st[n]) /\ nextOffset(st[j]) \in Nat
        BY SMTT(30), <1>1, <1>3, <2>3
      <4> QED
        BY <3>1, <4>1
    <3> QED
      BY <1>1, <1>2, <1>4, <2>3, <3>2
  <2> QED
    BY <1>1, <2>1, <2>2, <2>3
<1>8. Reserved(su)
  <2> SUFFICES ASSUME NEW k \in 1..n + 1
               PROVE  nextOffset(su[k]) <= su[topOf(su, k)].maxLocal
    BY <1>2 DEF Reserved
  <2>1. CASE k \in 1..n
    BY <1>2, <1>3, <2>1
  <2>2. CASE k = n + 1
    BY <1>1, <1>2, <1>5, <1>3, <1>4, <2>2
  <2> QED
    BY <1>1, <2>1, <2>2
<1> QED
  BY <1>2, <1>6, <1>7, <1>8 DEF LaidOut, su

(* A block or a function ends.                                             *)
LEMMA ScopeLeft ==
  ASSUME NEW st, LaidOut(st), Len(st) > 0
  PROVE  LaidOut(SubSeq(st, 1, Len(st) - 1))
<1> DEFINE n == Len(st)
           su == SubSeq(st, 1, n - 1)
<1>1. n \in Nat /\ DOMAIN st = 1..n
  BY DomainOf DEF LaidOut
<1>2. PICK S : st \in Seq(S)
  BY DEF LaidOut, Shaped
<1>3. /\ su \in Seq(S) /\ DOMAIN su = 1..n - 1
      /\ \A k \in 1..n - 1 : su[k] = st[k]
  BY <1>1, <1>2
<1> HIDE DEF su
<1>4. ASSUME NEW k \in 1..n - 1
      PROVE  topOf(su, k) = topOf(st, k)
  <2>1. \A j \in 1..k : su[j].top = st[j].top
    BY <1>1, <1>3, <1>4
  <2> QED
    BY <2>1, SameTops
<1>5. \A k \in 1..n - 1 : k \in 1..n /\ topOf(st, k) \in 1..n - 1
  BY <1>1, LaidOutFacts
<1>6. Shaped(su)
  BY <1>1, <1>3, <1>5 DEF LaidOut, Shaped
<1>7. Topped(su)
  BY <1>1, <1>3, <1>4, <1>5 DEF LaidOut, Topped
<1>8. Ordered(su)
  BY <1>1, <1>3, <1>4, <1>5 DEF LaidOut, Ordered
<1>9. Reserved(su)
  BY <1>1, <1>3, <1>4, <1>5 DEF LaidOut, Reserved
<1> QED
  BY <1>6, <1>7, <1>8, <1>9 DEF LaidOut, su

(* The layout depends on nothing but tops, offsets, tables and reservations. *)
LEMMA SameLayout ==
  ASSUME NEW st, LaidOut(st), NEW su, Shaped(su), DOMAIN su = DOMAIN st,
         \A k \in DOMAIN st : /\ su[k].top = st[k].top /\ su[k].offset = st[k].offset
                              /\ su[k].tbl = st[k].tbl /\ su[k].maxLocal = st[k].maxLocal
  PROVE  LaidOut(su)
<1> DEFINE n == Len(st)
<1>1. n \in Nat /\ DOMAIN st = 1..n /\ DOMAIN su = 1..n
  BY DomainOf DEF LaidOut
<1>2. ASSUME NEW k \in 1..n
      PROVE  topOf(su, k) = topOf(st, k) /\ nextOffset(su[k]) = nextOffset(st[k])
  <2>1. \A j \in 1..k : su[j].top = st[j].top
    BY <1>1
  <2> QED
    BY <1>1, <2>1, SameTops DEF nextOffset
<1>3. \A k \in 1..n : topOf(st, k) \in 1..n
  BY <1>1, LaidOutFacts
<1>4. Topped(su)
  BY <1>1, <1>2, <1>3 DEF LaidOut, Topped
<1>5. Ordered(su)
  BY <1>1, <1>2, <1>3 DEF LaidOut, Ordered
<1>6. Reserved(su)
  BY <1>1, <1>2, <1>3 DEF LaidOut, Reserved
<1> QED
  BY <1>4, <1>5, <1>6 DEF LaidOut

(* Functions on the way to a captured variable get an upvalue.             *)
LEMMA Collapsed ==
  ASSUME NEW st, LaidOut(st), NEW k, NEW idx
  PROVE  LaidOut(collapse(st, k, idx))
<1> DEFINE n == Len(st)
           su == collapse(st, k, idx)
<1>1. n \in Nat /\ DOMAIN st = 1..n
  BY DomainOf DEF LaidOut
<1>2. PICK tops, e : su = [j \in DOMAIN st |-> IF j \in tops THEN [st[j] EXCEPT !.upvalue = Append(@, e[j])] ELSE st[j]]
  <2> DEFINE tops == {j \in k + 1..Len(st) : st[j].top}
             entry(j) == IF j = Min(tops) THEN [onStack |-> TRUE, index |-> idx]
                         ELSE [onStack |-> FALSE, index |-> Len(st[Max({i \in tops : i < j})].upvalue)]
             e == [j \in DOMAIN st |-> entry(j)]
  <2>1. su = [j \in DOMAIN st |-> IF j \in tops THEN [st[j] EXCEPT !.upvalue = Append(@, entry(j))] ELSE st[j]]
    BY DEF collapse
  <2> HIDE DEF tops, entry, su
  <2>2. su = [j \in DOMAIN st |-> IF j \in tops THEN [st[j] EXCEPT !.upvalue = Append(@, e[j])] ELSE st[j]]
    BY <2>1
  <2> HIDE DEF e
  <2> QED
    BY <2>2
<1> HIDE DEF su
<1>3. ASSUME NEW j \in 1..n
      PROVE  /\ ScopeOK(su[j])
             /\ su[j].top = st[j].top /\ su[j].offset = st[j].offset
             /\ su[j].tbl = st[j].tbl /\ su[j].maxLocal = st[j].maxLocal
  <2>1. PICK E, T, U : st[j] \in [top : BOOLEAN, entry : E, offset : Nat, tbl : Seq(T),
                                  maxLocal : Nat, upvalue : Seq(U)]
    BY <1>1 DEF LaidOut, Shaped, ScopeOK
  <2> DEFINE s == [st[j] EXCEPT !.upvalue = Append(st[j].upvalue, e[j])]
             V == U \cup {e[j]}
  <2>2. Append(st[j].upvalue, e[j]) \in Seq(V)
    BY <2>1
  <2> HIDE DEF V
  <2>3. /\ s \in [top : BOOLEAN, entry : E, offset : Nat, tbl : Seq(T),
                  maxLocal : Nat, upvalue : Seq(V)]
        /\ s.top = st[j].top /\ s.offset = st[j].offset
        /\ s.tbl = st[j].tbl /\ s.maxLocal = st[j].maxLocal
    BY <2>1, <2>2
  <2>4. ScopeOK(s)
    BY <2>3 DEF ScopeOK
  <2>5. su[j] = s \/ su[j] = st[j]
    BY <1>1, <1>2
  <2>6. ScopeOK(st[j])
    BY <2>1 DEF ScopeOK
  <2> QED
    BY <2>3, <2>4, <2>5, <2>6
<1>4. DOMAIN su = 1..n /\ su \in Seq({su[j] : j \in 1..n})
  <2>1. su = [j \in DOMAIN st |-> su[j]]
    <3> DEFINE after(j) == IF j \in tops THEN [st[j] EXCEPT !.upvalue = Append(@, e[j])] ELSE st[j]
    <3>1. su = [j \in DOMAIN st |-> after(j)]
      BY <1>2
    <3> HIDE DEF after
    <3> QED
      BY <3>1
  <2> QED
    BY <1>1, <2>1
<1>5. Shaped(su)
  BY <1>3, <1>4 DEF Shaped
<1> QED
  BY <1>1, <1>3, <1>4, <1>5, SameLayout DEF su

\* One more for this scope, nothing for the others.
more(k, i) == IF k = i THEN 1 ELSE 0

LEMMA MoreFacts ==
  ASSUME NEW k, NEW i
  PROVE  more(k, i) \in Nat /\ (k = i => more(k, i) = 1) /\ (k # i => more(k, i) = 0)
BY DEF more

(* A declaration takes the first slot behind those of its scope, which is  *)
(* the innermost, and its function reserves one more.                      *)
LEMMA DeclareResolves ==
  ASSUME NEW st, LaidOut(st), Len(st) > 0, NEW sym, NEW t, t = topOf(st, Len(st))
  PROVE  LaidOut([[st EXCEPT ![Len(st)].tbl = Append(@, sym)] EXCEPT ![t].maxLocal = @ + 1])
<1> DEFINE n == Len(st)
           sm == [st EXCEPT ![n].tbl = Append(@, sym)]
           su == [sm EXCEPT ![t].maxLocal = @ + 1]
<1>1. n \in Nat /\ n \in 1..n /\ t \in 1..n /\ DOMAIN st = 1..n /\ st = [k \in 1..n |-> st[k]]
  <2>1. n \in Nat /\ n \in 1..n /\ DOMAIN st = 1..n
    BY DomainOf DEF LaidOut
  <2>2. t \in 1..n
    BY <2>1, LaidOutFacts
  <2>3. st = [k \in 1..n |-> st[k]]
    BY <2>1 DEF LaidOut, Shaped
  <2> QED
    BY <2>1, <2>2, <2>3
<1>2. \A k \in 1..n : sm[k] = IF k = n THEN [st[k] EXCEPT !.tbl = Append(@, sym)] ELSE st[k]
  BY <1>1
<1>3. sm = [k \in 1..n |-> sm[k]] /\ DOMAIN sm = 1..n
  BY <1>1
<1> HIDE DEF sm
<1>4. /\ \A k \in 1..n : su[k] = IF k = t THEN [sm[k] EXCEPT !.maxLocal = @ + 1] ELSE sm[k]
      /\ DOMAIN su = 1..n /\ su = [k \in 1..n |-> su[k]]
  BY <1>1, <1>3
<1> HIDE DEF su
<1>5. ASSUME NEW k \in 1..n
      PROVE  /\ ScopeOK(su[k])
             /\ su[k].top = st[k].top /\ su[k].offset = st[k].offset
             /\ Len(su[k].tbl) = Len(st[k].tbl) + more(k, n)
             /\ su[k].maxLocal = st[k].maxLocal + more(k, t)
  <2>1. PICK E, T, U : st[k] \in [top : BOOLEAN, entry : E, offset : Nat, tbl : Seq(T),
                                  maxLocal : Nat, upvalue : Seq(U)]
    BY <1>1 DEF LaidOut, Shaped, ScopeOK
  <2> DEFINE S == Seq(T \cup {sym})
             R == [top : BOOLEAN, entry : E, offset : Nat, tbl : S, maxLocal : Nat, upvalue : Seq(U)]
  <2>2. st[k].tbl \in S /\ Append(st[k].tbl, sym) \in S
        /\ Len(Append(st[k].tbl, sym)) = Len(st[k].tbl) + 1 /\ Len(st[k].tbl) \in Nat
    BY <2>1
  <2> HIDE DEF S
  <2>3. st[k] \in R
    BY <2>1, <2>2
  <2>4. /\ sm[k] \in R /\ sm[k].top = st[k].top /\ sm[k].offset = st[k].offset
        /\ sm[k].maxLocal = st[k].maxLocal
        /\ sm[k].tbl = IF k = n THEN Append(st[k].tbl, sym) ELSE st[k].tbl
    BY <1>2, <2>2, <2>3
  <2>5. Len(sm[k].tbl) = Len(st[k].tbl) + more(k, n)
    BY <2>2, <2>4, MoreFacts
  <2>6. /\ su[k] \in R /\ su[k].top = sm[k].top /\ su[k].offset = sm[k].offset
        /\ su[k].tbl = sm[k].tbl
        /\ su[k].maxLocal = sm[k].maxLocal + more(k, t)
    <3>1. su[k].maxLocal = sm[k].maxLocal + more(k, t)
      BY <1>4, <2>4, MoreFacts
    <3> QED
      BY SMTT(30), <1>4, <2>4, <3>1
  <2>7. ScopeOK(su[k])
    BY <2>6 DEF ScopeOK, S
  <2> QED
    <3>1. su[k].top = st[k].top /\ su[k].offset = st[k].offset
      BY <2>4, <2>6
    <3>2. Len(su[k].tbl) = Len(st[k].tbl) + more(k, n)
      BY <2>6, <2>5
    <3>3. su[k].maxLocal = st[k].maxLocal + more(k, t)
      BY <2>4, <2>6
    <3> QED
      BY <2>7, <3>1, <3>2, <3>3
<1>6. su \in Seq({su[k] : k \in 1..n})
  BY <1>1, <1>4
<1>7. Shaped(su)
  BY <1>4, <1>5, <1>6 DEF Shaped
<1>8. ASSUME NEW k \in 1..n
      PROVE  /\ topOf(su, k) = topOf(st, k) /\ topOf(st, k) \in 1..n
             /\ nextOffset(su[k]) = nextOffset(st[k]) + more(k, n)
             /\ nextOffset(st[k]) \in Nat /\ st[k].offset \in Nat
  <2>1. \A j \in 1..n : su[j].top = st[j].top
    BY <1>5
  <2>2. topOf(su, k) = topOf(st, k)
    <3>1. \A j \in 1..k : su[j].top = st[j].top
      BY <1>1, <2>1
    <3> QED
      BY <3>1, SameTops
  <2>3. ScopeOK(st[k]) /\ ScopeOK(su[k]) /\ topOf(st, k) \in 1..n
    BY <1>5, LaidOutFacts
  <2>4. nextOffset(su[k]) = nextOffset(st[k]) + more(k, n)
    <3>1. /\ nextOffset(su[k]) = su[k].offset + Len(su[k].tbl)
          /\ nextOffset(st[k]) = st[k].offset + Len(st[k].tbl)
          /\ st[k].offset \in Nat /\ Len(st[k].tbl) \in Nat
      BY <2>3, ScopeFacts
    <3>2. /\ su[k].offset = st[k].offset
          /\ Len(su[k].tbl) = Len(st[k].tbl) + more(k, n)
      BY <1>5
    <3> QED
      BY <3>1, <3>2, MoreFacts
  <2> QED
    BY <2>2, <2>3, <2>4, ScopeFacts
<1>9. Topped(su)
  BY <1>1, <1>4, <1>5, <1>8 DEF LaidOut, Topped
<1>10. Ordered(su)
  <2> SUFFICES ASSUME NEW j \in 1..n, NEW k \in 1..n, topOf(su, j) = topOf(su, k), j < k
               PROVE  nextOffset(su[j]) <= su[k].offset
    BY <1>4 DEF Ordered
  <2>1. nextOffset(st[j]) <= st[k].offset
    BY <1>1, <1>8 DEF LaidOut, Ordered
  <2>2. j # n
    BY <1>1
  <2>3. nextOffset(su[j]) = nextOffset(st[j]) /\ su[k].offset = st[k].offset
    <3>1. more(j, n) = 0
      BY <2>2, MoreFacts, Zenon
    <3>2. nextOffset(su[j]) = nextOffset(st[j])
      <4>1. nextOffset(su[j]) = nextOffset(st[j]) + more(j, n) /\ nextOffset(st[j]) \in Nat
        BY <1>8, Zenon
      <4>2. PICK a \in Nat : a = nextOffset(st[j])
        BY <4>1
      <4>3. nextOffset(su[j]) = a + 0
        BY <3>1, <4>1, <4>2, Zenon
      <4>4. a + 0 = a
        OBVIOUS
      <4> QED
        BY <4>2, <4>3, <4>4, Zenon
    <3>3. su[k].offset = st[k].offset
      BY <1>5
    <3> QED
      BY <3>2, <3>3
  <2> QED
    BY <2>1, <2>3
<1>11. Reserved(su)
  <2> SUFFICES ASSUME NEW k \in 1..n
               PROVE  nextOffset(su[k]) <= su[topOf(su, k)].maxLocal
    BY <1>4 DEF Reserved
  <2> DEFINE m == topOf(st, k)
  <2>1. nextOffset(st[k]) <= st[m].maxLocal /\ st[m].maxLocal \in Nat
    BY LaidOutFacts
  <2>2. m \in 1..n /\ su[m].maxLocal = st[m].maxLocal + more(m, t)
    BY <1>5, <1>8
  <2>3. k = n => m = t
    OBVIOUS
  <2> HIDE DEF m
  <2>4. nextOffset(su[k]) = nextOffset(st[k]) + more(k, n) /\ nextOffset(st[k]) \in Nat
    BY <1>8
  <2>5. nextOffset(su[k]) <= su[m].maxLocal
    BY <2>1, <2>2, <2>3, <2>4, MoreFacts
  <2> QED
    BY <1>8, <2>5 DEF m
<1> QED
  BY <1>7, <1>9, <1>10, <1>11 DEF LaidOut, su, sm

-----------------------------------------------------------------------------
(* The parser's stack. *)

LEMMA ShortSeqs ==
  ASSUME NEW T, NEW a \in T, NEW b \in T, NEW q \in Seq(T)
  PROVE  <<>> \in Seq(T) /\ <<a, b>> \in Seq(T) /\ Append(q, b) \in Seq(T)
OBVIOUS

LEMMA StepLaysOut ==
  ASSUME LaidOut(scopes), [ScopeNext]_scopeVars
  PROVE  LaidOut(scopes')
<1> DEFINE n == Len(scopes)
<1>1. n \in Nat
  BY DomainOf DEF LaidOut
<1>2. scopes # <<>> => n > 0
  BY <1>1 DEF LaidOut, Shaped
<1>3. ASSUME NEW entry \in Entries, NEW args \in BoundedSeq(Names, 1), EnterTop(entry, args)
      PROVE  LaidOut(scopes')
  <2> DEFINE T == {Symbol(x, FALSE) : x \in Names \cup {"#event", "#frame"}}
             symbols == [i \in DOMAIN args |-> Symbol(args[i], FALSE)]
             tbl == IF entry = "rule" THEN <<Symbol("#event", FALSE), Symbol("#frame", FALSE)>>
                    ELSE IF entry = "fn" THEN Append(symbols, Symbol("#frame", FALSE)) ELSE <<>>
             s == lexicalScope(scopes, TRUE, entry, tbl)
  <2>1. scopes' = Append(scopes, s)
    BY <1>3 DEF EnterTop
  <2>2. tbl \in Seq(T)
    <3>1. PICK m \in Nat : args \in [1..m -> Names]
      <4>1. PICK A \in {[1..m -> Names] : m \in 0..1} : args \in A
        BY DEF BoundedSeq, SeqOf
      <4>2. PICK m \in 0..1 : A = [1..m -> Names]
        OBVIOUS
      <4>3. m \in Nat /\ args \in [1..m -> Names]
        BY <4>1, <4>2
      <4> QED
        BY <4>3
    <3>2. symbols \in Seq(T)
      <4>1. symbols \in [1..m -> T]
        BY <3>1
      <4> HIDE DEF T, symbols
      <4> QED
        BY <4>1
    <3>3. Symbol("#event", FALSE) \in T /\ Symbol("#frame", FALSE) \in T
      OBVIOUS
    <3> HIDE DEF T, symbols
    <3> QED
      BY <3>2, <3>3, ShortSeqs
  <2> HIDE DEF tbl, T
  <2>3. /\ s.top = TRUE /\ s.offset = 0 /\ s.tbl = tbl /\ s.maxLocal = Len(tbl)
        /\ s \in [top : BOOLEAN, entry : {entry}, offset : Nat, tbl : Seq(T),
                  maxLocal : Nat, upvalue : Seq({})]
    BY <2>2 DEF lexicalScope
  <2> HIDE DEF s
  <2>4. ScopeOK(s)
    BY <2>3 DEF ScopeOK
  <2>5. s.top /\ nextOffset(s) <= s.maxLocal
    BY <2>2, <2>3 DEF nextOffset
  <2> QED
    BY <2>1, <2>4, <2>5, TopEntered
<1>4. ASSUME EnterScope
      PROVE  LaidOut(scopes')
  <2> DEFINE s == lexicalScope(scopes, FALSE, scopes[n].entry, <<>>)
  <2>1. scopes' = Append(scopes, s) /\ n > 0
    BY <1>2, <1>4 DEF EnterScope
  <2>2. nextOffset(scopes[n]) \in Nat
    BY <1>1, <2>1, LaidOutFacts
  <2>3. /\ s.top = FALSE /\ s.offset = nextOffset(scopes[n]) /\ s.tbl = <<>>
        /\ s \in [top : BOOLEAN, entry : {scopes[n].entry}, offset : Nat, tbl : Seq({}),
                  maxLocal : Nat, upvalue : Seq({})]
    BY <2>2 DEF lexicalScope
  <2> HIDE DEF s
  <2>4. ScopeOK(s) /\ ~s.top /\ Len(s.tbl) = 0
    BY <2>3 DEF ScopeOK
  <2> QED
    BY <2>1, <2>3, <2>4, BlockEntered
<1>5. ASSUME leaveScope
      PROVE  LaidOut(scopes')
  BY <1>2, <1>5, ScopeLeft DEF leaveScope
<1>6. ASSUME NEW name \in Names, NEW const \in BOOLEAN, defLocal(name, const)
      PROVE  LaidOut(scopes')
  <2> DEFINE sym == Symbol(name, const)
             t == prevTop(n)
  <2>1. n > 0 /\ scopes' = [[scopes EXCEPT ![n].tbl = Append(@, sym)] EXCEPT ![t].maxLocal = @ + 1]
    BY <1>2, <1>6 DEF defLocal
  <2>2. t = topOf(scopes, n)
    BY DEF prevTop, topOf
  <2> HIDE DEF sym, t
  <2> QED
    BY <2>1, <2>2, DeclareResolves
<1>7. ASSUME NEW name \in Names, NEW write \in BOOLEAN, Use(name, write)
      PROVE  LaidOut(scopes')
  <2>1. scopes' = scopes \/ \E k, idx : scopes' = collapse(scopes, k, idx)
    <3>1. resolveSymbol(name, write)
      BY <1>7 DEF Use
    <3>2. CASE declaring(name, n) # {}
      BY <3>1, <3>2 DEF resolveSymbol
    <3>3. CASE declaring(name, n) = {} /\ capturing(name) # {}
      BY <3>1, <3>3 DEF resolveSymbol
    <3>4. CASE declaring(name, n) = {} /\ capturing(name) = {}
      BY <3>1, <3>4 DEF resolveSymbol
    <3> QED
      BY <3>2, <3>3, <3>4
  <2> QED
    BY <2>1, Collapsed
<1>8. CASE UNCHANGED scopeVars
  BY <1>8 DEF scopeVars
<1> QED
  BY <1>3, <1>4, <1>5, <1>6, <1>7, <1>8 DEF ScopeNext

LEMMA LaidOutApart ==
  ASSUME LaidOut(scopes)
  PROVE  SlotsApart
<1> DEFINE n == Len(scopes)
<1>1. n \in Nat /\ DOMAIN scopes = 1..n
  BY DomainOf DEF LaidOut
<1>2. \A k : prevTop(k) = topOf(scopes, k)
  BY DEF prevTop, topOf
<1>3. ASSUME NEW k \in 1..n, NEW b \in DOMAIN scopes[k].tbl
      PROVE  /\ b \in Nat /\ scopes[k].offset \in Nat
             /\ slot(k, b) \in Nat /\ slot(k, b) = scopes[k].offset + b - 1
             /\ scopes[k].offset <= slot(k, b) /\ slot(k, b) < nextOffset(scopes[k])
  <2>1. ScopeOK(scopes[k])
    BY LaidOutFacts
  <2> QED
    BY <2>1, <1>3, ScopeFacts DEF slot
<1> SUFFICES ASSUME NEW j \in 1..n, NEW k \in 1..n, prevTop(j) = prevTop(k)
             PROVE  /\ \A a \in DOMAIN scopes[j].tbl, b \in DOMAIN scopes[k].tbl :
                         slot(j, a) = slot(k, b) => j = k /\ a = b
                    /\ \A b \in DOMAIN scopes[k].tbl : slot(k, b) < scopes[prevTop(k)].maxLocal
  BY <1>1 DEF SlotsApart
<1>4. /\ nextOffset(scopes[j]) \in Nat /\ nextOffset(scopes[k]) \in Nat
      /\ nextOffset(scopes[k]) <= scopes[prevTop(k)].maxLocal /\ scopes[prevTop(k)].maxLocal \in Nat
  BY <1>2, LaidOutFacts
<1>5. /\ j < k => nextOffset(scopes[j]) <= scopes[k].offset
      /\ k < j => nextOffset(scopes[k]) <= scopes[j].offset
  BY <1>1, <1>2 DEF LaidOut, Ordered
<1>6. ASSUME NEW a \in DOMAIN scopes[j].tbl, NEW b \in DOMAIN scopes[k].tbl,
             slot(j, a) = slot(k, b)
      PROVE  j = k /\ a = b
  <2>1. ~(j < k) /\ ~(k < j)
    BY <1>3, <1>4, <1>5, <1>6
  <2>2. j = k
    BY <1>1, <2>1
  <2> QED
    BY <1>3, <1>6, <2>2
<1>7. ASSUME NEW b \in DOMAIN scopes[k].tbl
      PROVE  slot(k, b) < scopes[prevTop(k)].maxLocal
  BY <1>3, <1>4
<1> QED
  BY <1>6, <1>7

(* However a script nests functions, blocks and declarations, the variables in  *)
(* reach of a position of a function have slots of their own, below the size    *)
(* that the function reserves: a variable of a loop or a branch never overwrites *)
(* one of the scopes around it, an argument or the saved frame.                 *)
THEOREM VariablesHaveOwnSlots == ScopeSpec => []SlotsApart
<1>1. ScopeInit => LaidOut(scopes)
  BY EmptyLaidOut DEF ScopeInit
<1>2. LaidOut(scopes) /\ [ScopeNext]_scopeVars => LaidOut(scopes)'
  BY StepLaysOut
<1>3. LaidOut(scopes) => SlotsApart
  BY LaidOutApart
<1> QED
  BY <1>1, <1>2, <1>3, PTL DEF ScopeSpec

-----------------------------------------------------------------------------
(* What a name means.  The parser resolves a use once, from the scopes that *)
(* are around it then, so the invariant is about the last use only: what    *)
(* resolveSymbol found, and for an upvalue the entries that collapse made,  *)
(* one at the end of each table on the way.                                 *)

\* The functions that begin inside scope k.
inside(k) == {j \in k + 1..Len(scopes) : scopes[j].top}

Leading(k, idx) ==
  \A j \in inside(k) :
    LET ups == scopes[j].upvalue
    IN /\ Len(ups) > 0
       /\ j = k + 1 => ups[Len(ups)] = [onStack |-> TRUE, index |-> idx]
       /\ j # k + 1 => ups[Len(ups)] = [onStack |-> FALSE, index |-> Len(scopes[prevTop(j - 1)].upvalue) - 1]

IsLocal(name) ==
  LET n == Len(scopes)
      j == Max(declaring(name, n))
  IN /\ declaring(name, n) # {}
     /\ resolved.idx = findLocalAt(name, n)
     /\ resolved.sort = IF resolved.write /\ scopes[j].tbl[CHOOSE i \in found(j, name) : TRUE].const
                        THEN "const" ELSE "local"

IsUpvalue(name) ==
  LET n == Len(scopes)
      k == Max(capturing(name))
  IN /\ declaring(name, n) = {} /\ capturing(name) # {}
     /\ resolved.sort = "upvalue"
     /\ resolved.idx = Len(scopes[prevTop(n)].upvalue) - 1
     /\ Leading(k, findLocalAt(name, k))

IsOuter(name) ==
  declaring(name, Len(scopes)) = {} /\ capturing(name) = {} /\ resolved.sort = "outer"

Resolution ==
  resolved # None =>
    /\ Len(scopes) > 0
    /\ IsLocal(resolved.name) \/ IsUpvalue(resolved.name) \/ IsOuter(resolved.name)

LEMMA LeastOne ==
  ASSUME NEW S, S \subseteq Nat, S # {}
  PROVE  Min(S) \in S /\ \A x \in S : Min(S) <= x
<1>1. PICK m \in S : \A x \in S : <<x, m>> \notin OpToRel(<, Nat)
  BY WFMin, NatLessThanWellFounded, Zenon
<1>2. ASSUME NEW x \in S PROVE m <= x
  <2>1. x \in Nat /\ m \in Nat
    OBVIOUS
  <2>2. ~(x < m)
    BY <1>1, <2>1 DEF OpToRel
  <2> QED
    BY <2>1, <2>2
<1>3. \E m1 \in S : \A x \in S : m1 <= x
  BY <1>2
<1> QED
  BY <1>3 DEF Min

LEMMA GreatestOne ==
  ASSUME NEW n \in Nat, NEW S, S \subseteq 0..n, S # {}
  PROVE  Max(S) \in S /\ \A x \in S : x <= Max(S)
<1> DEFINE R == {n - x : x \in S}
<1>1. R \subseteq Nat /\ R # {}
  <2>1. \A x \in S : n - x \in Nat
    OBVIOUS
  <2>2. PICK x \in S : n - x \in R
    OBVIOUS
  <2> QED
    BY <2>1, <2>2
<1> HIDE DEF R
<1>2. Min(R) \in R /\ \A y \in R : Min(R) <= y
  BY <1>1, LeastOne
<1>3. PICK x \in S : Min(R) = n - x
  BY <1>2 DEF R
<1>4. ASSUME NEW y \in S PROVE x >= y
  <2>1. n - y \in R /\ x \in 0..n /\ y \in 0..n
    BY DEF R
  <2>2. n - x <= n - y
    BY <1>2, <1>3, <2>1
  <2> QED
    BY <2>1, <2>2
<1>5. \E m \in S : \A y \in S : m >= y
  BY <1>4
<1>6. Max(S) \in S /\ \A y \in S : Max(S) >= y
  BY <1>5 DEF Max
<1> QED
  BY <1>6

(* The function of a scope is the last one that begins before it.           *)
LEMMA PrevTop ==
  ASSUME LaidOut(scopes), NEW k \in 1..Len(scopes)
  PROVE  /\ Len(scopes) \in Nat /\ DOMAIN scopes = 1..Len(scopes)
         /\ prevTop(k) \in 1..k /\ scopes[prevTop(k)].top
         /\ \A j \in 1..k : scopes[j].top => j <= prevTop(k)
<1>1. Len(scopes) \in Nat /\ DOMAIN scopes = 1..Len(scopes)
  BY DomainOf DEF LaidOut
<1>2. prevTop(k) \in 1..k /\ scopes[prevTop(k)].top
  BY LaidOutFacts DEF prevTop, topOf
<1> DEFINE T == {j \in 1..k : scopes[j].top}
<1>3. T \subseteq 0..k /\ k \in Nat
  BY <1>1
<1>4. ASSUME NEW j \in 1..k, scopes[j].top PROVE j <= prevTop(k)
  <2>1. j \in T
    BY <1>4
  <2> HIDE DEF T
  <2>2. j <= Max(T)
    BY <1>3, <2>1, GreatestOne
  <2> QED
    BY <2>2 DEF prevTop, T
<1> QED
  BY <1>1, <1>2, <1>4

LEMMA SameFunction ==
  ASSUME LaidOut(scopes), NEW k \in 1..Len(scopes), NEW j \in prevTop(k)..k
  PROVE  prevTop(j) = prevTop(k)
<1>1. Len(scopes) \in Nat /\ prevTop(k) \in 1..k /\ scopes[prevTop(k)].top
  BY PrevTop
<1>2. j \in 1..Len(scopes) /\ prevTop(k) \in 1..j
  BY <1>1
<1>3. prevTop(j) \in 1..j /\ scopes[prevTop(j)].top /\ prevTop(k) <= prevTop(j)
  BY <1>1, <1>2, PrevTop
<1>4. prevTop(j) \in 1..k
  BY <1>1, <1>2, <1>3
<1>5. prevTop(j) <= prevTop(k)
  BY <1>3, <1>4, PrevTop
<1> QED
  BY <1>1, <1>3, <1>4, <1>5

(* A declaration around a use is in the function of the use, or in one      *)
(* around a function literal.                                               *)
LEMMA Reached ==
  ASSUME LaidOut(scopes), NEW name, NEW m \in 1..Len(scopes), found(m, name) # {}
  PROVE  m \in declaring(name, Len(scopes)) \/ \E k \in capturing(name) : m <= k
<1> DEFINE n == Len(scopes)
<1>1. n \in Nat /\ n \in 1..n /\ DOMAIN scopes = 1..n
  BY PrevTop
<1>2. prevTop(n) \in 1..n /\ scopes[prevTop(n)].top
  BY <1>1, PrevTop
<1>3. CASE prevTop(n) <= m
  BY <1>1, <1>2, <1>3 DEF declaring
<1>4. CASE m < prevTop(n)
  <2> DEFINE T == {t \in m + 1..n : scopes[t].top}
  <2>1. T \subseteq Nat /\ prevTop(n) \in T
    BY <1>1, <1>2, <1>4
  <2> HIDE DEF T
  <2>2. Min(T) \in T /\ \A t \in T : Min(T) <= t
    BY <2>1, LeastOne
  <2>3. PICK t : t = Min(T)
    OBVIOUS
  <2>4. t \in m + 1..n /\ scopes[t].top /\ \A u \in m + 1..n : scopes[u].top => t <= u
    BY <2>2, <2>3 DEF T
  <2>5. t - 1 \in 1..n /\ m <= t - 1 /\ t - 1 < n /\ (t - 1) + 1 = t
    BY <1>1, <2>4
  <2>6. prevTop(t - 1) \in 1..t - 1 /\ scopes[prevTop(t - 1)].top
    BY <2>5, PrevTop
  <2>7. prevTop(t - 1) <= m
    <3> SUFFICES ASSUME m < prevTop(t - 1) PROVE FALSE
      BY <1>1, <2>6, <2>5
    <3>1. prevTop(t - 1) \in m + 1..n
      BY <1>1, <2>4, <2>6
    <3>2. t <= prevTop(t - 1)
      BY <2>4, <2>6, <3>1
    <3> QED
      BY <1>1, <2>4, <2>6, <3>2
  <2>8. m \in declaring(name, t - 1)
    BY <2>5, <2>6, <2>7 DEF declaring
  <2>9. t - 1 \in around
    BY <1>1, <2>4, <2>5 DEF around
  <2>10. t - 1 \in capturing(name)
    BY <2>8, <2>9 DEF capturing
  <2> QED
    BY <2>5, <2>10
<1> QED
  BY <1>1, <1>2, <1>3, <1>4

(* If no declaration is further in than scope k, the innermost one is the   *)
(* one that findLocalAt finds from there.                                   *)
LEMMA InnermostFrom ==
  ASSUME LaidOut(scopes), NEW k \in 1..Len(scopes), NEW name, declaring(name, k) # {},
         NEW decls, decls = {m \in DOMAIN scopes : found(m, name) # {}},
         \A m \in decls : m <= k
  PROVE  /\ decls # {} /\ Max(decls) \in 1..k /\ Max(decls) = Max(declaring(name, k))
         /\ prevTop(Max(decls)) = prevTop(k)
<1> DEFINE n == Len(scopes)
           D == declaring(name, k)
<1>1. n \in Nat /\ DOMAIN scopes = 1..n /\ prevTop(k) \in 1..k
  BY PrevTop
<1>2. D = {m \in prevTop(k)..k : found(m, name) # {}}
  BY DEF declaring
<1> HIDE DEF D
<1>3. D \subseteq 0..k /\ k \in Nat /\ D # {}
  BY <1>1, <1>2 DEF D
<1>4. PICK j : j = Max(D)
  OBVIOUS
<1>5. j \in D /\ \A m \in D : m <= j
  BY <1>3, <1>4, GreatestOne
<1>6. j \in prevTop(k)..k /\ j \in decls
  BY <1>1, <1>2, <1>5
<1>7. ASSUME NEW m \in decls PROVE m <= j
  <2>1. CASE m < prevTop(k)
    BY <1>1, <1>6, <2>1
  <2>2. CASE prevTop(k) <= m
    <3>1. m \in D
      BY <1>1, <1>2, <2>2
    <3> QED
      BY <1>5, <3>1
  <2> QED
    BY <1>1, <2>1, <2>2
<1>8. decls \subseteq 0..n
  BY <1>1
<1>9. Max(decls) \in decls /\ j <= Max(decls)
  BY <1>1, <1>6, <1>8, GreatestOne
<1>10. Max(decls) = j
  BY <1>1, <1>6, <1>7, <1>8, <1>9
<1>11. prevTop(j) = prevTop(k)
  BY <1>6, SameFunction
<1> QED
  BY <1>1, <1>4, <1>6, <1>10, <1>11 DEF D

(* Of several scopes around function literals that see a declaration, the   *)
(* last one sees the innermost.                                             *)
LEMMA CapturedInnermost ==
  ASSUME LaidOut(scopes), Len(scopes) > 0, NEW name,
         declaring(name, Len(scopes)) = {}, capturing(name) # {},
         NEW decls, decls = {m \in DOMAIN scopes : found(m, name) # {}}
  PROVE  LET k == Max(capturing(name))
         IN /\ k \in capturing(name) /\ k \in 1..Len(scopes) /\ k < Len(scopes) /\ scopes[k + 1].top
            /\ declaring(name, k) # {} /\ \A m \in decls : m <= k
<1> DEFINE n == Len(scopes)
           C == capturing(name)
<1>1. n \in Nat /\ DOMAIN scopes = 1..n
  BY DomainOf DEF LaidOut
<1>2. C \subseteq 0..n /\ \A k \in C : k \in 1..n /\ k < n /\ scopes[k + 1].top /\ declaring(name, k) # {}
  BY <1>1 DEF capturing, around
<1> HIDE DEF C
<1>3. Max(C) \in C /\ \A k \in C : k <= Max(C)
  BY <1>1, <1>2, GreatestOne DEF C
<1>4. ASSUME NEW m \in decls PROVE m <= Max(C)
  <2>1. m \in 1..n /\ found(m, name) # {}
    BY <1>1
  <2>2. PICK k \in C : m <= k
    BY <2>1, Reached DEF C
  <2>3. k \in 1..n /\ Max(C) \in 1..n /\ k <= Max(C)
    BY <1>2, <1>3
  <2> QED
    BY <1>1, <2>1, <2>2, <2>3
<1> QED
  BY <1>2, <1>3, <1>4 DEF C

-----------------------------------------------------------------------------
(* The walk along upvalues. *)

Start == [onStack |-> FALSE, top |-> prevTop(Len(scopes)), idx |-> resolved.idx]
Walk(c, m) == c = [d \in 0..m |-> IF d = 0 THEN Start ELSE Hop(c[d - 1])]

(* There is such a walk of any length: were there a shortest one missing,    *)
(* the one before it could be continued.                                     *)
LEMMA Walks ==
  ASSUME NEW n \in Nat
  PROVE  \E c : Walk(c, n)
<1> DEFINE S == {m \in Nat : ~\E c : Walk(c, m)}
<1> SUFFICES ASSUME S # {} PROVE FALSE
  OBVIOUS
<1>1. PICK m : m = Min(S)
  OBVIOUS
<1>2. S \subseteq Nat
  OBVIOUS
<1> HIDE DEF S
<1>3. m \in S /\ \A x \in S : m <= x
  BY <1>1, <1>2, LeastOne
<1>4. m \in Nat /\ ~\E c : Walk(c, m)
  BY <1>3 DEF S
<1>5. CASE m = 0
  <2> DEFINE c == [d \in 0..0 |-> Start]
  <2>1. Walk(c, 0)
    BY DEF Walk
  <2> QED
    BY <1>4, <1>5, <2>1
<1>6. CASE m # 0
  <2>1. m - 1 \in Nat /\ m - 1 < m
    BY <1>4, <1>6
  <2>2. m - 1 \notin S
    BY <1>3, <1>4, <2>1
  <2>3. PICK b : Walk(b, m - 1)
    BY <2>1, <2>2 DEF S
  <2> DEFINE next(d) == IF d = 0 THEN Start ELSE Hop(b[d - 1])
             c == [d \in 0..m |-> next(d)]
  <2>4. \A d \in 0..m - 1 : b[d] = next(d)
    BY <2>3 DEF Walk
  <2>5. \A d \in 0..m - 1 : c[d] = b[d]
    <3> HIDE DEF next
    <3> QED
      BY <1>4, <2>4
  <2>6. \A d \in 0..m : d # 0 => d - 1 \in 0..m - 1
    BY <1>4
  <2>7. \A d \in 0..m : next(d) = IF d = 0 THEN Start ELSE Hop(c[d - 1])
    <3> HIDE DEF c
    <3> QED
      BY <2>5, <2>6
  <2> HIDE DEF next
  <2>8. c = [d \in 0..m |-> next(d)]
    OBVIOUS
  <2> HIDE DEF c
  <2>9. c = [d \in 0..m |-> IF d = 0 THEN Start ELSE Hop(c[d - 1])]
    BY <2>7, <2>8
  <2>10. Walk(c, m)
    BY <2>9 DEF Walk
  <2> QED
    BY <1>4, <2>10
<1> QED
  BY <1>5, <1>6

LEMMA ChaseWalks ==
  ASSUME Len(scopes) \in Nat
  PROVE  /\ Chase[0] = Start
         /\ \A d \in 0..Len(scopes) : d # 0 => Chase[d] = Hop(Chase[d - 1])
<1>1. PICK c : Walk(c, Len(scopes))
  BY Walks
<1>2. Chase = [d \in 0..Len(scopes) |-> IF d = 0 THEN Start ELSE Hop(Chase[d - 1])]
  BY <1>1, Zenon DEF Chase, Walk, Start
<1> HIDE DEF Chase
<1>3. Chase[0] = Start
  BY <1>2
<1>4. ASSUME NEW d \in 0..Len(scopes), d # 0 PROVE Chase[d] = Hop(Chase[d - 1])
  BY <1>2, <1>4
<1> QED
  BY <1>3, <1>4

(* The entries that collapse made lead out of one function after the other, *)
(* and from the outermost to the variable.                                  *)
There(k, idx) == [onStack |-> TRUE, top |-> prevTop(k), idx |-> idx]
At(t) == [onStack |-> FALSE, top |-> t, idx |-> Len(scopes[t].upvalue) - 1]

LEMMA HopLeads ==
  ASSUME LaidOut(scopes), NEW k \in 1..Len(scopes), k < Len(scopes), scopes[k + 1].top,
         NEW idx, Leading(k, idx), NEW t \in inside(k)
  PROVE  /\ t = k + 1 => Hop(At(t)) = There(k, idx)
         /\ t # k + 1 => prevTop(t - 1) \in inside(k) /\ prevTop(t - 1) < t /\ Hop(At(t)) = At(prevTop(t - 1))
<1> DEFINE n == Len(scopes)
           ups == scopes[t].upvalue
<1>1. n \in Nat /\ DOMAIN scopes = 1..n
  BY DomainOf DEF LaidOut
<1>2. t \in k + 1..n /\ t \in 1..n /\ scopes[t].top
  BY <1>1 DEF inside
<1>3. Len(ups) \in Nat
  <2>1. ScopeOK(scopes[t])
    BY <1>2, LaidOutFacts
  <2> QED
    BY <2>1 DEF ScopeOK
<1>4. Hop(At(t)) = [onStack |-> ups[Len(ups)].onStack, top |-> prevTop(t - 1), idx |-> ups[Len(ups)].index]
  <2>1. Len(ups) - 1 + 1 = Len(ups)
    BY <1>3
  <2> QED
    BY <2>1 DEF Hop, At
<1>5. CASE t = k + 1
  <2>1. ups[Len(ups)] = [onStack |-> TRUE, index |-> idx]
    BY <1>5 DEF Leading
  <2>2. t - 1 = k
    BY <1>5
  <2> QED
    BY <1>4, <1>5, <2>1, <2>2 DEF There
<1>6. CASE t # k + 1
  <2>1. ups[Len(ups)] = [onStack |-> FALSE, index |-> Len(scopes[prevTop(t - 1)].upvalue) - 1]
    BY <1>6 DEF Leading
  <2>2. t - 1 \in 1..n /\ k + 1 \in 1..t - 1
    BY <1>1, <1>2, <1>6
  <2>3. prevTop(t - 1) \in 1..t - 1 /\ scopes[prevTop(t - 1)].top /\ k + 1 <= prevTop(t - 1)
    BY <2>2, PrevTop
  <2>4. prevTop(t - 1) \in inside(k) /\ prevTop(t - 1) < t
    BY <1>1, <1>2, <2>2, <2>3 DEF inside
  <2> QED
    BY <1>4, <1>6, <2>1, <2>4 DEF At
<1> QED
  BY <1>5, <1>6

LEMMA ChaseLeads ==
  ASSUME LaidOut(scopes), NEW k \in 1..Len(scopes), k < Len(scopes), scopes[k + 1].top,
         NEW idx, Leading(k, idx),
         resolved.idx = Len(scopes[prevTop(Len(scopes))].upvalue) - 1
  PROVE  Chase[Len(scopes)] = There(k, idx)
<1> DEFINE n == Len(scopes)
           Good(d) == Chase[d] = There(k, idx) \/ \E t \in inside(k) : t <= n - d /\ Chase[d] = At(t)
<1>1. n \in Nat /\ DOMAIN scopes = 1..n
  BY DomainOf DEF LaidOut
<1>2. /\ Chase[0] = Start
      /\ \A d \in 0..n : d # 0 => Chase[d] = Hop(Chase[d - 1])
  BY <1>1, ChaseWalks
<1>3. Good(0)
  <2>1. n \in 1..n /\ k + 1 \in 1..n
    BY <1>1
  <2>2. prevTop(n) \in 1..n /\ scopes[prevTop(n)].top /\ k + 1 <= prevTop(n)
    BY <2>1, PrevTop
  <2>3. prevTop(n) \in inside(k) /\ prevTop(n) <= n - 0
    BY <1>1, <2>2 DEF inside
  <2>4. Chase[0] = At(prevTop(n))
    BY <1>2 DEF Start, At
  <2> QED
    BY <2>3, <2>4
<1>4. ASSUME NEW d \in 0..n, d # 0, Good(d - 1) PROVE Good(d)
  <2>1. Chase[d] = Hop(Chase[d - 1])
    BY <1>2, <1>4
  <2>2. CASE Chase[d - 1] = There(k, idx)
    <3>1. Hop(There(k, idx)) = There(k, idx)
      BY DEF Hop, There
    <3> QED
      BY <2>1, <2>2, <3>1
  <2>3. ASSUME NEW t \in inside(k), t <= n - (d - 1), Chase[d - 1] = At(t) PROVE Good(d)
    <3>1. CASE t = k + 1
      BY <2>1, <2>3, <3>1, HopLeads
    <3>2. CASE t # k + 1
      <4>1. prevTop(t - 1) \in inside(k) /\ prevTop(t - 1) < t /\ Chase[d] = At(prevTop(t - 1))
        BY <2>1, <2>3, <3>2, HopLeads
      <4>2. prevTop(t - 1) <= n - d
        <5>1. t \in Int /\ prevTop(t - 1) \in Int
          BY <4>1 DEF inside
        <5> QED
          BY <1>1, <2>3, <4>1, <5>1
      <4> QED
        BY <4>1, <4>2
    <3> QED
      BY <3>1, <3>2
  <2> QED
    BY <1>4, <2>2, <2>3
<1>5. Good(n)
  <2> DEFINE S == {d \in 0..n : ~Good(d)}
  <2> SUFFICES ASSUME S # {} PROVE FALSE
    BY <1>1
  <2>1. PICK d : d = Min(S)
    OBVIOUS
  <2>2. S \subseteq Nat
    OBVIOUS
  <2> HIDE DEF Good
  <2>3. d \in S /\ \A x \in S : d <= x
    <3> HIDE DEF S
    <3> QED
      BY <2>1, <2>2, LeastOne
  <2>4. d \in 0..n /\ ~Good(d) /\ d # 0
    BY <1>3, <2>3
  <2>5. d - 1 \in 0..n /\ d - 1 < d
    BY <1>1, <2>4
  <2>6. Good(d - 1)
    BY <2>3, <2>4, <2>5
  <2> QED
    BY <1>4, <2>4, <2>6
<1>6. ~\E t \in inside(k) : t <= n - n
  BY <1>1 DEF inside
<1> QED
  BY <1>5, <1>6

LEMMA ResolvedToInnermost ==
  ASSUME LaidOut(scopes), Resolution
  PROVE  InnermostWins
<1> DEFINE n == Len(scopes)
           name == resolved.name
           decls == {m \in DOMAIN scopes : found(m, name) # {}}
           k == Max(decls)
           i == CHOOSE i \in found(k, name) : TRUE
<1> SUFFICES ASSUME resolved # None
             PROVE  IF decls = {} THEN resolved.sort = "outer"
                    ELSE IF prevTop(k) = prevTop(n)
                         THEN /\ resolved.idx = slot(k, i)
                              /\ resolved.sort = IF resolved.write /\ scopes[k].tbl[i].const THEN "const" ELSE "local"
                         ELSE /\ resolved.sort = "upvalue"
                              /\ Chase[n] = [onStack |-> TRUE, top |-> prevTop(k), idx |-> slot(k, i)]
  BY DEF InnermostWins
<1>1. n \in Nat /\ DOMAIN scopes = 1..n /\ n \in 1..n
  BY DomainOf DEF LaidOut, Resolution
<1>2. PICK ds : ds = decls
  OBVIOUS
<1>3. \A m \in ds : m \in 1..n /\ found(m, name) # {}
  BY <1>1, <1>2
<1>4. CASE IsLocal(name)
  <2>1. declaring(name, n) # {} /\ \A m \in ds : m <= n
    BY <1>1, <1>3, <1>4 DEF IsLocal
  <2>2. ds # {} /\ Max(ds) = Max(declaring(name, n)) /\ prevTop(Max(ds)) = prevTop(n)
    BY SMTT(30), <1>1, <1>2, <2>1, InnermostFrom
  <2> QED
    BY <1>2, <1>4, <2>2 DEF IsLocal, findLocalAt
<1>5. CASE IsUpvalue(name)
  <2>1. PICK c : c = Max(capturing(name))
    OBVIOUS
  <2>2. declaring(name, n) = {} /\ capturing(name) # {}
    BY <1>5 DEF IsUpvalue
  <2>3. c \in 1..n /\ c < n /\ scopes[c + 1].top /\ declaring(name, c) # {} /\ \A m \in ds : m <= c
    <3>1. n > 0
      BY <1>1
    <3> HIDE DEF n, name
    <3> QED
      BY <1>2, <2>1, <2>2, <3>1, CapturedInnermost DEF n
  <2>4. ds # {} /\ Max(ds) = Max(declaring(name, c)) /\ prevTop(Max(ds)) = prevTop(c)
    BY <1>2, <2>3, InnermostFrom
  <2>5. prevTop(c) # prevTop(n)
    <3>1. prevTop(c) <= c /\ prevTop(c) \in Nat
      BY <2>3, PrevTop
    <3>2. c + 1 \in 1..n
      BY <1>1, <2>3
    <3>3. c + 1 <= prevTop(n)
      BY <1>1, <2>3, <3>2, PrevTop
    <3> QED
      BY <1>1, <2>3, <3>1, <3>3
  <2>6. /\ resolved.sort = "upvalue" /\ Leading(c, findLocalAt(name, c))
        /\ resolved.idx = Len(scopes[prevTop(n)].upvalue) - 1
    BY <1>5, <2>1 DEF IsUpvalue
  <2>7. Chase[n] = There(c, findLocalAt(name, c))
    BY <2>3, <2>6, ChaseLeads
  <2>8. findLocalAt(name, c) = slot(Max(ds), CHOOSE j \in found(Max(ds), name) : TRUE)
    BY <2>4 DEF findLocalAt
  <2> QED
    BY <1>2, <2>4, <2>5, <2>6, <2>7, <2>8 DEF There
<1>6. CASE IsOuter(name)
  <2>1. ds = {}
    <3> SUFFICES ASSUME NEW m \in ds PROVE FALSE
      OBVIOUS
    <3>1. m \in declaring(name, n) \/ \E c \in capturing(name) : m <= c
      BY <1>3, Reached
    <3> QED
      BY <1>6, <3>1 DEF IsOuter
  <2> QED
    BY <1>2, <1>6, <2>1 DEF IsOuter
<1> QED
  BY <1>4, <1>5, <1>6 DEF Resolution

(* What a use adds to the tables on the way to a variable of scope k.       *)
LEMMA CollapseAdds ==
  ASSUME NEW st, LaidOut(st), NEW k \in 1..Len(st), k < Len(st), st[k + 1].top, NEW idx,
         NEW su, su = collapse(st, k, idx)
  PROVE  /\ DOMAIN su = 1..Len(st) /\ Len(su) = Len(st)
         /\ \A j \in 1..Len(st) : su[j].top = st[j].top /\ su[j].offset = st[j].offset /\ su[j].tbl = st[j].tbl
         /\ \A j \in k + 1..Len(st) : st[j].top =>
              /\ Len(st[j].upvalue) \in Nat
              /\ Len(su[j].upvalue) = Len(st[j].upvalue) + 1
              /\ j = k + 1 => su[j].upvalue[Len(st[j].upvalue) + 1] = [onStack |-> TRUE, index |-> idx]
              /\ j # k + 1 => su[j].upvalue[Len(st[j].upvalue) + 1]
                                = [onStack |-> FALSE, index |-> Len(st[topOf(st, j - 1)].upvalue)]
<1> DEFINE n == Len(st)
           tops == {j \in k + 1..n : st[j].top}
           entry(j) == IF j = Min(tops) THEN [onStack |-> TRUE, index |-> idx]
                       ELSE [onStack |-> FALSE, index |-> Len(st[Max({i \in tops : i < j})].upvalue)]
<1>1. n \in Nat /\ DOMAIN st = 1..n
  BY DomainOf DEF LaidOut
<1>2. su = [j \in 1..n |-> IF j \in tops THEN [st[j] EXCEPT !.upvalue = Append(@, entry(j))] ELSE st[j]]
  BY <1>1 DEF collapse
<1> HIDE DEF entry
<1>3. ASSUME NEW j \in 1..n
      PROVE  /\ su[j].top = st[j].top /\ su[j].offset = st[j].offset /\ su[j].tbl = st[j].tbl
             /\ Len(st[j].upvalue) \in Nat
             /\ j \in tops => su[j].upvalue = Append(st[j].upvalue, entry(j))
             /\ j \in tops => Len(su[j].upvalue) = Len(st[j].upvalue) + 1
                              /\ su[j].upvalue[Len(st[j].upvalue) + 1] = entry(j)
  <2>1. PICK E, T, U : st[j] \in [top : BOOLEAN, entry : E, offset : Nat, tbl : Seq(T),
                                  maxLocal : Nat, upvalue : Seq(U)]
    BY <1>1 DEF LaidOut, Shaped, ScopeOK
  <2> DEFINE ups == Append(st[j].upvalue, entry(j))
  <2>2. /\ Len(st[j].upvalue) \in Nat /\ Len(ups) = Len(st[j].upvalue) + 1
        /\ ups[Len(st[j].upvalue) + 1] = entry(j)
    <3>1. st[j].upvalue \in Seq(U \cup {entry(j)}) /\ entry(j) \in U \cup {entry(j)}
      BY <2>1
    <3> QED
      BY <3>1
  <2>3. su[j] = IF j \in tops THEN [st[j] EXCEPT !.upvalue = ups] ELSE st[j]
    BY <1>2
  <2> HIDE DEF ups, tops
  <2>4. /\ su[j].top = st[j].top /\ su[j].offset = st[j].offset /\ su[j].tbl = st[j].tbl
        /\ j \in tops => su[j].upvalue = ups
    BY <2>1, <2>3
  <2> QED
    BY <2>2, <2>4 DEF ups
<1>4. DOMAIN su = 1..n
  BY <1>2
<1>5. Len(su) = n
  <2> DEFINE after(j) == IF j \in tops THEN [st[j] EXCEPT !.upvalue = Append(@, entry(j))] ELSE st[j]
  <2>1. su = [j \in 1..n |-> after(j)]
    BY <1>2
  <2> HIDE DEF after
  <2> QED
    BY <1>1, <2>1
<1>6. k + 1 \in tops
  BY <1>1
<1>7. Min(tops) = k + 1
  <2>1. \A t \in tops : t \in Nat /\ k + 1 <= t
    BY <1>1
  <2>2. tops \subseteq Nat /\ tops # {}
    BY <1>6, <2>1
  <2> HIDE DEF tops
  <2>3. Min(tops) \in tops /\ Min(tops) <= k + 1
    BY <1>6, <2>2, LeastOne
  <2> QED
    BY <2>1, <2>3
<1>8. ASSUME NEW j \in k + 1..n, j # k + 1
      PROVE  Max({i \in tops : i < j}) = topOf(st, j - 1)
  <2> DEFINE A == {i \in tops : i < j}
             B == {i \in 1..j - 1 : st[i].top}
  <2>1. A \subseteq 0..n /\ k + 1 \in A /\ A \subseteq B /\ B \subseteq 0..n
    BY <1>1, <1>6, <1>8
  <2>2. \A b \in B : k + 1 <= b => b \in A
    BY <1>1, <1>8
  <2> HIDE DEF A, B
  <2>3. Max(A) \in A /\ k + 1 <= Max(A) /\ \A a \in A : a <= Max(A)
    BY <1>1, <2>1, GreatestOne
  <2>4. B # {}
    BY <2>1
  <2>5. Max(B) \in B /\ \A b \in B : b <= Max(B)
    BY <1>1, <2>1, <2>4, GreatestOne
  <2>6. Max(A) <= Max(B) /\ k + 1 <= Max(B)
    BY <2>1, <2>3, <2>5
  <2>7. Max(B) <= Max(A)
    BY <2>2, <2>3, <2>5, <2>6
  <2>8. Max(A) \in 0..n /\ Max(B) \in 0..n
    BY <2>1, <2>3, <2>5
  <2> QED
    BY <2>6, <2>7, <2>8 DEF A, B, topOf
<1>9. ASSUME NEW j \in k + 1..n, st[j].top
      PROVE  /\ j \in tops /\ j \in 1..n
             /\ j = k + 1 => entry(j) = [onStack |-> TRUE, index |-> idx]
             /\ j # k + 1 => entry(j) = [onStack |-> FALSE, index |-> Len(st[topOf(st, j - 1)].upvalue)]
  <2>1. j \in tops /\ j \in 1..n
    BY <1>1, <1>9
  <2> QED
    BY <1>7, <1>8, <2>1 DEF entry
<1> HIDE DEF tops
<1> QED
  BY <1>3, <1>4, <1>5, <1>9

LEMMA SameScopes ==
  ASSUME scopes' = scopes
  PROVE  \A name, k : /\ prevTop(k)' = prevTop(k)
                      /\ declaring(name, k)' = declaring(name, k)
                      /\ capturing(name)' = capturing(name)
                      /\ findLocalAt(name, k)' = findLocalAt(name, k)
                      /\ found(k, name)' = found(k, name)
                      /\ inside(k)' = inside(k)
<1>1. \A name, k, i : found(k, name)' = found(k, name) /\ slot(k, i)' = slot(k, i)
  BY DEF found, slot
<1>2. \A k : prevTop(k)' = prevTop(k) /\ inside(k)' = inside(k)
  BY DEF prevTop, inside
<1>3. \A name, k : declaring(name, k)' = declaring(name, k)
  BY <1>1, <1>2 DEF declaring
<1>4. around' = around
  BY DEF around
<1>5. \A name : capturing(name)' = capturing(name)
  BY <1>3, <1>4 DEF capturing
<1>6. \A name, k : findLocalAt(name, k)' = findLocalAt(name, k)
  <2> SUFFICES ASSUME NEW name, NEW k PROVE findLocalAt(name, k)' = findLocalAt(name, k)
    OBVIOUS
  <2>1. PICK j : j = Max(declaring(name, k))
    OBVIOUS
  <2> QED
    BY <1>1, <1>3, <2>1 DEF findLocalAt
<1> QED
  BY <1>1, <1>2, <1>3, <1>5, <1>6

(* A use establishes it.                                                    *)
LEMMA UseResolves ==
  ASSUME LaidOut(scopes), NEW name, NEW write, Use(name, write)
  PROVE  Resolution'
<1>0. PICK n : n = Len(scopes)
  OBVIOUS
<1>1. n \in Nat /\ DOMAIN scopes = 1..n /\ scopes # <<>> /\ resolveSymbol(name, write)
  BY <1>0, DomainOf DEF LaidOut, Use
<1>2. n > 0
  <2>1. PICK S : scopes \in Seq(S)
    BY DEF LaidOut, Shaped
  <2> QED
    BY <1>0, <1>1, <2>1
<1>3. CASE declaring(name, n) # {}
  <2>1. /\ scopes' = scopes
        /\ resolved' = [name |-> name, write |-> write,
                        sort |-> IF write /\ scopes[Max(declaring(name, n))].tbl[CHOOSE i \in found(Max(declaring(name, n)), name) : TRUE].const
                                 THEN "const" ELSE "local",
                        idx |-> findLocalAt(name, n)]
    BY <1>0, <1>1, <1>3 DEF resolveSymbol
  <2>2. PICK j : j = Max(declaring(name, n))
    OBVIOUS
  <2>3. IsLocal(name)'
    <3>1. declaring(name, n)' = declaring(name, n) /\ findLocalAt(name, n)' = findLocalAt(name, n)
          /\ found(j, name)' = found(j, name)
      BY <2>1, SameScopes
    <3> QED
      BY <1>0, <1>3, <2>1, <2>2, <3>1 DEF IsLocal
  <2> QED
    BY <1>0, <1>2, <2>1, <2>3 DEF Resolution
<1>4. CASE declaring(name, n) = {} /\ capturing(name) = {}
  <2>1. scopes' = scopes /\ resolved' = [name |-> name, write |-> write, sort |-> "outer", idx |-> 0]
    BY <1>0, <1>1, <1>4 DEF resolveSymbol
  <2>2. IsOuter(name)'
    <3>1. declaring(name, n)' = declaring(name, n) /\ capturing(name)' = capturing(name)
      BY <2>1, SameScopes
    <3> QED
      BY <1>0, <1>4, <2>1, <3>1 DEF IsOuter
  <2> QED
    BY <1>0, <1>2, <2>1, <2>2 DEF Resolution
<1>5. CASE declaring(name, n) = {} /\ capturing(name) # {}
  <2>1. PICK k : k = Max(capturing(name))
    OBVIOUS
  <2>2. PICK f : f = findLocalAt(name, k)
    OBVIOUS
  <2>3. /\ scopes' = collapse(scopes, k, f)
        /\ resolved' = [name |-> name, write |-> write, sort |-> "upvalue",
                        idx |-> Len(scopes[prevTop(n)].upvalue)]
    BY <1>0, <1>1, <1>5, <2>1, <2>2 DEF resolveSymbol
  <2>4. k \in capturing(name) /\ k \in 1..n /\ k < n /\ scopes[k + 1].top /\ declaring(name, k) # {}
    BY <1>0, <1>2, <1>5, <2>1, CapturedInnermost
  <2>5. /\ DOMAIN scopes' = 1..n /\ Len(scopes') = n
        /\ \A j \in 1..n : /\ scopes'[j].top = scopes[j].top /\ scopes'[j].offset = scopes[j].offset
                           /\ scopes'[j].tbl = scopes[j].tbl
        /\ \A j \in k + 1..n : scopes[j].top =>
             /\ Len(scopes[j].upvalue) \in Nat
             /\ Len(scopes'[j].upvalue) = Len(scopes[j].upvalue) + 1
             /\ j = k + 1 => scopes'[j].upvalue[Len(scopes[j].upvalue) + 1] = [onStack |-> TRUE, index |-> f]
             /\ j # k + 1 => scopes'[j].upvalue[Len(scopes[j].upvalue) + 1]
                               = [onStack |-> FALSE, index |-> Len(scopes[topOf(scopes, j - 1)].upvalue)]
    BY SMTT(30), <1>0, <2>3, <2>4, CollapseAdds
  <2>6. ASSUME NEW j \in 1..n PROVE prevTop(j)' = prevTop(j) /\ prevTop(j) = topOf(scopes, j)
    <3>1. \A i \in 1..j : scopes'[i].top = scopes[i].top
      BY <1>1, <2>5
    <3>2. topOf(scopes', j) = topOf(scopes, j)
      BY <3>1, SameTops
    <3> QED
      BY <3>2 DEF prevTop, topOf
  <2>7. \A j \in 1..n : found(j, name)' = found(j, name)
    BY <2>5 DEF found
  <2>8. ASSUME NEW j \in 1..n PROVE declaring(name, j)' = declaring(name, j) /\ declaring(name, j) \subseteq 1..n
    <3>1. prevTop(j) \in 1..j
      BY <1>0, PrevTop
    <3>2. \A i \in prevTop(j)..j : i \in 1..n
      BY <1>1, <3>1
    <3> QED
      BY <2>6, <2>7, <3>2 DEF declaring
  <2>9. capturing(name)' = capturing(name)
    <3>1. \A j \in 1..n : j < n => j + 1 \in 1..n
      BY <1>1
    <3>2. around' = around /\ around \subseteq 1..n
      BY <1>0, <1>1, <2>5, <3>1 DEF around
    <3> QED
      BY <2>8, <3>2 DEF capturing
  <2>10. findLocalAt(name, k)' = f
    <3>1. Max(declaring(name, k)) \in 1..n
      <4>1. declaring(name, k) \subseteq 0..n
        BY <2>4, <2>8
      <4>2. Max(declaring(name, k)) \in declaring(name, k)
        BY <1>1, <2>4, <4>1, GreatestOne
      <4> QED
        BY <2>4, <2>8, <4>2
    <3>2. PICK j \in 1..n : j = Max(declaring(name, k))
      BY <3>1
    <3>3. found(j, name)' = found(j, name) /\ \A i : slot(j, i)' = slot(j, i)
      BY <2>5, <2>7 DEF slot
    <3>4. declaring(name, k)' = declaring(name, k)
      BY <2>4, <2>8
    <3> QED
      BY <2>2, <3>2, <3>3, <3>4 DEF findLocalAt
  <2>11. Leading(k, f)'
    <3> SUFFICES ASSUME NEW j \in k + 1..n, scopes[j].top
                 PROVE  /\ Len(scopes'[j].upvalue) > 0
                        /\ j = k + 1 => scopes'[j].upvalue[Len(scopes'[j].upvalue)] = [onStack |-> TRUE, index |-> f]
                        /\ j # k + 1 => scopes'[j].upvalue[Len(scopes'[j].upvalue)]
                                          = [onStack |-> FALSE, index |-> Len(scopes'[prevTop(j - 1)'].upvalue) - 1]
      <4>1. \A j \in inside(k)' : j \in k + 1..n /\ scopes[j].top
        BY <1>0, <2>4, <2>5 DEF inside
      <4> QED
        BY <4>1 DEF Leading
    <3>1. Len(scopes'[j].upvalue) = Len(scopes[j].upvalue) + 1 /\ Len(scopes[j].upvalue) \in Nat
      BY <2>5
    <3>2. ASSUME j # k + 1
          PROVE  Len(scopes[topOf(scopes, j - 1)].upvalue) = Len(scopes'[prevTop(j - 1)'].upvalue) - 1
      <4>1. j - 1 \in 1..n /\ k + 1 \in 1..j - 1
        BY <1>1, <2>4, <3>2
      <4>2. prevTop(j - 1) \in 1..j - 1 /\ scopes[prevTop(j - 1)].top /\ k + 1 <= prevTop(j - 1)
        BY <1>0, <2>4, <4>1, PrevTop
      <4>3. prevTop(j - 1) \in k + 1..n
        BY <1>1, <2>4, <4>1, <4>2
      <4>4. prevTop(j - 1)' = prevTop(j - 1) /\ prevTop(j - 1) = topOf(scopes, j - 1)
        BY <2>6, <4>1
      <4>5. PICK i : i = prevTop(j - 1)
        OBVIOUS
      <4>6. Len(scopes'[i].upvalue) = Len(scopes[i].upvalue) + 1 /\ Len(scopes[i].upvalue) \in Nat
        BY <2>5, <4>2, <4>3, <4>5
      <4>7. Len(scopes'[i].upvalue) - 1 = Len(scopes[i].upvalue)
        BY <4>6
      <4> QED
        BY <4>4, <4>5, <4>7
    <3>3. /\ j = k + 1 => scopes'[j].upvalue[Len(scopes[j].upvalue) + 1] = [onStack |-> TRUE, index |-> f]
          /\ j # k + 1 => scopes'[j].upvalue[Len(scopes[j].upvalue) + 1]
                            = [onStack |-> FALSE, index |-> Len(scopes[topOf(scopes, j - 1)].upvalue)]
      BY <2>5
    <3>4. PICK last : last = scopes'[j].upvalue[Len(scopes[j].upvalue) + 1]
      OBVIOUS
    <3>5. last = scopes'[j].upvalue[Len(scopes'[j].upvalue)] /\ Len(scopes'[j].upvalue) > 0
      BY <3>1, <3>4
    <3>6. j # k + 1 => last = [onStack |-> FALSE, index |-> Len(scopes'[prevTop(j - 1)'].upvalue) - 1]
      BY <3>2, <3>3, <3>4, Zenon
    <3> QED
      BY <3>3, <3>4, <3>5, <3>6
  <2>12. resolved'.idx = Len(scopes'[prevTop(n)'].upvalue) - 1
    <3>1. n \in 1..n /\ k + 1 \in 1..n
      BY <1>1, <1>2, <2>4
    <3>2. prevTop(n) \in 1..n /\ scopes[prevTop(n)].top /\ k + 1 <= prevTop(n)
      BY <1>0, <2>4, <3>1, PrevTop
    <3>3. prevTop(n) \in k + 1..n
      BY <1>1, <2>4, <3>2
    <3>4. prevTop(n)' = prevTop(n)
      BY <2>6, <3>1
    <3>5. PICK i : i = prevTop(n)
      OBVIOUS
    <3>6. Len(scopes'[i].upvalue) = Len(scopes[i].upvalue) + 1 /\ Len(scopes[i].upvalue) \in Nat
      BY <2>5, <3>2, <3>3, <3>5
    <3>7. Len(scopes'[i].upvalue) - 1 = Len(scopes[i].upvalue)
      BY <3>6
    <3> QED
      BY <2>3, <3>4, <3>5, <3>7
  <2>13. IsUpvalue(name)'
    <3>1. declaring(name, n)' = {} /\ capturing(name)' # {} /\ Max(capturing(name))' = k
      BY <1>1, <1>2, <1>5, <2>1, <2>8, <2>9
    <3> QED
      BY <1>0, <2>3, <2>5, <2>10, <2>11, <2>12, <3>1 DEF IsUpvalue
  <2> QED
    BY <1>0, <1>2, <2>3, <2>5, <2>13 DEF Resolution
<1> QED
  BY <1>3, <1>4, <1>5

LEMMA StepResolves ==
  ASSUME LaidOut(scopes), Resolution, [ScopeNext]_scopeVars
  PROVE  Resolution'
<1>1. ASSUME NEW entry, NEW args, EnterTop(entry, args) PROVE resolved' = None
  BY <1>1 DEF EnterTop
<1>2. ASSUME EnterScope \/ leaveScope PROVE resolved' = None
  BY <1>2 DEF EnterScope, leaveScope
<1>3. ASSUME NEW name, NEW const, defLocal(name, const) PROVE resolved' = None
  BY <1>3 DEF defLocal
<1>4. resolved' = None => Resolution'
  BY DEF Resolution
<1>5. ASSUME UNCHANGED scopeVars PROVE Resolution'
  <2>1. scopes' = scopes /\ resolved' = resolved
    BY <1>5 DEF scopeVars
  <2>2. PICK n : n = Len(scopes)
    OBVIOUS
  <2>3. PICK name : name = resolved.name
    OBVIOUS
  <2>4. IsLocal(name) => IsLocal(name)'
    <3>1. PICK j : j = Max(declaring(name, n))
      OBVIOUS
    <3>2. declaring(name, n)' = declaring(name, n) /\ findLocalAt(name, n)' = findLocalAt(name, n)
          /\ found(j, name)' = found(j, name)
      BY <2>1, SameScopes
    <3> QED
      BY <2>1, <2>2, <3>1, <3>2 DEF IsLocal
  <2>5. IsUpvalue(name) => IsUpvalue(name)'
    <3>1. PICK k : k = Max(capturing(name))
      OBVIOUS
    <3>2. PICK idx : idx = findLocalAt(name, k)
      OBVIOUS
    <3>3. declaring(name, n)' = declaring(name, n) /\ findLocalAt(name, k)' = idx
          /\ capturing(name)' = capturing(name) /\ prevTop(n)' = prevTop(n)
      BY <2>1, <3>2, SameScopes
    <3>4. inside(k)' = inside(k) /\ \A j : prevTop(j - 1)' = prevTop(j - 1)
      BY <2>1, SameScopes
    <3>5. Leading(k, idx) => Leading(k, idx)'
      BY <2>1, <3>4 DEF Leading
    <3> QED
      BY <2>1, <2>2, <3>1, <3>2, <3>3, <3>5 DEF IsUpvalue
  <2>6. IsOuter(name) => IsOuter(name)'
    <3>1. declaring(name, n)' = declaring(name, n) /\ capturing(name)' = capturing(name)
      BY <2>1, SameScopes
    <3> QED
      BY <2>1, <2>2, <3>1 DEF IsOuter
  <2> QED
    BY <2>1, <2>3, <2>4, <2>5, <2>6 DEF Resolution
<1> QED
  BY <1>1, <1>2, <1>3, <1>4, <1>5, UseResolves DEF ScopeNext

(* A name means its innermost declaration, however many functions and scopes *)
(* lie in between: resolveSymbol finds its slot, or an upvalue from which the *)
(* entries of the functions in between lead to that slot (pl/parser.go:462,   *)
(* 540).                                                                      *)
THEOREM NamesMeanTheInnermost == ScopeSpec => []InnermostWins
<1>1. ScopeInit => LaidOut(scopes) /\ Resolution
  BY EmptyLaidOut DEF ScopeInit, Resolution
<1>2. LaidOut(scopes) /\ Resolution /\ [ScopeNext]_scopeVars => LaidOut(scopes)' /\ Resolution'
  BY StepLaysOut, StepResolves
<1>3. LaidOut(scopes) /\ Resolution => InnermostWins
  BY ResolvedToInnermost
<1> QED
  BY <1>1, <1>2, <1>3, PTL DEF ScopeSpec

(***************************************************************************)
(* PART 2: MODULES, for every program of the shape that the grammar gives  *)
(* it, with any number of files.                                           *)
(***************************************************************************)

Path == DOMAIN program
OpenFile == [path : Path, pos : Nat \ {0}, fIndex : Nat, vIndex : [Sorts -> Nat]]
FnEntry == [name : Seq(STRING), in : Path, of : STRING]
VarEntry == [name : Seq(STRING), in : Path]

TypeOK ==
  /\ program \in Programs
  /\ open \in Seq(OpenFile) /\ open # <<>>
  /\ imported \in Seq(Path \ {Main})
  /\ fn \in Seq(FnEntry)
  /\ vars \in [Sorts -> Seq(VarEntry)]

(* The files being parsed are the entry and different imported ones, and no  *)
(* two imported files have one module name.                                  *)
Files ==
  /\ open[1].path = Main
  /\ \A i \in DOMAIN open : i > 1 => \E k \in DOMAIN imported : imported[k] = open[i].path
  /\ \A i, j \in DOMAIN open : i # j => open[i].path # open[j].path
  /\ \A k, l \in DOMAIN imported :
       k # l => program[imported[k]].name # program[imported[l]].name

(* A function has a plain name while its file is the innermost one; any      *)
(* other name begins with that of a module whose file was closed.            *)
PlainName(i) ==
  /\ i > File.fIndex
  /\ \E j \in 1..File.pos - 1 : Steps[j].k = "fn" /\ fn[i].name = <<Steps[j].name>>
ClosedName(i) ==
  \E k \in DOMAIN imported :
    /\ fn[i].name[1] = program[imported[k]].name
    /\ \A m \in DOMAIN open : open[m].path # imported[k]
FullNames ==
  \A i \in DOMAIN fn :
    /\ Len(fn[i].name) = 1 => PlainName(i)
    /\ Len(fn[i].name) # 1 => fn[i].name # <<>> /\ ClosedName(i)

NamesApart == \A i, j \in DOMAIN fn : fn[i].name = fn[j].name => i = j

(* Rules are the entry's, from the steps it has taken.                       *)
RulesOfEntry ==
  \A n \in events : \E j \in 1..open[1].pos - 1 :
    LET s == program[Main].steps[j] IN s.k = "rule" /\ s.name = n

(* What a file adds comes after what was there when it was opened.           *)
FileStarts == \A i \in DOMAIN open : open[i].fIndex <= Len(fn)

Tables == TypeOK /\ Files /\ FileStarts /\ FullNames /\ NamesApart /\ RulesOfEntry

----------------------------------------------------------------------------
(* The file being parsed.                                                    *)

LEMMA FileTyped ==
  ASSUME TypeOK
  PROVE  /\ Len(open) \in Nat \ {0} /\ DOMAIN open = 1..Len(open) /\ Len(open) \in DOMAIN open
         /\ File \in OpenFile /\ File.path \in Path
         /\ program[File.path].name \in STRING
         /\ Len(Steps) \in Nat /\ DOMAIN Steps = 1..Len(Steps)
<1>1. Len(open) \in Nat \ {0} /\ DOMAIN open = 1..Len(open)
  BY DEF TypeOK
<1>2. File \in OpenFile /\ Len(open) \in DOMAIN open
  BY <1>1 DEF TypeOK, File
<1>3. File.path \in Path
  BY <1>2 DEF OpenFile
<1>4. WellFormed(program)
  BY ProgramsAssumption DEF ProgramsAssumption, TypeOK
<1>5. /\ program[File.path].name \in STRING
      /\ Len(Steps) \in Nat /\ DOMAIN Steps = 1..Len(Steps)
  BY <1>3, <1>4 DEF WellFormed, Steps, Path
<1> QED  BY <1>1, <1>2, <1>3, <1>5

LEMMA StepTyped ==
  ASSUME TypeOK, NEW k, AtStep(k)
  PROVE  /\ File.pos \in DOMAIN Steps /\ Steps[File.pos].k = k /\ Step = Steps[File.pos]
         /\ k = "import" => /\ Step.to \in Path \ {Main}
                            /\ \A j \in 1..File.pos - 1 : Steps[j].k = "import"
         /\ k = "section" => Step.sort \in Sorts /\ Step.names \in Seq(STRING)
         /\ k = "fn" => Step.name \in STRING
         /\ k = "rule" => File.path = Main
<1>1. /\ File \in OpenFile /\ File.path \in Path
      /\ Len(Steps) \in Nat /\ DOMAIN Steps = 1..Len(Steps)
  BY FileTyped
<1>2. File.pos \in DOMAIN Steps /\ Steps[File.pos].k = k /\ Step = Steps[File.pos]
  BY <1>1 DEF AtStep, Step, OpenFile
<1>3. WellFormed(program)
  BY ProgramsAssumption DEF ProgramsAssumption, TypeOK
<1>4. LET i == File.pos
      IN CASE Steps[i].k = "import" ->
                Steps[i].to \in Path \ {Main} /\ \A j \in 1..i - 1 : Steps[j].k = "import"
           [] Steps[i].k = "section" -> Steps[i].sort \in Sorts /\ Steps[i].names \in Seq(STRING)
           [] Steps[i].k = "fn" -> Steps[i].name \in STRING
           [] Steps[i].k = "rule" -> File.path = Main
           [] OTHER -> FALSE
  BY <1>1, <1>2, <1>3 DEF WellFormed, Steps, Path
<1> QED  BY <1>2, <1>4

(* The file is one step further, and nothing else about it changes.          *)
LEMMA AdvancedTyped ==
  ASSUME TypeOK
  PROVE  /\ Advanced \in Seq(OpenFile) /\ Len(Advanced) = Len(open) /\ Advanced # <<>>
         /\ DOMAIN Advanced = DOMAIN open
         /\ \A i \in DOMAIN open :
              /\ Advanced[i].path = open[i].path /\ Advanced[i].fIndex = open[i].fIndex
              /\ Advanced[i].pos \in Nat /\ open[i].pos \in Nat
              /\ open[i].pos <= Advanced[i].pos
         /\ Advanced[Len(open)].pos = File.pos + 1
<1>1. Len(open) \in Nat \ {0} /\ DOMAIN open = 1..Len(open) /\ File \in OpenFile
      /\ Len(open) \in DOMAIN open /\ open \in Seq(OpenFile)
  BY FileTyped DEF TypeOK
<1> DEFINE f == [File EXCEPT !.pos = File.pos + 1]
<1>2. Advanced = [open EXCEPT ![Len(open)] = f]
  BY DEF Advanced, File
<1>3. f \in OpenFile /\ f.path = File.path /\ f.fIndex = File.fIndex
      /\ f.pos = File.pos + 1 /\ File.pos \in Nat
  <2>1. File \in OpenFile
    BY <1>1
  <2>2. File.pos \in Nat \ {0} /\ File.pos + 1 \in Nat \ {0}
    BY <2>1 DEF OpenFile
  <2> QED  BY <2>1, <2>2 DEF OpenFile
<1> HIDE DEF f
<1>4. Advanced \in Seq(OpenFile) /\ Len(Advanced) = Len(open) /\ DOMAIN Advanced = DOMAIN open
  BY <1>1, <1>2, <1>3
<1>5. \A i \in DOMAIN open : Advanced[i] = IF i = Len(open) THEN f ELSE open[i]
  BY <1>1, <1>2
<1>6. \A i \in DOMAIN open : open[i].pos \in Nat
  <2>1. \A i \in DOMAIN open : open[i] \in OpenFile
    BY <1>1
  <2> QED  BY <2>1 DEF OpenFile
<1>7. ASSUME NEW i \in DOMAIN open
      PROVE  /\ Advanced[i].path = open[i].path /\ Advanced[i].fIndex = open[i].fIndex
             /\ Advanced[i].pos \in Nat /\ open[i].pos \in Nat
             /\ open[i].pos <= Advanced[i].pos
  <2>1. CASE i = Len(open)
    BY <1>3, <1>5, <2>1 DEF File
  <2>2. CASE i # Len(open)
    BY <1>5, <1>6, <2>2
  <2> QED  BY <2>1, <2>2
<1>8. Advanced[Len(open)].pos = File.pos + 1
  BY <1>1, <1>3, <1>5
<1> QED  BY <1>1, <1>4, <1>7, <1>8

LEMMA AdvanceKeeps ==
  ASSUME Tables, open' = Advanced, UNCHANGED <<program, imported>>
  PROVE  /\ Files'
         /\ \A i \in DOMAIN open' : open'[i].fIndex <= Len(fn)
         /\ \A i \in DOMAIN fn : fn'[i] = fn[i] =>
              /\ PlainName(i) => PlainName(i)'
              /\ ClosedName(i) => ClosedName(i)'
         /\ UNCHANGED events => RulesOfEntry'
<1>1. /\ Len(open) \in Nat \ {0} /\ DOMAIN open = 1..Len(open) /\ Len(open) \in DOMAIN open
  BY FileTyped DEF Tables
<1>2. /\ Len(open') = Len(open) /\ DOMAIN open' = DOMAIN open
      /\ \A i \in DOMAIN open :
           /\ open'[i].path = open[i].path /\ open'[i].fIndex = open[i].fIndex
           /\ open'[i].pos \in Nat /\ open[i].pos \in Nat
           /\ open[i].pos <= open'[i].pos
  BY AdvancedTyped DEF Tables
<1>3. Files'
  BY <1>1, <1>2 DEF Tables, Files
<1>4. /\ File'.path = File.path /\ File'.fIndex = File.fIndex /\ Steps' = Steps
      /\ File.pos \in Nat /\ File'.pos \in Nat /\ File.pos <= File'.pos
  BY <1>1, <1>2 DEF File, Steps
<1>5. ASSUME NEW i \in DOMAIN fn, fn'[i] = fn[i], PlainName(i) PROVE PlainName(i)'
  <2>1. 1..File.pos - 1 \subseteq 1..File'.pos - 1
    BY <1>4
  <2> QED  BY <1>4, <1>5, <2>1 DEF PlainName
<1>6. ASSUME NEW i \in DOMAIN fn, fn'[i] = fn[i], ClosedName(i) PROVE ClosedName(i)'
  BY <1>2, <1>6 DEF ClosedName
<1>7. ASSUME UNCHANGED events PROVE RulesOfEntry'
  <2>1. 1..open[1].pos - 1 \subseteq 1..open'[1].pos - 1
    BY <1>1, <1>2
  <2> QED  BY <1>7, <2>1 DEF Tables, RulesOfEntry
<1>8. \A i \in DOMAIN open' : open'[i].fIndex <= Len(fn)
  BY <1>2 DEF Tables, FileStarts
<1> QED  BY <1>3, <1>5, <1>6, <1>7, <1>8

LEMMA AdvanceNames ==
  ASSUME Tables, open' = Advanced, UNCHANGED <<program, imported, fn>>
  PROVE  FileStarts' /\ FullNames' /\ NamesApart'
BY AdvanceKeeps DEF Tables, FileStarts, FullNames, NamesApart

LEMMA AppendFacts ==
  ASSUME NEW S, NEW t \in Seq(S), NEW e \in S
  PROVE  /\ Append(t, e) \in Seq(S) /\ Append(t, e) # <<>>
         /\ Len(t) \in Nat /\ Len(Append(t, e)) = Len(t) + 1
         /\ DOMAIN t = 1..Len(t) /\ DOMAIN Append(t, e) = DOMAIN t \cup {Len(t) + 1}
         /\ Len(t) + 1 \notin DOMAIN t
         /\ \A i \in DOMAIN t : Append(t, e)[i] = t[i]
         /\ Append(t, e)[Len(t) + 1] = e
OBVIOUS

(* A new import opens a file: the functions of the importing one, which has  *)
(* taken only imports so far, all have the names of closed files.            *)
LEMMA ImportOpens ==
  ASSUME Tables, NEW path \in Path \ {Main}, AtStep("import"),
         \A j \in 1..File.pos - 1 : Steps[j].k = "import",
         ~importLoop(path), ~isImported(path), ~modPrefixExist(path),
         imported' = Append(imported, path), open' = Append(Advanced, Opened(path)),
         UNCHANGED <<program, fn, events, vars>>
  PROVE  Tables'
<1> USE DEF Tables
<1>1. /\ Advanced \in Seq(OpenFile) /\ Len(Advanced) = Len(open) /\ DOMAIN Advanced = DOMAIN open
      /\ Len(open) \in Nat \ {0} /\ DOMAIN open = 1..Len(open)
      /\ \A i \in DOMAIN open :
           /\ Advanced[i].path = open[i].path /\ Advanced[i].fIndex = open[i].fIndex
           /\ Advanced[i].pos \in Nat /\ open[i].pos \in Nat /\ open[i].pos <= Advanced[i].pos
  BY AdvancedTyped, FileTyped
<1>2. Opened(path) \in OpenFile /\ Opened(path).path = path
  <2>1. Len(fn) \in Nat /\ \A s \in Sorts : Len(vars[s]) \in Nat
    BY DEF TypeOK
  <2>2. [s \in Sorts |-> Len(vars[s])] \in [Sorts -> Nat]
    BY <2>1
  <2> QED  BY <2>1, <2>2 DEF Opened, OpenFile
<1> DEFINE n == Len(open) + 1
<1>3. /\ open' \in Seq(OpenFile) /\ open' # <<>> /\ Len(open') = n
      /\ DOMAIN open' = DOMAIN open \cup {n} /\ n \notin DOMAIN open
      /\ \A i \in DOMAIN open : open'[i] = Advanced[i]
      /\ open'[n] = Opened(path)
  BY <1>1, <1>2, AppendFacts
<1>4. /\ imported' \in Seq(Path \ {Main}) /\ Len(imported) \in Nat
      /\ DOMAIN imported' = DOMAIN imported \cup {Len(imported) + 1}
      /\ \A k \in DOMAIN imported : imported'[k] = imported[k]
      /\ imported'[Len(imported) + 1] = path
  BY AppendFacts DEF TypeOK
<1> HIDE DEF n
<1>5. TypeOK'
  <2>1. OpenFile' = OpenFile /\ Path' = Path /\ FnEntry' = FnEntry /\ VarEntry' = VarEntry
    BY DEF OpenFile, Path, FnEntry, VarEntry
  <2> QED  BY <1>3, <1>4, <2>1 DEF TypeOK
<1>6. Files'
  <2>1. \A i \in DOMAIN open : open'[i].path = open[i].path /\ open[i].path # path
    <3>1. open[1].path # path
      BY DEF Files
    <3>2. \A i \in 2..Len(open) : open[i].path # path
      BY DEF importLoop
    <3> QED  BY <1>1, <1>3, <3>1, <3>2
  <2>2. open'[n].path = path
    BY <1>2, <1>3
  <2>3. open'[1].path = Main
    BY <1>1, <2>1 DEF Files
  <2>4. \A i \in DOMAIN open' : i > 1 => \E k \in DOMAIN imported' : imported'[k] = open'[i].path
    <3>1. \A i \in DOMAIN open : i > 1 => \E k \in DOMAIN imported : imported[k] = open'[i].path
      BY <2>1 DEF Files
    <3>2. imported'[Len(imported) + 1] = open'[n].path /\ Len(imported) + 1 \in DOMAIN imported'
      BY <1>4, <2>2
    <3>3. ASSUME NEW i \in DOMAIN open, i > 1
          PROVE  \E k \in DOMAIN imported' : imported'[k] = open'[i].path
      <4>1. PICK k \in DOMAIN imported : imported[k] = open'[i].path
        BY <3>1, <3>3
      <4> QED  BY <1>4, <4>1
    <3> QED  BY <1>3, <3>2, <3>3
  <2>5. \A i, j \in DOMAIN open' : i # j => open'[i].path # open'[j].path
    BY <1>3, <2>1, <2>2 DEF Files
  <2>6. \A k, l \in DOMAIN imported' :
          k # l => program[imported'[k]].name # program[imported'[l]].name
    <3>1. \A k \in DOMAIN imported : program[imported[k]].name # program[path].name
      BY DEF modPrefixExist, ModName
    <3> QED  BY <1>4, <3>1 DEF Files
  <2> QED  BY <2>3, <2>4, <2>5, <2>6 DEF Files
<1>10. FileStarts'
  <2>1. Opened(path).fIndex = Len(fn) /\ Len(fn) \in Nat
    BY DEF Opened, TypeOK
  <2>2. \A i \in DOMAIN open : open'[i].fIndex <= Len(fn)
    BY <1>1, <1>3 DEF FileStarts
  <2>3. open'[n].fIndex <= Len(fn)
    BY <1>3, <2>1
  <2> QED  BY <1>3, <2>2, <2>3 DEF FileStarts
<1>7. FullNames'
  <2>1. ASSUME NEW i \in DOMAIN fn
        PROVE  Len(fn[i].name) # 1 /\ fn[i].name # <<>> /\ ClosedName(i)'
    <3>1. Len(fn[i].name) # 1
      BY DEF FullNames, PlainName
    <3>2. PICK k \in DOMAIN imported :
            /\ fn[i].name[1] = program[imported[k]].name
            /\ \A m \in DOMAIN open : open[m].path # imported[k]
      BY <3>1 DEF FullNames, ClosedName
    <3>3. imported[k] # path
      BY DEF isImported
    <3>4. \A m \in DOMAIN open' : open'[m].path # imported[k]
      BY SMTT(30), <1>1, <1>2, <1>3, <3>2, <3>3
    <3> QED  BY SMTT(30), <1>4, <3>1, <3>2, <3>4 DEF FullNames, ClosedName
  <2> QED  BY <2>1 DEF FullNames
<1>8. NamesApart'
  BY DEF NamesApart
<1>9. RulesOfEntry'
  <2>1. open'[1].pos \in Nat /\ open[1].pos \in Nat /\ open[1].pos <= open'[1].pos
    BY <1>1, <1>3
  <2>2. 1..open[1].pos - 1 \subseteq 1..open'[1].pos - 1
    BY <2>1
  <2> QED  BY <2>2 DEF RulesOfEntry
<1> QED  BY <1>5, <1>6, <1>7, <1>8, <1>9, <1>10

LEMMA SectionStep ==
  ASSUME Tables, Section
  PROVE  Tables'
<1> USE DEF Tables
<1>1. /\ Step.sort \in Sorts /\ Step.names \in Seq(STRING) /\ File.path \in Path
      /\ open' = Advanced /\ UNCHANGED <<program, imported, fn, events>>
  BY StepTyped, FileTyped DEF Section
<1>2. TypeOK'
  <2>1. OpenFile' = OpenFile /\ Path' = Path /\ FnEntry' = FnEntry /\ VarEntry' = VarEntry
    BY <1>1 DEF OpenFile, Path, FnEntry, VarEntry
  <2>2. open' \in Seq(OpenFile) /\ open' # <<>>
    BY <1>1, AdvancedTyped
  <2> DEFINE added == [i \in DOMAIN Step.names |-> [name |-> <<Step.names[i]>>, in |-> File.path]]
  <2>3. added \in Seq(VarEntry)
    <3>1. \A i \in DOMAIN Step.names : <<Step.names[i]>> \in Seq(STRING)
      BY <1>1
    <3>2. \A i \in DOMAIN Step.names :
            [name |-> <<Step.names[i]>>, in |-> File.path] \in VarEntry
      BY <1>1, <3>1 DEF VarEntry
    <3>3. DOMAIN Step.names = 1..Len(Step.names) /\ Len(Step.names) \in Nat
      BY <1>1
    <3> HIDE DEF VarEntry
    <3> QED  BY <3>2, <3>3
  <2>4. vars' = [vars EXCEPT ![Step.sort] = @ \o added]
    BY DEF Section
  <2> HIDE DEF added
  <2>5. vars[Step.sort] \o added \in Seq(VarEntry)
    BY <1>1, <2>3 DEF TypeOK
  <2>6. vars' \in [Sorts -> Seq(VarEntry)]
    BY <1>1, <2>4, <2>5 DEF TypeOK
  <2> QED  BY <1>1, <2>1, <2>2, <2>6 DEF TypeOK
<1> QED  BY <1>1, <1>2, AdvanceKeeps, AdvanceNames

LEMMA FunctionStep ==
  ASSUME Tables, Function, ~Refuse
  PROVE  Tables'
<1> USE DEF Tables
<1> DEFINE e == [name |-> <<Step.name>>, in |-> File.path, of |-> Step.name]
<1>1. /\ Step.name \in STRING /\ File.path \in Path /\ File.pos \in DOMAIN Steps
      /\ Step = Steps[File.pos] /\ Steps[File.pos].k = "fn"
  BY StepTyped, FileTyped DEF Function
<1>2. /\ fn' = Append(fn, e) /\ open' = Advanced /\ named(<<Step.name>>, fn) = {}
      /\ UNCHANGED <<program, imported, events, vars>>
  BY DEF Function
<1>3. e \in FnEntry /\ e.name = <<Step.name>>
  <2>1. <<Step.name>> \in Seq(STRING)
    BY <1>1
  <2> QED  BY <1>1, <2>1 DEF FnEntry
<1> HIDE DEF e
<1> DEFINE n == Len(fn) + 1
<1>4. /\ fn' \in Seq(FnEntry) /\ Len(fn) \in Nat /\ Len(fn') = n
      /\ DOMAIN fn' = DOMAIN fn \cup {n} /\ n \notin DOMAIN fn
      /\ \A i \in DOMAIN fn : fn'[i] = fn[i]
      /\ fn'[n] = e
  BY <1>2, <1>3, AppendFacts DEF TypeOK
<1>5. TypeOK'
  <2>1. OpenFile' = OpenFile /\ Path' = Path /\ FnEntry' = FnEntry /\ VarEntry' = VarEntry
    BY <1>2 DEF OpenFile, Path, FnEntry, VarEntry
  <2>2. open' \in Seq(OpenFile) /\ open' # <<>>
    BY <1>2, AdvancedTyped
  <2> QED  BY <1>2, <1>4, <2>1, <2>2 DEF TypeOK
<1>6. /\ Len(open) \in DOMAIN open /\ File \in OpenFile /\ File.fIndex <= Len(fn)
      /\ Len(open') = Len(open) /\ DOMAIN open' = DOMAIN open
      /\ \A i \in DOMAIN open : open'[i].fIndex = open[i].fIndex
      /\ open'[Len(open)].path = File.path /\ open'[Len(open)].pos = File.pos + 1
      /\ File.pos \in Nat \ {0} /\ File.fIndex \in Nat
  <2>1. File \in OpenFile /\ Len(open) \in DOMAIN open
    BY FileTyped
  <2>2. File.pos \in Nat \ {0} /\ File.fIndex \in Nat
    BY <2>1 DEF OpenFile
  <2>3. File.fIndex <= Len(fn)
    BY <2>1 DEF FileStarts, File
  <2> QED  BY <1>2, <2>1, <2>2, <2>3, AdvancedTyped DEF File
<1>7. ASSUME NEW i \in DOMAIN fn', i = n
      PROVE  PlainName(i)' /\ Len(fn'[i].name) = 1
  <2>1. i > File.fIndex
    BY <1>4, <1>6, <1>7
  <2>2. File'.fIndex = File.fIndex /\ File'.pos = File.pos + 1 /\ Steps' = Steps
    BY <1>2, <1>6 DEF File, Steps
  <2>3. File.pos \in 1..File'.pos - 1
    BY <1>6, <2>2
  <2>4. Steps'[File.pos].k = "fn" /\ fn'[i].name = <<Steps'[File.pos].name>>
    BY <1>1, <1>3, <1>4, <1>7, <2>2
  <2>5. Len(fn'[i].name) = 1
    BY <2>4
  <2> QED  BY <2>1, <2>2, <2>3, <2>4, <2>5 DEF PlainName
<1> HIDE DEF n
<1>8. FullNames'
  <2>1. ASSUME NEW i \in DOMAIN fn
        PROVE  /\ Len(fn'[i].name) = 1 => PlainName(i)'
               /\ Len(fn'[i].name) # 1 => fn'[i].name # <<>> /\ ClosedName(i)'
    <3>1. fn'[i] = fn[i]
      BY <1>4
    <3>2. Len(fn[i].name) = 1 => PlainName(i)'
      BY <1>2, <3>1, AdvanceKeeps DEF FullNames
    <3>3. Len(fn[i].name) # 1 => fn[i].name # <<>> /\ ClosedName(i)'
      BY <1>2, <3>1, AdvanceKeeps DEF FullNames
    <3> QED  BY <3>1, <3>2, <3>3
  <2>2. ASSUME NEW i \in DOMAIN fn'
        PROVE  /\ Len(fn'[i].name) = 1 => PlainName(i)'
               /\ Len(fn'[i].name) # 1 => fn'[i].name # <<>> /\ ClosedName(i)'
    BY <1>4, <1>7, <2>1
  <2> QED  BY <2>2 DEF FullNames
<1>9. NamesApart'
  <2>1. \A i \in DOMAIN fn : fn[i].name # <<Step.name>>
    BY <1>2 DEF named
  <2> QED  BY <1>3, <1>4, <2>1 DEF NamesApart
<1>10. FileStarts'
  <2>1. \A i \in DOMAIN open' : open'[i].fIndex <= Len(fn) /\ open[i].fIndex \in Nat
                                /\ open'[i].fIndex = open[i].fIndex
    <3>1. \A i \in DOMAIN open : open[i] \in OpenFile
      BY DEF TypeOK
    <3>2. \A i \in DOMAIN open : open[i].fIndex \in Nat
      BY <3>1 DEF OpenFile
    <3> QED  BY <1>2, <1>6, <3>2, AdvanceKeeps
  <2>2. Len(fn') = Len(fn) + 1
    BY <1>4 DEF n
  <2> QED  BY <1>4, <2>1, <2>2 DEF FileStarts
<1> QED  BY <1>2, <1>5, <1>8, <1>9, <1>10, AdvanceKeeps

LEMMA RuleStep ==
  ASSUME Tables, Rule, ~Refuse
  PROVE  Tables'
<1> USE DEF Tables
<1>1. /\ File.path = Main /\ File.pos \in DOMAIN Steps /\ Step = Steps[File.pos]
      /\ Steps[File.pos].k = "rule"
  BY StepTyped DEF Rule
<1>2. /\ events' = events \cup {Step.name} /\ open' = Advanced
      /\ UNCHANGED <<program, imported, fn, vars>>
  BY DEF Rule
<1>3. TypeOK'
  <2>1. OpenFile' = OpenFile /\ Path' = Path /\ FnEntry' = FnEntry /\ VarEntry' = VarEntry
    BY <1>2 DEF OpenFile, Path, FnEntry, VarEntry
  <2>2. open' \in Seq(OpenFile) /\ open' # <<>>
    BY <1>2, AdvancedTyped
  <2> QED  BY <1>2, <2>1, <2>2 DEF TypeOK
<1>4. RulesOfEntry'
  <2>1. Len(open) = 1 /\ File = open[1]
    <3>1. Len(open) \in DOMAIN open /\ 1 \in DOMAIN open
      BY FileTyped
    <3> QED  BY <1>1, <3>1 DEF File, Files
  <2>2. Steps = program[Main].steps
    BY <1>1 DEF Steps
  <2>3. open[1].pos \in Nat \ {0} /\ open'[1].pos = open[1].pos + 1
    <3>1. File \in OpenFile
      BY FileTyped
    <3>2. File.pos \in Nat \ {0}
      BY <3>1 DEF OpenFile
    <3> QED  BY <1>2, <2>1, <3>2, AdvancedTyped
  <2>4. open[1].pos \in 1..open'[1].pos - 1 /\ 1..open[1].pos - 1 \subseteq 1..open'[1].pos - 1
    BY <2>3
  <2>5. LET s == program[Main].steps[open[1].pos] IN s.k = "rule" /\ s.name = Step.name
    BY <1>1, <2>1, <2>2
  <2> QED  BY <1>2, <2>4, <2>5 DEF RulesOfEntry
<1> QED  BY <1>2, <1>3, <1>4, AdvanceKeeps, AdvanceNames

(* A name with a module in front.                                            *)
LEMMA InFront ==
  ASSUME NEW S, NEW m \in S, NEW a \in Seq(S)
  PROVE  /\ <<m>> \o a \in Seq(S) /\ <<m>> \o a # <<>> /\ (<<m>> \o a)[1] = m
         /\ a # <<>> => Len(<<m>> \o a) # 1
         /\ \A b \in Seq(S) : <<m>> \o a = <<m>> \o b => a = b
<1> DEFINE t == <<m>>
<1>1. t \in Seq(S) /\ Len(t) = 1 /\ t[1] = m
  OBVIOUS
<1>2. Len(a) \in Nat /\ (a # <<>> => Len(a) # 0)
  BY EmptySeq
<1> HIDE DEF t
<1>3. t \o a \in Seq(S) /\ Len(t \o a) = 1 + Len(a)
  BY <1>1, ConcatProperties
<1>4. (t \o a)[1] = m
  BY <1>1, <1>2, <1>3
<1>5. t \o a # <<>>
  BY <1>2, <1>3, EmptySeq
<1>6. \A b \in Seq(S) : t \o a = t \o b => a = b
  BY <1>1, ConcatSimplifications
<1> QED  BY <1>2, <1>3, <1>4, <1>5, <1>6 DEF t

(* The end of a module gives its functions their full names, which no other  *)
(* function has: those begin with other modules.                             *)
LEMMA EndModuleStep ==
  ASSUME Tables, EndModule
  PROVE  Tables'
<1> USE DEF Tables
<1> DEFINE m == program[File.path].name
           last == Len(open)
<1>1. /\ Len(open) \in Nat \ {0} /\ DOMAIN open = 1..Len(open) /\ Len(open) > 1
      /\ last \in DOMAIN open /\ File.path = open[last].path /\ m \in STRING
  BY FileTyped DEF EndModule, File
<1>2. /\ open' = SubSeq(open, 1, Len(open) - 1)
      /\ fn' = Prefixed(fn, File.fIndex, <<m>>)
      /\ vars' = [s \in Sorts |-> Prefixed(vars[s], File.vIndex[s], <<m>>)]
      /\ UNCHANGED <<program, imported, events>>
  BY DEF EndModule, endModule, ModName
<1> HIDE DEF m
<1>3. /\ open' \in Seq(OpenFile) /\ open' # <<>> /\ Len(open') = Len(open) - 1
      /\ DOMAIN open' = 1..Len(open) - 1
      /\ \A i \in DOMAIN open' : i \in DOMAIN open /\ i # last /\ open'[i] = open[i]
  <2>1. /\ open' \in Seq(OpenFile) /\ Len(open') = Len(open) - 1
        /\ \A i \in 1..Len(open) - 1 : open'[i] = open[i]
    BY <1>1, <1>2 DEF TypeOK
  <2>2. DOMAIN open' = 1..Len(open) - 1
    BY <1>1, <2>1
  <2> QED  BY <1>1, <2>1, <2>2
<1>4. PICK l \in DOMAIN imported : imported[l] = File.path
  BY <1>1 DEF Files
<1>5. /\ DOMAIN fn' = DOMAIN fn
      /\ \A i \in DOMAIN fn : i > File.fIndex => fn'[i] = [fn[i] EXCEPT !.name = <<m>> \o @]
      /\ \A i \in DOMAIN fn : ~(i > File.fIndex) => fn'[i] = fn[i]
  BY <1>2 DEF Prefixed
<1>6. \A i \in DOMAIN fn : fn[i] \in FnEntry /\ fn[i].name \in Seq(STRING) /\ fn[i].name # <<>>
  <2>1. \A i \in DOMAIN fn : fn[i] \in FnEntry
    BY DEF TypeOK
  <2>2. \A i \in DOMAIN fn : fn[i].name \in Seq(STRING)
    BY <2>1 DEF FnEntry
  <2>3. \A i \in DOMAIN fn : fn[i].name # <<>>
    <3>1. Len(<<>>) = 0
      OBVIOUS
    <3> QED  BY <3>1 DEF FullNames
  <2> QED  BY <2>1, <2>2, <2>3
<1>7. \A i \in DOMAIN fn : i > File.fIndex => fn'[i].name = <<m>> \o fn[i].name
  <2> SUFFICES ASSUME NEW i \in DOMAIN fn, i > File.fIndex
               PROVE  fn'[i].name = <<m>> \o fn[i].name
    OBVIOUS
  <2>1. fn'[i] = [fn[i] EXCEPT !.name = <<m>> \o @] /\ fn[i] \in FnEntry
    BY <1>5, <1>6
  <2> QED  BY <2>1 DEF FnEntry
<1>8. TypeOK'
  <2>1. OpenFile' = OpenFile /\ Path' = Path /\ FnEntry' = FnEntry /\ VarEntry' = VarEntry
    BY <1>2 DEF OpenFile, Path, FnEntry, VarEntry
  <2>2. fn' \in Seq(FnEntry)
    <3>1. ASSUME NEW i \in DOMAIN fn PROVE fn'[i] \in FnEntry
      <4>1. CASE i > File.fIndex
        <5>1. fn'[i] = [fn[i] EXCEPT !.name = <<m>> \o @] /\ fn[i] \in FnEntry
          BY <1>5, <1>6, <4>1
        <5>2. <<m>> \o fn[i].name \in Seq(STRING)
          BY <1>1, <1>6, InFront
        <5> QED  BY <5>1, <5>2 DEF FnEntry
      <4> QED  BY <1>5, <1>6, <4>1
    <3>2. DOMAIN fn = 1..Len(fn) /\ Len(fn) \in Nat
      BY DEF TypeOK
    <3>3. fn' = [i \in 1..Len(fn) |-> fn'[i]]
      BY <1>2, <3>2 DEF Prefixed
    <3> QED  BY <3>1, <3>2, <3>3
  <2>3. ASSUME NEW s \in Sorts PROVE Prefixed(vars[s], File.vIndex[s], <<m>>) \in Seq(VarEntry)
    <3> DEFINE t == vars[s]
    <3>1. t \in Seq(VarEntry)
      BY DEF TypeOK
    <3> HIDE DEF t
    <3>2. ASSUME NEW i \in DOMAIN t PROVE [t[i] EXCEPT !.name = <<m>> \o @] \in VarEntry
      <4>1. t[i] \in VarEntry
        BY <3>1
      <4>2. t[i].name \in Seq(STRING)
        BY <4>1 DEF VarEntry
      <4>3. <<m>> \o t[i].name \in Seq(STRING)
        BY <1>1, <4>2, InFront
      <4> QED  BY <4>1, <4>3 DEF VarEntry
    <3>3. DOMAIN t = 1..Len(t) /\ Len(t) \in Nat /\ \A i \in DOMAIN t : t[i] \in VarEntry
      BY <3>1
    <3> DEFINE v == Prefixed(t, File.vIndex[s], <<m>>)
    <3>4. /\ DOMAIN v = DOMAIN t
          /\ \A i \in DOMAIN t :
               v[i] = IF i > File.vIndex[s] THEN [t[i] EXCEPT !.name = <<m>> \o @] ELSE t[i]
          /\ v = [i \in DOMAIN t |-> v[i]]
      BY DEF Prefixed
    <3> HIDE DEF v, VarEntry
    <3>5. ASSUME NEW i \in DOMAIN t PROVE v[i] \in VarEntry
      BY <3>2, <3>3, <3>4
    <3>6. v \in Seq(VarEntry)
      BY <3>3, <3>4, <3>5
    <3> QED  BY <3>6 DEF t, v
  <2>4. vars' \in [Sorts -> Seq(VarEntry)]
    BY <1>2, <2>3
  <2> QED  BY <1>2, <1>3, <2>1, <2>2, <2>4 DEF TypeOK
<1>9. Files'
  <2>1. open'[1].path = Main
    BY <1>1, <1>3 DEF Files
  <2>2. \A i \in DOMAIN open' : i > 1 => \E k \in DOMAIN imported' : imported'[k] = open'[i].path
    <3>1. ASSUME NEW i \in DOMAIN open', i > 1
          PROVE  \E k \in DOMAIN imported' : imported'[k] = open'[i].path
      <4>1. i \in DOMAIN open /\ open'[i] = open[i]
        BY <1>3
      <4>2. PICK k \in DOMAIN imported : imported[k] = open[i].path
        BY <3>1, <4>1 DEF Files
      <4> QED  BY <1>2, <4>1, <4>2
    <3> QED  BY <3>1
  <2>3. \A i, j \in DOMAIN open' : i # j => open'[i].path # open'[j].path
    <3>1. ASSUME NEW i \in DOMAIN open', NEW j \in DOMAIN open', i # j
          PROVE  open'[i].path # open'[j].path
      <4>1. i \in DOMAIN open /\ j \in DOMAIN open /\ open'[i] = open[i] /\ open'[j] = open[j]
        BY <1>3
      <4> QED  BY <3>1, <4>1 DEF Files
    <3> QED  BY <3>1
  <2>4. \A k, x \in DOMAIN imported' :
          k # x => program'[imported'[k]].name # program'[imported'[x]].name
    BY <1>2 DEF Files
  <2> QED  BY <2>1, <2>2, <2>3, <2>4 DEF Files
<1>10. FileStarts'
  <2>1. Len(fn') = Len(fn)
    <3>1. fn \in Seq(FnEntry)
      BY DEF TypeOK
    <3> QED  BY <1>2, <3>1 DEF Prefixed
  <2> QED  BY <1>3, <2>1 DEF FileStarts
<1>11. FullNames'
  <2>1. ASSUME NEW i \in DOMAIN fn
        PROVE  Len(fn'[i].name) # 1 /\ fn'[i].name # <<>> /\ ClosedName(i)'
    <3>1. CASE i > File.fIndex
      <4>1. fn'[i].name = <<m>> \o fn[i].name
        BY <1>7, <3>1
      <4>2. Len(fn'[i].name) # 1 /\ fn'[i].name # <<>> /\ fn'[i].name[1] = m
        BY <1>1, <1>6, <4>1, InFront
      <4>3. \A j \in DOMAIN open' : open'[j].path # imported[l]
        BY <1>1, <1>3, <1>4 DEF Files
      <4>4. fn'[i].name[1] = program[imported[l]].name
        BY <1>4, <4>2 DEF m
      <4> QED  BY <1>2, <4>2, <4>3, <4>4 DEF ClosedName
    <3>2. CASE ~(i > File.fIndex)
      <4>1. fn'[i] = fn[i]
        BY <1>5, <3>2
      <4>2. Len(fn[i].name) # 1 /\ fn[i].name # <<>> /\ ClosedName(i)
        BY <3>2 DEF FullNames, PlainName
      <4>3. PICK k \in DOMAIN imported :
              /\ fn[i].name[1] = program[imported[k]].name
              /\ \A x \in DOMAIN open : open[x].path # imported[k]
        BY <4>2 DEF ClosedName
      <4>4. \A x \in DOMAIN open' : open'[x].path # imported[k]
        BY <1>3, <4>3
      <4> QED  BY <1>2, <4>1, <4>2, <4>3, <4>4 DEF ClosedName
    <3> QED  BY <3>1, <3>2
  <2> QED  BY <1>5, <2>1 DEF FullNames
<1>12. NamesApart'
  <2>1. ASSUME NEW i \in DOMAIN fn, NEW j \in DOMAIN fn, j > File.fIndex, ~(i > File.fIndex)
        PROVE  fn'[i].name # fn'[j].name
    <3>1. fn'[j].name[1] = m
      BY <1>1, <1>6, <1>7, <2>1, InFront
    <3>2. fn'[i].name = fn[i].name
      BY <1>5, <2>1
    <3>3. PICK k \in DOMAIN imported :
            /\ fn[i].name[1] = program[imported[k]].name
            /\ \A x \in DOMAIN open : open[x].path # imported[k]
      BY <2>1 DEF FullNames, PlainName, ClosedName
    <3>4. imported[k] # imported[l]
      BY <1>1, <1>4, <3>3
    <3>5. program[imported[k]].name # m
      BY <1>4, <3>4 DEF Files, m
    <3> QED  BY <3>1, <3>2, <3>3, <3>5
  <2>2. ASSUME NEW i \in DOMAIN fn, NEW j \in DOMAIN fn, fn'[i].name = fn'[j].name PROVE i = j
    <3>1. CASE i > File.fIndex /\ j > File.fIndex
      <4>1. <<m>> \o fn[i].name = <<m>> \o fn[j].name
        BY <1>7, <2>2, <3>1
      <4>2. \A a, b \in Seq(STRING) : <<m>> \o a = <<m>> \o b => a = b
        BY <1>1, InFront
      <4>3. fn[i].name = fn[j].name
        BY <1>6, <4>1, <4>2
      <4> QED  BY <4>3 DEF NamesApart
    <3>2. CASE ~(i > File.fIndex) /\ ~(j > File.fIndex)
      BY <1>5, <2>2, <3>2 DEF NamesApart
    <3> QED  BY <2>1, <2>2, <3>1, <3>2
  <2> QED  BY <1>5, <2>2 DEF NamesApart
<1>13. RulesOfEntry'
  <2>1. open'[1] = open[1]
    BY <1>1, <1>3
  <2> QED  BY <1>2, <2>1 DEF RulesOfEntry
<1> QED  BY <1>8, <1>9, <1>10, <1>11, <1>12, <1>13

LEMMA KeptTables ==
  ASSUME Tables, UNCHANGED <<program, open, imported, fn, events, vars>>
  PROVE  Tables'
<1> USE DEF Tables
<1>1. TypeOK'
  BY DEF TypeOK, Path, OpenFile, FnEntry, VarEntry
<1>2. Files' /\ FileStarts' /\ NamesApart' /\ RulesOfEntry'
  BY DEF Files, FileStarts, NamesApart, RulesOfEntry
<1>3. File' = File /\ Steps' = Steps
  BY DEF File, Steps
<1>4. FullNames'
  <2>1. ASSUME NEW i \in DOMAIN fn, PlainName(i) PROVE PlainName(i)'
    BY <1>3, <2>1 DEF PlainName
  <2>2. ASSUME NEW i \in DOMAIN fn, ClosedName(i) PROVE ClosedName(i)'
    BY <2>2 DEF ClosedName
  <2> QED  BY <2>1, <2>2 DEF FullNames
<1> QED  BY <1>1, <1>2, <1>4

LEMMA ImportStep ==
  ASSUME Tables, Import
  PROVE  Tables'
<1>1. Step.to \in Path \ {Main} /\ \A j \in 1..File.pos - 1 : Steps[j].k = "import"
  BY StepTyped DEF Import, Tables
<1>2. CASE Refuse
  BY <1>2, KeptTables DEF Refuse
<1>3. CASE open' = Advanced /\ UNCHANGED <<program, imported, fn, events, vars>>
  <2>1. TypeOK'
    <3>1. OpenFile' = OpenFile /\ Path' = Path /\ FnEntry' = FnEntry /\ VarEntry' = VarEntry
      BY <1>3 DEF OpenFile, Path, FnEntry, VarEntry
    <3>2. open' \in Seq(OpenFile) /\ open' # <<>>
      BY <1>3, AdvancedTyped DEF Tables
    <3> QED  BY <1>3, <3>1, <3>2 DEF Tables, TypeOK
  <2> QED  BY <1>3, <2>1, AdvanceKeeps, AdvanceNames DEF Tables
<1>4. CASE /\ ~importLoop(Step.to) /\ ~isImported(Step.to) /\ ~modPrefixExist(Step.to)
           /\ imported' = Append(imported, Step.to) /\ open' = Append(Advanced, Opened(Step.to))
           /\ UNCHANGED <<program, fn, events, vars>>
  <2>1. AtStep("import")
    BY DEF Import
  <2> DEFINE path == Step.to
  <2>2. path \in Path \ {Main}
    BY <1>1
  <2>3. /\ ~importLoop(path) /\ ~isImported(path) /\ ~modPrefixExist(path)
        /\ imported' = Append(imported, path) /\ open' = Append(Advanced, Opened(path))
        /\ UNCHANGED <<program, fn, events, vars>>
    BY <1>4
  <2> HIDE DEF path
  <2> QED  BY <1>1, <2>1, <2>2, <2>3, ImportOpens
<1> QED  BY <1>2, <1>3, <1>4 DEF Import

LEMMA TablesInit ==
  ASSUME ModuleInit
  PROVE  Tables
<1>1. /\ program \in Programs /\ imported = <<>> /\ fn = <<>> /\ events = {}
      /\ vars = [s \in Sorts |-> <<>>]
      /\ open = <<[path |-> Main, pos |-> 1, fIndex |-> 0, vIndex |-> [s \in Sorts |-> 0]]>>
  BY DEF ModuleInit
<1> DEFINE f == [path |-> Main, pos |-> 1, fIndex |-> 0, vIndex |-> [s \in Sorts |-> 0]]
<1>2. f \in OpenFile /\ f.path = Main /\ f.pos = 1 /\ f.fIndex = 0
  <2>1. Main \in Path
    BY <1>1, ProgramsAssumption DEF ProgramsAssumption, WellFormed, Path
  <2>2. [s \in Sorts |-> 0] \in [Sorts -> Nat]
    OBVIOUS
  <2> QED  BY <2>1, <2>2 DEF OpenFile
<1> HIDE DEF f
<1>3. open = <<f>>
  BY <1>1 DEF f
<1>4. open \in Seq(OpenFile) /\ Len(open) = 1 /\ DOMAIN open = {1} /\ open[1] = f /\ open # <<>>
  BY <1>2, <1>3
<1>5. /\ imported \in Seq(Path \ {Main}) /\ DOMAIN imported = {}
      /\ fn \in Seq(FnEntry) /\ DOMAIN fn = {} /\ Len(fn) = 0
  BY <1>1
<1>6. vars \in [Sorts -> Seq(VarEntry)]
  BY <1>1
<1>7. TypeOK
  BY <1>1, <1>4, <1>5, <1>6 DEF TypeOK
<1>8. Files /\ FileStarts
  BY <1>2, <1>4, <1>5 DEF Files, FileStarts
<1>9. FullNames /\ NamesApart /\ RulesOfEntry
  BY <1>1, <1>5 DEF FullNames, NamesApart, RulesOfEntry
<1> QED  BY <1>7, <1>8, <1>9 DEF Tables

LEMMA TablesStep ==
  ASSUME Tables, [ModuleNext]_moduleVars
  PROVE  Tables'
<1>1. CASE Import
  BY <1>1, ImportStep
<1>2. CASE Section
  BY <1>2, SectionStep
<1>3. CASE Refuse
  BY <1>3, KeptTables DEF Refuse
<1>4. CASE Function /\ ~Refuse
  BY <1>4, FunctionStep
<1>5. CASE Rule /\ ~Refuse
  BY <1>5, RuleStep
<1>6. CASE EndModule
  BY <1>6, EndModuleStep
<1>7. CASE EndEntry
  BY <1>7, KeptTables DEF EndEntry
<1>8. CASE UNCHANGED moduleVars
  BY <1>8, KeptTables DEF moduleVars
<1> QED  BY <1>1, <1>2, <1>3, <1>4, <1>5, <1>6, <1>7, <1>8 DEF ModuleNext

----------------------------------------------------------------------------
(* Refusals.                                                                 *)

(* What the current file gives reason for, in the words of RefusedForCause.  *)
Loop == \E i \in 2..Len(open) : open[i].path \in ImportsOf(File.path)
TwoModules == \E p, q \in DOMAIN program \ {Main} : p # q /\ program[p].name = program[q].name
TwoDeclarations ==
  LET kinds == {"fn", "rule"}
      steps == program[File.path].steps
  IN \E i, j \in DOMAIN steps : i # j /\ steps[i].k = steps[j].k /\ steps[i].k \in kinds /\ steps[i].name = steps[j].name
Cause == Loop \/ TwoModules \/ TwoDeclarations

LEMMA ImportRefused ==
  ASSUME Tables, Import, Refuse
  PROVE  Loop \/ TwoModules
<1>1. /\ Step.to \in Path \ {Main} /\ File.pos \in DOMAIN Steps /\ Step = Steps[File.pos]
      /\ Steps[File.pos].k = "import"
  BY StepTyped DEF Import, Tables
<1>2. importLoop(Step.to) \/ (~isImported(Step.to) /\ modPrefixExist(Step.to))
  <2>1. status = "parsing" /\ status' = "refused"
    BY DEF Import, AtStep, Refuse
  <2>2. Len(imported) \in Nat /\ imported' = imported
    BY DEF Tables, TypeOK, Refuse
  <2> QED  BY <2>1 DEF Import
<1>3. CASE importLoop(Step.to)
  <2>1. Step.to \in ImportsOf(File.path)
    BY <1>1 DEF ImportsOf, Steps
  <2> QED  BY <1>3, <2>1 DEF importLoop, Loop
<1>4. CASE ~isImported(Step.to) /\ modPrefixExist(Step.to)
  <2>1. PICK i \in DOMAIN imported : program[imported[i]].name = program[Step.to].name
    BY <1>4 DEF modPrefixExist, ModName
  <2>2. imported[i] # Step.to
    BY <1>4 DEF isImported
  <2>3. imported[i] \in Path \ {Main}
    BY DEF Tables, TypeOK
  <2> QED  BY <1>1, <2>1, <2>2, <2>3 DEF TwoModules, Path
<1> QED  BY <1>2, <1>3, <1>4

LEMMA FunctionRefused ==
  ASSUME Tables, Function, Refuse
  PROVE  TwoDeclarations
<1>1. /\ Step.name \in STRING /\ File.pos \in DOMAIN Steps /\ Step = Steps[File.pos]
      /\ Steps[File.pos].k = "fn" /\ Len(Steps) \in Nat /\ DOMAIN Steps = 1..Len(Steps)
  BY StepTyped, FileTyped DEF Function, Tables
<1>2. status = "parsing" /\ status' = "refused"
  BY DEF Function, AtStep, Refuse
<1>3. PICK i \in DOMAIN fn : fn[i].name = <<Step.name>>
  BY <1>2 DEF Function, named
<1>4. Len(fn[i].name) = 1
  BY <1>3
<1>5. PICK j \in 1..File.pos - 1 : Steps[j].k = "fn" /\ fn[i].name = <<Steps[j].name>>
  BY <1>4 DEF Tables, FullNames, PlainName
<1>6. Steps[j].name = Step.name
  <2>1. <<Steps[j].name>>[1] = <<Step.name>>[1]
    BY <1>3, <1>5
  <2> QED  BY <2>1
<1>7. j \in DOMAIN Steps /\ j # File.pos
  BY <1>1, <1>5
<1> QED  BY <1>1, <1>5, <1>6, <1>7 DEF TwoDeclarations, Steps

LEMMA RuleRefused ==
  ASSUME Tables, Rule, Refuse
  PROVE  TwoDeclarations
<1>1. /\ File.path = Main /\ File.pos \in DOMAIN Steps /\ Step = Steps[File.pos]
      /\ Steps[File.pos].k = "rule" /\ Len(Steps) \in Nat /\ DOMAIN Steps = 1..Len(Steps)
  BY StepTyped, FileTyped DEF Rule, Tables
<1>2. status = "parsing" /\ status' = "refused"
  BY DEF Rule, AtStep, Refuse
<1>3. Step.name \in events
  BY <1>2 DEF Rule
<1>4. Len(open) = 1 /\ File = open[1]
  <2>1. Len(open) \in DOMAIN open /\ 1 \in DOMAIN open
    BY FileTyped DEF Tables
  <2> QED  BY <1>1, <2>1 DEF File, Files, Tables
<1>5. PICK j \in 1..File.pos - 1 : Steps[j].k = "rule" /\ Steps[j].name = Step.name
  BY <1>1, <1>3, <1>4 DEF Tables, RulesOfEntry, Steps
<1>6. j \in DOMAIN Steps /\ j # File.pos
  BY <1>1, <1>5
<1> QED  BY <1>1, <1>5, <1>6 DEF TwoDeclarations, Steps

(* A step that refuses has cause, and nothing follows it.                    *)
LEMMA RefusedStep ==
  ASSUME Tables, ModuleNext, status' = "refused"
  PROVE  Cause'
<1>1. status = "parsing"
  BY DEF ModuleNext, Import, Section, Function, Rule, EndModule, EndEntry, AtStep
<1>2. Refuse /\ (Import \/ Function \/ Rule)
  BY <1>1 DEF ModuleNext, Import, Section, Function, Rule, EndModule, EndEntry
<1>3. Cause
  BY <1>2, ImportRefused, FunctionRefused, RuleRefused DEF Cause
<1>4. UNCHANGED <<program, open>>
  BY <1>2 DEF Refuse
<1> QED
  <2>1. File' = File
    BY <1>4 DEF File
  <2>2. Loop => Loop'
    BY <1>4, <2>1 DEF Loop, ImportsOf
  <2>3. TwoModules => TwoModules'
    BY <1>4 DEF TwoModules
  <2>4. TwoDeclarations => TwoDeclarations'
    BY <1>4, <2>1 DEF TwoDeclarations
  <2> QED  BY <1>3, <2>2, <2>3, <2>4 DEF Cause

(* In every program, a script that is refused for its names or its imports   *)
(* has a cycle of imports, two modules of one name, or two functions or two  *)
(* rules of one name in one file; and the function table never holds one     *)
(* full name twice (pl/parser.go, parseImportStmt, addFunction).             *)
THEOREM RefusalsHaveACause == ModuleSpec => []RefusedForCause
<1> DEFINE Inv == Tables /\ (status = "refused" => Cause)
<1>1. ModuleInit => Inv
  BY TablesInit DEF ModuleInit
<1>2. Inv /\ [ModuleNext]_moduleVars => Inv'
  <2> SUFFICES ASSUME Inv, [ModuleNext]_moduleVars PROVE Inv'
    OBVIOUS
  <2>1. Tables'
    BY TablesStep
  <2>2. ASSUME status' = "refused" PROVE Cause'
    <3>1. CASE ModuleNext
      BY <2>2, <3>1, RefusedStep
    <3>2. CASE UNCHANGED moduleVars
      BY SMTT(30), <2>2, <3>2 DEF moduleVars, Cause, Loop, TwoModules, TwoDeclarations, ImportsOf, File
    <3> QED  BY <3>1, <3>2
  <2> QED  BY <2>1, <2>2
<1>3. Inv => RefusedForCause
  BY DEF Tables, NamesApart, RefusedForCause, Cause, Loop, TwoModules, TwoDeclarations
<1> QED  BY <1>1, <1>2, <1>3, PTL DEF ModuleSpec

=============================================================================
