-------------------------- MODULE FuncProto_proofs --------------------------
(***************************************************************************)
(* Proofs about prototypes: whatever a descriptor describes, compile       *)
(* accepts it, and Check passes exactly the calls that it describes.  The  *)
(* invariant says how far compile is in the descriptor.                    *)
(***************************************************************************)
EXTENDS FuncProto, SequenceTheorems, WellFoundedInduction, TLAPS

LEMMA LeastOne ==
  ASSUME NEW S, S \subseteq Nat, S # {}
  PROVE  Min(S) \in S /\ \A x \in S : Min(S) <= x
<1>1. PICK m \in S : \A x \in S : <<x, m>> \notin OpToRel(<, Nat)
  BY WFMin, NatLessThanWellFounded, Zenon
<1>2. ASSUME NEW x \in S PROVE m <= x
  <2>1. x \in Nat /\ m \in Nat
    OBVIOUS
  <2>2. ~(x < m)
    BY <1>1, <2>1 DEF OpToRel
  <2> QED
    BY <2>1, <2>2
<1>3. \E m1 \in S : \A x \in S : m1 <= x
  BY <1>2
<1> QED
  BY <1>3 DEF Min

-----------------------------------------------------------------------------
(* FlattenSeq. *)

Flattens(ss, f, m) == f = [i \in 1..m |-> IF i = 1 THEN ss[i] ELSE f[i - 1] \o ss[i]]

LEMMA FlatteningExists ==
  ASSUME NEW ss, NEW n \in Nat
  PROVE  \E f : Flattens(ss, f, n)
<1> DEFINE S == {m \in Nat : ~\E f : Flattens(ss, f, m)}
<1> SUFFICES ASSUME S # {} PROVE FALSE
  OBVIOUS
<1>1. PICK m : m = Min(S)
  OBVIOUS
<1>2. S \subseteq Nat
  OBVIOUS
<1> HIDE DEF S
<1>3. m \in S /\ \A x \in S : m <= x
  BY <1>1, <1>2, LeastOne
<1>4. m \in Nat /\ ~\E f : Flattens(ss, f, m)
  BY <1>3 DEF S
<1>5. CASE m = 0
  <2> DEFINE f == [i \in 1..0 |-> <<>>]
  <2>1. Flattens(ss, f, 0)
    BY DEF Flattens
  <2> QED
    BY <1>4, <1>5, <2>1
<1>6. CASE m # 0
  <2>1. m - 1 \in Nat /\ m - 1 < m
    BY <1>4, <1>6
  <2>2. m - 1 \notin S
    BY <1>3, <1>4, <2>1
  <2>3. PICK b : Flattens(ss, b, m - 1)
    BY <2>1, <2>2 DEF S
  <2> DEFINE next(i) == IF i = 1 THEN ss[i] ELSE b[i - 1] \o ss[i]
             f == [i \in 1..m |-> next(i)]
  <2>4. \A i \in 1..m - 1 : b[i] = next(i)
    BY <2>3 DEF Flattens
  <2>5. \A i \in 1..m - 1 : f[i] = b[i]
    <3> HIDE DEF next
    <3> QED
      BY <1>4, <2>4
  <2>6. \A i \in 1..m : i # 1 => i - 1 \in 1..m - 1
    BY <1>4
  <2>7. \A i \in 1..m : next(i) = IF i = 1 THEN ss[i] ELSE f[i - 1] \o ss[i]
    <3> HIDE DEF f
    <3> QED
      BY <2>5, <2>6
  <2> HIDE DEF next
  <2>8. f = [i \in 1..m |-> next(i)]
    OBVIOUS
  <2> HIDE DEF f
  <2>9. f = [i \in 1..m |-> IF i = 1 THEN ss[i] ELSE f[i - 1] \o ss[i]]
    BY <2>7, <2>8
  <2>10. Flattens(ss, f, m)
    BY <2>9 DEF Flattens
  <2> QED
    BY <1>4, <2>10
<1> QED
  BY <1>5, <1>6

(* Where the parts of a flattened sequence are: part i behind off[i - 1].    *)
Offsets(ss, off) ==
  LET flat == FlattenSeq(ss)
      n == Len(ss)
  IN /\ off \in [0..n -> Nat] /\ off[0] = 0 /\ off[n] = Len(flat)
     /\ \A i \in 1..n : off[i] = off[i - 1] + Len(ss[i]) /\ off[i] <= off[n]
     /\ \A i \in 1..n : \A q \in 1..Len(ss[i]) : flat[off[i - 1] + q] = ss[i][q]
Off(ss) == CHOOSE off : Offsets(ss, off)

LEMMA Concatenated ==
  ASSUME NEW T, NEW a \in Seq(T), NEW b \in Seq(T)
  PROVE  /\ a \o b \in Seq(T) /\ Len(a \o b) = Len(a) + Len(b)
         /\ Len(a) \in Nat /\ Len(b) \in Nat
         /\ \A q \in 1..Len(a) : (a \o b)[q] = a[q]
         /\ \A q \in 1..Len(b) : (a \o b)[Len(a) + q] = b[q]
<1>1. /\ a \o b \in Seq(T) /\ Len(a \o b) = Len(a) + Len(b) /\ Len(a) \in Nat /\ Len(b) \in Nat
      /\ \A q \in 1..Len(a) + Len(b) : (a \o b)[q] = IF q <= Len(a) THEN a[q] ELSE b[q - Len(a)]
  BY ConcatProperties
<1>2. ASSUME NEW q \in 1..Len(a) PROVE (a \o b)[q] = a[q]
  BY <1>1
<1>3. ASSUME NEW q \in 1..Len(b) PROVE (a \o b)[Len(a) + q] = b[q]
  <2>1. Len(a) + q \in 1..Len(a) + Len(b) /\ ~(Len(a) + q <= Len(a)) /\ Len(a) + q - Len(a) = q
    BY <1>1
  <2> QED
    BY <1>1, <2>1
<1> QED
  BY <1>1, <1>2, <1>3

LEMMA Flattened ==
  ASSUME NEW T, NEW ss \in Seq(Seq(T))
  PROVE  FlattenSeq(ss) \in Seq(T) /\ Offsets(ss, Off(ss))
<1> DEFINE n == Len(ss)
<1>1. n \in Nat /\ \A i \in 1..n : ss[i] \in Seq(T)
  OBVIOUS
<1>2. CASE n = 0
  <2> DEFINE off == [i \in 0..0 |-> 0]
  <2>1. FlattenSeq(ss) = <<>> /\ ss = <<>>
    BY <1>2 DEF FlattenSeq
  <2>2. Offsets(ss, off)
    BY <1>2, <2>1 DEF Offsets
  <2> QED
    BY <2>1, <2>2 DEF Off
<1>3. CASE n # 0
  <2>1. PICK f : Flattens(ss, f, n)
    BY <1>1, FlatteningExists
  <2>2. FlattenSeq(ss) = (CHOOSE g : Flattens(ss, g, n))[n]
    BY <1>3 DEF FlattenSeq, Flattens
  <2> HIDE DEF n
  <2>3. PICK g : g = CHOOSE h : Flattens(ss, h, n)
    OBVIOUS
  <2>4. Flattens(ss, g, n)
    BY <2>1, <2>3
  <2>5. g[1] = ss[1] /\ \A i \in 2..n : g[i] = g[i - 1] \o ss[i]
    <3>1. \A i \in 1..n : g[i] = IF i = 1 THEN ss[i] ELSE g[i - 1] \o ss[i]
      BY <2>4 DEF Flattens
    <3>2. 1 \in 1..n /\ \A i \in 2..n : i \in 1..n /\ i # 1
      BY <1>1, <1>3
    <3> HIDE DEF n
    <3> QED
      BY <3>1, <3>2
  <2>6. \A i \in 1..n : g[i] \in Seq(T)
    <3> DEFINE S == {i \in 1..n : g[i] \notin Seq(T)}
    <3> SUFFICES ASSUME S # {} PROVE FALSE
      OBVIOUS
    <3>1. PICK i : i = Min(S)
      OBVIOUS
    <3>2. S \subseteq Nat
      OBVIOUS
    <3>3. i \in S /\ \A x \in S : i <= x
      <4> HIDE DEF S
      <4> QED
        BY <3>1, <3>2, LeastOne
    <3>4. i # 1
      BY <1>1, <1>3, <2>5, <3>3
    <3>5. i - 1 \in 1..n /\ i \in 2..n /\ i - 1 < i
      BY <1>1, <3>3, <3>4
    <3>6. g[i - 1] \in Seq(T)
      BY <3>3, <3>5
    <3>7. g[i] \in Seq(T)
      <4>1. ss[i] \in Seq(T) /\ g[i] = g[i - 1] \o ss[i]
        BY <1>1, <2>5, <3>3, <3>5
      <4>2. g[i - 1] \o ss[i] \in Seq(T)
        BY <3>6, <4>1, Concatenated, Zenon
      <4> QED
        BY <4>1, <4>2
    <3> QED
      BY <3>3, <3>7
  <2> DEFINE off == [i \in 0..n |-> IF i = 0 THEN 0 ELSE Len(g[i])]
  <2>7. /\ off \in [0..n -> Nat] /\ off[0] = 0 /\ \A i \in 1..n : off[i] = Len(g[i])
    BY <1>1, <2>6
  <2>8. DOMAIN off = 0..n
    OBVIOUS
  <2> HIDE DEF off
  <2>9. ASSUME NEW i \in 1..n
        PROVE  /\ off[i] = off[i - 1] + Len(ss[i]) /\ i - 1 \in 0..n /\ Len(ss[i]) \in Nat
               /\ \A q \in 1..Len(ss[i]) : g[i][off[i - 1] + q] = ss[i][q]
    <3>1. CASE i = 1
      BY <1>1, <2>5, <2>7, <3>1
    <3>2. CASE i # 1
      <4>1. i - 1 \in 1..n /\ i \in 2..n
        BY <1>1, <3>2
      <4>2. g[i - 1] \in Seq(T) /\ ss[i] \in Seq(T) /\ g[i] = g[i - 1] \o ss[i]
        BY <1>1, <2>5, <2>6, <4>1
      <4>3. /\ Len(g[i]) = Len(g[i - 1]) + Len(ss[i]) /\ Len(ss[i]) \in Nat
            /\ \A q \in 1..Len(ss[i]) : g[i][Len(g[i - 1]) + q] = ss[i][q]
        <5>1. PICK a \in Seq(T), b \in Seq(T) : a = g[i - 1] /\ b = ss[i]
          BY <4>2
        <5>2. Len(a \o b) = Len(a) + Len(b) /\ Len(b) \in Nat
          OBVIOUS
        <5>4. \A q \in 1..Len(b) : (a \o b)[Len(a) + q] = b[q]
          BY Concatenated
        <5>3. g[i] = a \o b
          BY <4>2, <5>1
        <5> HIDE DEF n
        <5> QED
          BY <5>1, <5>2, <5>3, <5>4, Zenon
      <4>4. off[i] = Len(g[i]) /\ off[i - 1] = Len(g[i - 1]) /\ i - 1 \in 0..n
        BY <1>1, <2>7, <4>1
      <4> QED
        BY <4>3, <4>4
    <3> QED
      BY <3>1, <3>2
  <2>10. \A j \in 1..n : \A i \in 1..j :
           off[i] <= off[j] /\ \A q \in 1..Len(ss[i]) : g[j][off[i - 1] + q] = ss[i][q]
    <3> DEFINE Filed(j) == \A i \in 1..j :
                 off[i] <= off[j] /\ \A q \in 1..Len(ss[i]) : g[j][off[i - 1] + q] = ss[i][q]
               S == {j \in 1..n : ~Filed(j)}
    <3> SUFFICES ASSUME S # {} PROVE FALSE
      OBVIOUS
    <3>1. PICK j : j = Min(S)
      OBVIOUS
    <3>2. S \subseteq Nat
      OBVIOUS
    <3> HIDE DEF Filed
    <3>3. j \in S /\ \A x \in S : j <= x
      <4> HIDE DEF S
      <4> QED
        BY <3>1, <3>2, LeastOne
    <3>4. j \in 1..n /\ ~Filed(j)
      BY <3>3
    <3>5. PICK i \in 1..j : ~(off[i] <= off[j] /\ \A q \in 1..Len(ss[i]) : g[j][off[i - 1] + q] = ss[i][q])
      BY <3>4 DEF Filed
    <3>6. off[j] \in Nat /\ i \in 1..n
      BY <1>1, <2>7, <3>4
    <3>7. CASE i = j
      BY <2>9, <3>4, <3>5, <3>6, <3>7
    <3>8. CASE i # j
      <4>1. j - 1 \in 1..n /\ j \in 2..n /\ i \in 1..j - 1 /\ j - 1 < j
        BY <1>1, <3>4, <3>8
      <4>2. Filed(j - 1)
        BY <3>3, <4>1
      <4>3. off[i] <= off[j - 1] /\ \A q \in 1..Len(ss[i]) : g[j - 1][off[i - 1] + q] = ss[i][q]
        BY <4>1, <4>2 DEF Filed
      <4>4. g[j - 1] \in Seq(T) /\ ss[j] \in Seq(T) /\ g[j] = g[j - 1] \o ss[j]
        <5>1. g[j - 1] \in Seq(T)
          BY <2>6, <4>1
        <5>2. ss[j] \in Seq(T)
          BY <1>1, <3>4
        <5>3. g[j] = g[j - 1] \o ss[j]
          BY <2>5, <4>1
        <5> QED
          BY <5>1, <5>2, <5>3
      <4>5. \A p \in 1..Len(g[j - 1]) : g[j][p] = g[j - 1][p]
        <5>1. PICK a \in Seq(T), b \in Seq(T) : a = g[j - 1] /\ b = ss[j]
          BY <4>4
        <5>2. \A p \in 1..Len(a) : (a \o b)[p] = a[p]
          BY Concatenated, Zenon
        <5>3. g[j] = a \o b
          BY <4>4, <5>1
        <5> QED
          BY <5>1, <5>2, <5>3, Zenon
      <4>6. off[j] = off[j - 1] + Len(ss[j]) /\ Len(ss[j]) \in Nat /\ off[j - 1] = Len(g[j - 1]) /\ off[j - 1] \in Nat
        BY <2>7, <2>9, <3>4, <4>1
      <4>7. off[i] = off[i - 1] + Len(ss[i]) /\ off[i - 1] \in Nat /\ off[i] \in Nat /\ Len(ss[i]) \in Nat
        <5>1. off[i] = off[i - 1] + Len(ss[i]) /\ i - 1 \in 0..n /\ Len(ss[i]) \in Nat
          BY <2>9, <3>6
        <5>2. i \in 0..n
          BY <1>1, <3>6
        <5> QED
          BY <2>7, <5>1, <5>2
      <4>8. ASSUME NEW q \in 1..Len(ss[i]) PROVE g[j][off[i - 1] + q] = ss[i][q]
        <5>1. off[i - 1] + q \in 1..Len(g[j - 1])
          <6>1. off[i] <= off[j - 1] /\ off[j - 1] = Len(g[j - 1]) /\ off[j - 1] \in Nat
            BY <4>3, <4>6
          <6> QED
            BY SMTT(30), <4>7, <6>1
        <5> QED
          BY <4>3, <4>5, <5>1
      <4>9. off[i] <= off[j]
        <5>1. off[i] <= off[j - 1]
          BY <4>3
        <5>2. off[j - 1] <= off[j] /\ off[j - 1] \in Nat /\ off[j] \in Nat
          <6>1. PICK len \in Nat, before \in Nat : len = Len(ss[j]) /\ before = off[j - 1]
            BY <4>6, Zenon
          <6>2. off[j] = before + len
            BY <4>6, <6>1, Zenon
          <6> QED
            BY <6>1, <6>2
        <5> QED
          BY <4>7, <5>1, <5>2
      <4> QED
        BY <3>5, <4>8, <4>9
    <3> QED
      BY <3>7, <3>8
  <2>11. FlattenSeq(ss) = g[n] /\ n \in 1..n
    BY <1>1, <1>3, <2>2, <2>3
  <2>12. Offsets(ss, off)
    BY <2>7, <2>9, <2>10, <2>11 DEF Offsets, n
  <2> QED
    BY <2>6, <2>11, <2>12 DEF Off
<1> QED
  BY <1>2, <1>3

-----------------------------------------------------------------------------
(* The tokens of a descriptor. *)

Tokens == TypeTokens \cup ByteMarks \cup {"[t]", "*", "(", ")", "|", "{", "}"}
NoArgs == Elem("%0", "", "")

\* s is in F, behind the first c tokens.
Within(F, c, s) == \A q \in 1..Len(s) : c + q \in 1..Len(F) /\ F[c + q] = s[q]

LEMMA WithinConcatenated ==
  ASSUME NEW T, NEW F, NEW c \in Nat, NEW a \in Seq(T), NEW b \in Seq(T), Within(F, c, a \o b)
  PROVE  Within(F, c, a) /\ Within(F, c + Len(a), b)
<1>1. PICK s : s = a \o b
  OBVIOUS
<1>2. /\ Len(s) = Len(a) + Len(b) /\ Len(a) \in Nat /\ Len(b) \in Nat
      /\ \A q \in 1..Len(a) : s[q] = a[q]
      /\ \A q \in 1..Len(b) : s[Len(a) + q] = b[q]
  BY <1>1, Concatenated
<1>3. \A q \in 1..Len(s) : c + q \in 1..Len(F) /\ F[c + q] = s[q]
  BY <1>1 DEF Within
<1>4. Within(F, c, a)
  BY <1>2, <1>3 DEF Within
<1>5. ASSUME NEW q \in 1..Len(b) PROVE c + Len(a) + q \in 1..Len(F) /\ F[c + Len(a) + q] = b[q]
  <2>1. Len(a) + q \in 1..Len(s) /\ c + (Len(a) + q) = c + Len(a) + q
    BY <1>2
  <2> QED
    BY <1>2, <1>3, <2>1
<1> QED
  BY <1>4, <1>5 DEF Within

LEMMA WithinFlattened ==
  ASSUME NEW T, NEW F, NEW c \in Nat, NEW ss \in Seq(Seq(T)), Within(F, c, FlattenSeq(ss)),
         NEW i \in 1..Len(ss)
  PROVE  /\ Within(F, c + Off(ss)[i - 1], ss[i])
         /\ Off(ss)[i] = Off(ss)[i - 1] + Len(ss[i])
         /\ Off(ss)[i] \in Nat /\ Off(ss)[i - 1] \in Nat /\ Len(ss[i]) \in Nat
<1>1. PICK off : off = Off(ss)
  OBVIOUS
<1>2. Offsets(ss, off) /\ FlattenSeq(ss) \in Seq(T)
  BY <1>1, Flattened
<1>3. PICK flat \in Seq(T) : flat = FlattenSeq(ss)
  BY <1>2
<1>4. /\ off \in [0..Len(ss) -> Nat] /\ off[Len(ss)] = Len(flat) /\ Len(ss) \in Nat
      /\ off[i] = off[i - 1] + Len(ss[i]) /\ off[i] <= off[Len(ss)]
      /\ \A q \in 1..Len(ss[i]) : flat[off[i - 1] + q] = ss[i][q]
  BY <1>2, <1>3 DEF Offsets
<1>5. off[i] \in Nat /\ off[i - 1] \in Nat /\ off[Len(ss)] \in Nat /\ Len(ss[i]) \in Nat
  <2>1. i \in 0..Len(ss) /\ i - 1 \in 0..Len(ss) /\ Len(ss) \in 0..Len(ss)
    BY <1>4
  <2>2. ss[i] \in Seq(T)
    OBVIOUS
  <2> QED
    BY <1>4, <2>1, <2>2
<1>6. ASSUME NEW q \in 1..Len(ss[i])
      PROVE  c + off[i - 1] + q \in 1..Len(F) /\ F[c + off[i - 1] + q] = ss[i][q]
  <2>1. off[i - 1] + q \in 1..Len(flat) /\ c + (off[i - 1] + q) = c + off[i - 1] + q
    BY SMTT(30), <1>4, <1>5
  <2>2. c + (off[i - 1] + q) \in 1..Len(F) /\ F[c + (off[i - 1] + q)] = flat[off[i - 1] + q]
    BY <1>3, <2>1 DEF Within
  <2> QED
    BY <1>4, <2>1, <2>2
<1>7. Within(F, c + off[i - 1], ss[i])
  BY <1>6 DEF Within
<1> QED
  BY <1>1, <1>4, <1>5, <1>7

LEMMA ShortSequences ==
  ASSUME NEW T, NEW a \in T, NEW b \in T
  PROVE  /\ <<a>> \in Seq(T) /\ Len(<<a>>) = 1 /\ <<a>>[1] = a
         /\ <<a>> \o <<>> = <<a>> /\ <<a>> \o <<b>> = <<a, b>>
         /\ <<a>> \o <<>> \o <<>> = <<a>> /\ <<a>> \o <<b>> \o <<>> = <<a, b>> /\ <<a>> \o <<>> \o <<b>> = <<a, b>>
         /\ <<a, b>> \in Seq(T) /\ Len(<<a, b>>) = 2 /\ <<a, b>>[1] = a /\ <<a, b>>[2] = b
<1>1. <<a>> \in Seq(T) /\ Len(<<a>>) = 1 /\ <<a>>[1] = a
  OBVIOUS
<1>2. <<a, b>> \in Seq(T) /\ Len(<<a, b>>) = 2 /\ <<a, b>>[1] = a /\ <<a, b>>[2] = b
  OBVIOUS
<1>3. <<a>> \o <<>> = <<a>>
  OBVIOUS
<1>4. <<a>> \o <<b>> = <<a, b>>
  <2>1. <<b>> \in Seq(T) /\ Len(<<b>>) = 1 /\ <<b>>[1] = b
    OBVIOUS
  <2>2. PICK s \in Seq(T) : s = <<a>> \o <<b>>
    BY <1>1, <2>1, Concatenated
  <2>3. Len(s) = 2 /\ s[1] = a /\ s[2] = b
    <3>1. /\ Len(<<a>> \o <<b>>) = 1 + 1
          /\ (<<a>> \o <<b>>)[1] = a /\ (<<a>> \o <<b>>)[1 + 1] = b
      BY <1>1, <2>1, Concatenated
    <3> QED
      BY <2>2, <3>1
  <2>4. \A i \in 1..Len(s) : s[i] = <<a, b>>[i]
    BY <1>2, <2>3
  <2>5. s = <<a, b>>
    BY <1>2, <2>3, <2>4, SeqEqual
  <2> QED
    BY <2>2, <2>5
<1>5. <<a, b>> \o <<>> = <<a, b>>
  OBVIOUS
<1> QED
  BY <1>1, <1>2, <1>3, <1>4, <1>5, Zenon

LEMMA ElemFacts ==
  ASSUME NEW e, e \in Elems \/ e = NoArgs
  PROVE  /\ ElemTokens(e) \in Seq(Tokens) /\ ElemTokens(e)[1] = e.type /\ e.type \in TypeTokens
         /\ Len(ElemTokens(e)) \in {1, 2}
         /\ e.tname \in {"", "t"} /\ (e.tname # "" => e.type = "%U" /\ e.bytes = "")
         /\ e.bytes \in ByteMarks \cup {""}
         /\ e.bytes # "" => e.type \in {"%d", "%u", "%f", "%F"} /\ (e.type = "%F" => e.bytes \in {"4", "8"})
         /\ e.bytes = "" /\ e.tname = "" => Len(ElemTokens(e)) = 1
         /\ e.bytes # "" => Len(ElemTokens(e)) = 2 /\ ElemTokens(e)[2] = e.bytes
         /\ e.tname # "" => Len(ElemTokens(e)) = 2 /\ ElemTokens(e)[2] = "[t]"
<1>1. /\ e.type \in TypeTokens
      /\ e.tname \in {"", "t"} /\ (e.tname # "" => e.type = "%U" /\ e.bytes = "")
      /\ e.bytes \in ByteMarks \cup {""}
      /\ e.bytes # "" => e.type \in {"%d", "%u", "%f", "%F"} /\ (e.type = "%F" => e.bytes \in {"4", "8"})
  <2>1. CASE e = NoArgs
    BY <2>1 DEF NoArgs, Elem, TypeTokens
  <2>2. CASE e \in Elems
    BY <2>2 DEF Elems
  <2> QED
    BY <2>1, <2>2
<1>2. e.type \in Tokens /\ "[t]" \in Tokens /\ (e.bytes # "" => e.bytes \in Tokens)
  BY <1>1 DEF Tokens
<1>3. CASE e.bytes = "" /\ e.tname = ""
  <2>1. ElemTokens(e) = <<e.type>>
    BY <1>2, <1>3, ShortSequences DEF ElemTokens
  <2>2. ElemTokens(e) \in Seq(Tokens) /\ ElemTokens(e)[1] = e.type /\ Len(ElemTokens(e)) = 1
    BY <1>2, <2>1, ShortSequences
  <2> QED
    BY <1>1, <1>3, <2>2
<1>4. CASE e.bytes # ""
  <2>1. e.tname = ""
    BY <1>1, <1>4
  <2>2. ElemTokens(e) = <<e.type, e.bytes>>
    <3>1. PICK a \in Tokens, b \in Tokens : a = e.type /\ b = e.bytes
      BY <1>2, <1>4
    <3>2. <<a>> \o <<b>> \o <<>> = <<a, b>>
      BY ShortSequences, Zenon
    <3>3. ElemTokens(e) = <<a>> \o <<b>> \o <<>>
      BY <1>4, <2>1, <3>1 DEF ElemTokens
    <3> QED
      BY <3>1, <3>2, <3>3
  <2>3. /\ ElemTokens(e) \in Seq(Tokens) /\ ElemTokens(e)[1] = e.type
        /\ Len(ElemTokens(e)) = 2 /\ ElemTokens(e)[2] = e.bytes
    <3>1. PICK a \in Tokens, b \in Tokens : a = e.type /\ b = e.bytes
      BY <1>2, <1>4
    <3>2. <<a, b>> \in Seq(Tokens) /\ Len(<<a, b>>) = 2 /\ <<a, b>>[1] = a /\ <<a, b>>[2] = b
      OBVIOUS
    <3> QED
      BY <2>2, <3>1, <3>2, Zenon
  <2> QED
    BY <1>1, <1>4, <2>1, <2>3
<1>5. CASE e.tname # ""
  <2>1. e.bytes = ""
    BY <1>1, <1>5
  <2>2. ElemTokens(e) = <<e.type, "[t]">>
    <3>1. PICK a \in Tokens, b \in Tokens : a = e.type /\ b = "[t]"
      BY <1>2
    <3>2. <<a>> \o <<>> \o <<b>> = <<a, b>>
      BY ShortSequences, Zenon
    <3>3. ElemTokens(e) = <<a>> \o <<>> \o <<b>>
      BY <1>5, <2>1, <3>1 DEF ElemTokens
    <3> QED
      BY <3>1, <3>2, <3>3
  <2>3. /\ ElemTokens(e) \in Seq(Tokens) /\ ElemTokens(e)[1] = e.type
        /\ Len(ElemTokens(e)) = 2 /\ ElemTokens(e)[2] = "[t]"
    <3>1. PICK a \in Tokens, b \in Tokens : a = e.type /\ b = "[t]"
      BY <1>2
    <3>2. <<a, b>> \in Seq(Tokens) /\ Len(<<a, b>>) = 2 /\ <<a, b>>[1] = a /\ <<a, b>>[2] = b
      OBVIOUS
    <3> QED
      BY <2>2, <3>1, <3>2, Zenon
  <2> QED
    BY <1>1, <1>5, <2>1, <2>3
<1> QED
  BY <1>3, <1>4, <1>5

(* The alternatives of a group and what separates them.                     *)
Alternatives(g) == [i \in DOMAIN g |-> ElemTokens(g[i]) \o <<IF i = Len(g) THEN ")" ELSE "|">>]

LEMMA GroupFacts ==
  ASSUME NEW g \in Seq(Elems), g # <<>>
  PROVE  /\ GroupTokens(g) \in Seq(Tokens) /\ Len(GroupTokens(g)) \in Nat \ {0}
         /\ GroupTokens(g)[1] \in (TypeTokens \ {"%0"}) \cup {"("}
         /\ Len(g) = 1 => GroupTokens(g) = ElemTokens(g[1]) /\ GroupTokens(g)[1] # "("
         /\ Len(g) # 1 => /\ Alternatives(g) \in Seq(Seq(Tokens)) /\ Len(Alternatives(g)) = Len(g)
                          /\ GroupTokens(g) = <<"(">> \o FlattenSeq(Alternatives(g))
                          /\ GroupTokens(g)[1] = "("
<1>1. Len(g) \in Nat \ {0} /\ DOMAIN g = 1..Len(g) /\ \A i \in 1..Len(g) : g[i] \in Elems
  OBVIOUS
<1>2. CASE Len(g) = 1
  <2>1. GroupTokens(g) = ElemTokens(g[1]) /\ g[1] \in Elems
    BY <1>1, <1>2 DEF GroupTokens
  <2>2. /\ ElemTokens(g[1]) \in Seq(Tokens) /\ ElemTokens(g[1])[1] = g[1].type
        /\ Len(ElemTokens(g[1])) \in {1, 2}
    BY <2>1, ElemFacts
  <2>3. g[1].type \in TypeTokens \ {"%0"} /\ g[1].type # "("
    BY <2>1 DEF Elems, TypeTokens
  <2> QED
    BY <1>2, <2>1, <2>2, <2>3
<1>3. CASE Len(g) # 1
  <2>1. ASSUME NEW i \in 1..Len(g)
        PROVE  ElemTokens(g[i]) \o <<IF i = Len(g) THEN ")" ELSE "|">> \in Seq(Tokens)
    <3>1. PICK sep : sep = IF i = Len(g) THEN ")" ELSE "|"
      OBVIOUS
    <3>2. sep \in Tokens
      BY <3>1 DEF Tokens
    <3>3. <<sep>> \in Seq(Tokens) /\ ElemTokens(g[i]) \in Seq(Tokens)
      BY <1>1, <3>2, ElemFacts, ShortSequences
    <3>4. ElemTokens(g[i]) \o <<sep>> \in Seq(Tokens)
      BY <3>3, Concatenated, Zenon
    <3> QED
      BY <3>1, <3>4
  <2>2. Alternatives(g) \in Seq(Seq(Tokens)) /\ Len(Alternatives(g)) = Len(g)
    <3> DEFINE part(i) == ElemTokens(g[i]) \o <<IF i = Len(g) THEN ")" ELSE "|">>
    <3>1. Alternatives(g) = [i \in 1..Len(g) |-> part(i)]
      BY <1>1 DEF Alternatives
    <3>2. \A i \in 1..Len(g) : part(i) \in Seq(Tokens)
      BY <2>1
    <3> HIDE DEF part
    <3> QED
      BY <1>1, <3>1, <3>2
  <2>3. GroupTokens(g) = <<"(">> \o FlattenSeq(Alternatives(g))
    BY <1>3 DEF GroupTokens, Alternatives
  <2>4. PICK flat \in Seq(Tokens) : flat = FlattenSeq(Alternatives(g))
    BY <2>2, Flattened
  <2>5. "(" \in Tokens /\ <<"(">> \in Seq(Tokens)
    <3>1. "(" \in Tokens
      BY DEF Tokens
    <3> QED
      BY <3>1, ShortSequences
  <2>6. /\ <<"(">> \o flat \in Seq(Tokens) /\ Len(<<"(">> \o flat) = 1 + Len(flat)
        /\ Len(flat) \in Nat /\ (<<"(">> \o flat)[1] = "("
    BY <2>5
  <2> QED
    BY <1>3, <2>2, <2>3, <2>4, <2>6
<1> QED
  BY <1>2, <1>3

(* Where the alternatives of a group are.                                   *)
Placed(F, c, g, off) ==
  /\ off[0] = 0 /\ Len(GroupTokens(g)) = 1 + off[Len(g)]
  /\ \A i \in 1..Len(g) :
       /\ off[i] \in Nat /\ off[i - 1] \in Nat
       /\ off[i] = off[i - 1] + Len(ElemTokens(g[i])) + 1
       /\ Within(F, c + 1 + off[i - 1], ElemTokens(g[i]))
       /\ c + 1 + off[i] \in 1..Len(F)
       /\ F[c + 1 + off[i]] = IF i = Len(g) THEN ")" ELSE "|"

LEMMA GroupWithin ==
  ASSUME NEW g \in Seq(Elems), g # <<>>, Len(g) # 1, NEW F, NEW c \in Nat, Within(F, c, GroupTokens(g)),
         NEW off, off = Off(Alternatives(g))
  PROVE  Placed(F, c, g, off)
<1> DEFINE alts == Alternatives(g)
<1>1. /\ alts \in Seq(Seq(Tokens)) /\ Len(alts) = Len(g) /\ Len(g) \in Nat
      /\ GroupTokens(g) = <<"(">> \o FlattenSeq(alts)
  BY GroupFacts
<1>2. \A i \in 1..Len(g) : alts[i] = ElemTokens(g[i]) \o <<IF i = Len(g) THEN ")" ELSE "|">> /\ g[i] \in Elems
  BY DEF Alternatives
<1> HIDE DEF alts
<1>3. <<"(">> \in Seq(Tokens) /\ Len(<<"(">>) = 1
  <2>1. "(" \in Tokens
    BY DEF Tokens
  <2> QED
    BY <2>1, ShortSequences
<1>4. FlattenSeq(alts) \in Seq(Tokens) /\ Offsets(alts, off)
  BY <1>1, Flattened DEF alts
<1>5. off[0] = 0 /\ off[Len(g)] = Len(FlattenSeq(alts))
  BY <1>1, <1>4 DEF Offsets
<1>6. Within(F, c + 1, FlattenSeq(alts))
  <2>1. PICK flat \in Seq(Tokens) : flat = FlattenSeq(alts)
    BY <1>4
  <2>2. PICK a \in Seq(Tokens) : a = <<"(">> /\ Len(a) = 1
    BY <1>3
  <2>3. Within(F, c, a \o flat)
    BY <1>1, <2>1, <2>2
  <2>4. Within(F, c + Len(a), flat)
    BY <2>3, WithinConcatenated
  <2> QED
    BY <2>1, <2>2, <2>4
<1>7. Len(GroupTokens(g)) = 1 + off[Len(g)]
  <2>1. PICK flat \in Seq(Tokens) : flat = FlattenSeq(alts)
    BY <1>4
  <2>2. PICK a \in Seq(Tokens) : a = <<"(">> /\ Len(a) = 1
    BY <1>3
  <2>3. Len(a \o flat) = 1 + Len(flat)
    BY <2>2, Concatenated
  <2> QED
    BY <1>1, <1>5, <2>1, <2>2, <2>3
<1>8. ASSUME NEW i \in 1..Len(g)
      PROVE  /\ off[i] \in Nat /\ off[i - 1] \in Nat
             /\ off[i] = off[i - 1] + Len(ElemTokens(g[i])) + 1
             /\ Within(F, c + 1 + off[i - 1], ElemTokens(g[i]))
             /\ c + 1 + off[i] \in 1..Len(F)
             /\ F[c + 1 + off[i]] = IF i = Len(g) THEN ")" ELSE "|"
  <2>1. PICK sep : sep = IF i = Len(g) THEN ")" ELSE "|"
    OBVIOUS
  <2>2. PICK e \in Seq(Tokens) : e = ElemTokens(g[i]) /\ Len(e) \in Nat
    <3>1. g[i] \in Elems
      OBVIOUS
    <3>2. ElemTokens(g[i]) \in Seq(Tokens)
      BY <3>1, ElemFacts
    <3> QED
      BY <3>2
  <2>3. PICK s \in Seq(Tokens) : s = <<sep>> /\ Len(s) = 1 /\ s[1] = sep
    <3>1. sep \in Tokens
      BY <2>1 DEF Tokens
    <3> QED
      BY <3>1, ShortSequences
  <2>4. alts[i] = e \o s /\ Len(e \o s) = Len(e) + 1
    <3>1. Len(e \o s) = Len(e) + Len(s)
      BY Concatenated
    <3> QED
      BY <1>2, <2>1, <2>2, <2>3, <3>1
  <2>5. c + 1 \in Nat /\ i \in 1..Len(alts)
    BY <1>1
  <2>6. /\ Within(F, c + 1 + off[i - 1], alts[i])
        /\ off[i] = off[i - 1] + Len(alts[i]) /\ off[i] \in Nat /\ off[i - 1] \in Nat
    BY ZenonT(30), <1>1, <1>6, <2>5, WithinFlattened DEF alts
  <2>7. PICK b \in Nat : b = c + 1 + off[i - 1]
    BY <2>6
  <2>8. Within(F, b, e \o s)
    BY <2>4, <2>6, <2>7
  <2>9. Within(F, b, e) /\ Within(F, b + Len(e), s)
    BY <2>8, WithinConcatenated
  <2>10. b + Len(e) + 1 \in 1..Len(F) /\ F[b + Len(e) + 1] = sep
    BY <2>3, <2>9 DEF Within
  <2>11. off[i] = off[i - 1] + Len(e) + 1 /\ c + 1 + off[i] = b + Len(e) + 1
    <3>1. PICK x \in Nat, y \in Nat : x = off[i - 1] /\ y = off[i]
      BY <2>6
    <3>2. y = x + (Len(e) + 1)
      BY <2>4, <2>6, <3>1
    <3>3. PICK len \in Nat : len = Len(e)
      BY <2>2
    <3>4. y = x + (len + 1)
      BY <3>2, <3>3, Zenon
    <3>5. b = c + 1 + x
      BY <2>7, <3>1, Zenon
    <3>6. y = x + len + 1 /\ c + 1 + y = b + len + 1
      BY <3>4, <3>5
    <3> QED
      BY <3>1, <3>3, <3>6, Zenon
  <2> QED
    BY <2>1, <2>2, <2>6, <2>7, <2>9, <2>10, <2>11
<1> QED
  BY <1>5, <1>7, <1>8, Zenon DEF Placed

(* The arguments of a case.                                                 *)
Star(w) == IF w.varlen THEN <<"*">> ELSE <<>>
ArgTokens(w) == [k \in DOMAIN w.d |-> GroupTokens(w.d[k])]

LEMMA CaseFacts ==
  ASSUME NEW w \in WrittenCases
  PROVE  /\ w.d \in Seq(Seq(Elems)) /\ DOMAIN w.d = 1..Len(w.d) /\ Len(w.d) \in Nat
         /\ \A k \in 1..Len(w.d) : w.d[k] \in Seq(Elems) /\ w.d[k] # <<>>
         /\ w.noarg \in BOOLEAN /\ w.varlen \in BOOLEAN
         /\ w.noarg => w.d = <<>>
         /\ w.varlen /\ ~w.noarg => Len(w.d) > 0 /\ Len(w.d[Len(w.d)]) = 1
         /\ ArgTokens(w) \in Seq(Seq(Tokens)) /\ Len(ArgTokens(w)) = Len(w.d)
         /\ \A k \in 1..Len(w.d) : ArgTokens(w)[k] = GroupTokens(w.d[k])
         /\ Star(w) \in Seq(Tokens) /\ (w.varlen => Len(Star(w)) = 1 /\ Star(w)[1] = "*")
         /\ ~w.varlen => Len(Star(w)) = 0
         /\ ~w.noarg => CaseTokens(w) = FlattenSeq(ArgTokens(w)) \o Star(w)
         /\ w.noarg => CaseTokens(w) = ElemTokens(NoArgs) \o Star(w)
         /\ CaseTokens(w) \in Seq(Tokens)
<1>1. /\ w.d \in Seq(Seq(Elems)) /\ DOMAIN w.d = 1..Len(w.d) /\ Len(w.d) \in Nat
      /\ w.noarg \in BOOLEAN /\ w.varlen \in BOOLEAN /\ (w.noarg => w.d = <<>>)
  BY DEF WrittenCases
<1>2. \A k \in 1..Len(w.d) : w.d[k] \in Seq(Elems) /\ w.d[k] # <<>>
  BY <1>1 DEF WrittenCases
<1>3. w.varlen /\ ~w.noarg => Len(w.d) > 0 /\ Len(w.d[Len(w.d)]) = 1
  BY <1>1 DEF WrittenCases, Last
<1>4. \A k \in 1..Len(w.d) : GroupTokens(w.d[k]) \in Seq(Tokens)
  BY <1>2, GroupFacts
<1>5. ArgTokens(w) = [k \in 1..Len(w.d) |-> GroupTokens(w.d[k])]
  BY <1>1 DEF ArgTokens
<1>6. /\ ArgTokens(w) \in Seq(Seq(Tokens)) /\ Len(ArgTokens(w)) = Len(w.d)
      /\ \A k \in 1..Len(w.d) : ArgTokens(w)[k] = GroupTokens(w.d[k])
  BY <1>1, <1>4, <1>5
<1>7. /\ Star(w) \in Seq(Tokens) /\ (w.varlen => Len(Star(w)) = 1 /\ Star(w)[1] = "*")
      /\ ~w.varlen => Len(Star(w)) = 0
  <2>1. "*" \in Tokens
    BY DEF Tokens
  <2>2. <<"*">> \in Seq(Tokens) /\ Len(<<"*">>) = 1 /\ <<"*">>[1] = "*"
    BY <2>1, ShortSequences
  <2> QED
    BY <1>1, <2>2 DEF Star
<1>8. ElemTokens(NoArgs) = <<"%0">> /\ ElemTokens(NoArgs) \in Seq(Tokens)
  <2>1. "%0" \in Tokens
    BY DEF Tokens, TypeTokens
  <2>2. <<"%0">> \o <<>> \o <<>> = <<"%0">> /\ <<"%0">> \in Seq(Tokens)
    BY <2>1, ShortSequences
  <2>3. ElemTokens(NoArgs) = <<"%0">> \o <<>> \o <<>>
    BY DEF ElemTokens, NoArgs, Elem
  <2> QED
    BY <2>2, <2>3
<1>9. /\ ~w.noarg => CaseTokens(w) = FlattenSeq(ArgTokens(w)) \o Star(w)
      /\ w.noarg => CaseTokens(w) = ElemTokens(NoArgs) \o Star(w)
  BY <1>8 DEF CaseTokens, ArgTokens, Star
<1>10. FlattenSeq(ArgTokens(w)) \in Seq(Tokens)
  BY <1>6, Flattened
<1>11. CaseTokens(w) \in Seq(Tokens)
  <2>1. CASE w.noarg
    BY <1>7, <1>8, <1>9, <2>1, Concatenated
  <2>2. CASE ~w.noarg
    BY <1>7, <1>9, <1>10, <2>2, Concatenated
  <2> QED
    BY <1>1, <2>1, <2>2
<1> QED
  BY <1>1, <1>2, <1>3, <1>6, <1>7, <1>9, <1>11, Zenon

LEMMA CaseWithin ==
  ASSUME NEW w \in WrittenCases, ~w.noarg, NEW F, NEW c \in Nat, Within(F, c, CaseTokens(w)),
         NEW off, off = Off(ArgTokens(w)), NEW n, n = Len(w.d)
  PROVE  /\ off[0] = 0 /\ off[n] \in Nat
         /\ Len(CaseTokens(w)) = off[n] + (IF w.varlen THEN 1 ELSE 0)
         /\ w.varlen => c + off[n] + 1 \in 1..Len(F) /\ F[c + off[n] + 1] = "*"
         /\ \A k \in 1..n :
              /\ off[k] \in Nat /\ off[k - 1] \in Nat /\ off[k] <= off[n]
              /\ off[k] = off[k - 1] + Len(GroupTokens(w.d[k]))
              /\ Within(F, c + off[k - 1], GroupTokens(w.d[k]))
<1> DEFINE args == ArgTokens(w)
<1>1. /\ args \in Seq(Seq(Tokens)) /\ Len(args) = n /\ n \in Nat
      /\ \A k \in 1..n : args[k] = GroupTokens(w.d[k])
      /\ w.varlen \in BOOLEAN
  BY CaseFacts
<1>2. CaseTokens(w) = FlattenSeq(args) \o Star(w) /\ Star(w) \in Seq(Tokens)
  BY CaseFacts
<1>3. /\ w.varlen => Len(Star(w)) = 1 /\ Star(w)[1] = "*"
      /\ ~w.varlen => Len(Star(w)) = 0
  BY CaseFacts
<1> HIDE DEF args
<1>4. PICK flat \in Seq(Tokens) : flat = FlattenSeq(args) /\ Offsets(args, off)
  BY <1>1, Flattened DEF args
<1>5. PICK s \in Seq(Tokens) : s = Star(w)
  BY <1>2
<1>6. /\ off[0] = 0 /\ off[n] = Len(flat) /\ off[n] \in Nat
      /\ \A k \in 1..n : off[k] <= off[n]
  <2>1. off \in [0..n -> Nat] /\ off[0] = 0 /\ off[n] = Len(flat) /\ \A k \in 1..n : off[k] <= off[n]
    BY <1>1, <1>4 DEF Offsets
  <2>2. off[n] \in Nat
    BY <1>1, <2>1
  <2> QED
    BY <2>1, <2>2
<1>7. Within(F, c, flat \o s)
  BY <1>2, <1>4, <1>5
<1>8. Within(F, c, flat) /\ Within(F, c + Len(flat), s) /\ Len(flat \o s) = Len(flat) + Len(s)
  BY <1>7, WithinConcatenated, Concatenated
<1>9. w.varlen => c + off[n] + 1 \in 1..Len(F) /\ F[c + off[n] + 1] = "*"
  <2> SUFFICES ASSUME w.varlen PROVE c + off[n] + 1 \in 1..Len(F) /\ F[c + off[n] + 1] = "*"
    OBVIOUS
  <2>1. PICK b : b = c + off[n]
    OBVIOUS
  <2>2. Within(F, b, s) /\ Len(s) = 1 /\ s[1] = "*"
    BY <1>3, <1>5, <1>6, <1>8, <2>1
  <2>3. b + 1 \in 1..Len(F) /\ F[b + 1] = "*"
    BY <2>2 DEF Within
  <2> QED
    BY <2>1, <2>3
<1>10. Len(CaseTokens(w)) = off[n] + (IF w.varlen THEN 1 ELSE 0)
  BY <1>1, <1>2, <1>3, <1>4, <1>5, <1>6, <1>8
<1>11. ASSUME NEW k \in 1..n
       PROVE  /\ off[k] \in Nat /\ off[k - 1] \in Nat
              /\ off[k] = off[k - 1] + Len(GroupTokens(w.d[k]))
              /\ Within(F, c + off[k - 1], GroupTokens(w.d[k]))
  <2>1. Within(F, c, FlattenSeq(args)) /\ k \in 1..Len(args)
    BY <1>1, <1>4, <1>8
  <2>2. /\ Within(F, c + off[k - 1], args[k]) /\ off[k] = off[k - 1] + Len(args[k])
        /\ off[k] \in Nat /\ off[k - 1] \in Nat
    BY ZenonT(30), <1>1, <2>1, WithinFlattened DEF args
  <2> QED
    BY <1>1, <2>2
<1> QED
  BY <1>6, <1>9, <1>10, <1>11

-----------------------------------------------------------------------------
(* compT. *)

\* What Check sees of an element: the byte count plays no part.
AlikeElem(e, f) == e.type = f.type /\ e.tname = f.tname
TokenOf(F, at) == IF at \in 1..Len(F) THEN F[at] ELSE "end"

Ends(token) == token \in {"}", "end"}

LEMMA Compiles ==
  ASSUME descriptor \in Seq(Tokens), NEW c \in Nat, NEW e, e \in Elems \/ e = NoArgs,
         Within(descriptor, c, ElemTokens(e)),
         NEW n, n = c + Len(ElemTokens(e)),
         Token(n + 1) \notin ByteMarks \cup {"[t]"},
         Token(n + 1) = "*" => Ends(Token(n + 2))
  PROVE  LET t == compT(c + 1)
         IN /\ t.ok /\ AlikeElem(t.elem, e)
            /\ t.vlen <=> Token(n + 1) = "*"
            /\ t.behind = n + 1 + (IF Token(n + 1) = "*" THEN 1 ELSE 0)
<1> DEFINE next == Token(c + 1 + 1)
           named == next = "[t]"
           marked == next \in ByteMarks
<1>1. Len(descriptor) \in Nat /\ DOMAIN descriptor = 1..Len(descriptor)
  BY descriptor \in Seq(Tokens)
<1>2. /\ ElemTokens(e)[1] = e.type /\ e.type \in TypeTokens /\ Len(ElemTokens(e)) \in {1, 2}
      /\ e.tname \in {"", "t"} /\ (e.tname # "" => e.type = "%U" /\ e.bytes = "")
      /\ e.bytes \in ByteMarks \cup {""}
      /\ e.bytes # "" => e.type \in {"%d", "%u", "%f", "%F"} /\ (e.type = "%F" => e.bytes \in {"4", "8"})
      /\ e.bytes = "" /\ e.tname = "" => Len(ElemTokens(e)) = 1
      /\ e.bytes # "" => Len(ElemTokens(e)) = 2 /\ ElemTokens(e)[2] = e.bytes
      /\ e.tname # "" => Len(ElemTokens(e)) = 2 /\ ElemTokens(e)[2] = "[t]"
  BY ElemFacts
<1>3. Token(c + 1) = e.type
  <2>1. 1 \in 1..Len(ElemTokens(e))
    <3>1. PICK len \in {1, 2} : len = Len(ElemTokens(e))
      BY <1>2
    <3> QED
      BY <3>1
  <2>2. c + 1 \in DOMAIN descriptor /\ descriptor[c + 1] = ElemTokens(e)[1]
    BY <1>1, <2>1 DEF Within
  <2> QED
    BY <1>2, <2>2 DEF Token
<1>4. Len(ElemTokens(e)) = 2 => next = ElemTokens(e)[2]
  <2> SUFFICES ASSUME Len(ElemTokens(e)) = 2 PROVE next = ElemTokens(e)[2]
    OBVIOUS
  <2>1. 2 \in 1..Len(ElemTokens(e)) /\ c + 1 + 1 = c + 2
    OBVIOUS
  <2>2. c + 2 \in DOMAIN descriptor /\ descriptor[c + 2] = ElemTokens(e)[2]
    BY <1>1, <2>1 DEF Within
  <2> QED
    BY <2>1, <2>2 DEF Token
<1>5. Len(ElemTokens(e)) = 1 => n + 1 = c + 1 + 1
  OBVIOUS
<1>6. named <=> e.tname = "t"
  BY <1>2, <1>4, <1>5 DEF ByteMarks
<1>7. marked <=> e.bytes # ""
  BY <1>2, <1>4, <1>5 DEF ByteMarks
<1>8. marked => next = e.bytes
  BY <1>2, <1>4, <1>7
<1>9. c + 1 + (IF named \/ marked THEN 2 ELSE 1) = n + 1
  <2>1. (named \/ marked) <=> Len(ElemTokens(e)) = 2
    <3>1. Len(ElemTokens(e)) = 2 <=> e.bytes # "" \/ e.tname # ""
      <4>1. CASE e.bytes = "" /\ e.tname = ""
        <5>1. PICK len : len = Len(ElemTokens(e)) /\ len = 1
          BY <1>2, <4>1
        <5>2. len # 2
          BY <5>1
        <5> QED
          BY <4>1, <5>1, <5>2, Zenon
      <4>2. CASE e.bytes # "" \/ e.tname # ""
        <5>1. Len(ElemTokens(e)) = 2
          BY <1>2, <4>2
        <5> QED
          BY <4>2, <5>1
      <4> QED
        BY <4>1, <4>2
    <3>2. e.tname # "" <=> e.tname = "t"
      BY <1>2
    <3> HIDE DEF named, marked
    <3> QED
      BY <1>6, <1>7, <3>1, <3>2
  <2>2. PICK len \in {1, 2} : len = Len(ElemTokens(e))
    BY <1>2
  <2> HIDE DEF next
  <2> QED
    BY SMTT(30), <2>1, <2>2
<1>10. n + 1 + 1 = n + 2
  <2>1. PICK len \in {1, 2} : len = Len(ElemTokens(e))
    BY <1>2
  <2> QED
    BY <2>1
<1> HIDE DEF next
<1>11. compT(c + 1).ok
  BY <1>2, <1>3, <1>6, <1>7, <1>8, <1>9, <1>10 DEF compT, next, Ends
<1>12. AlikeElem(compT(c + 1).elem, e)
  BY <1>2, <1>3, <1>6, <1>7 DEF compT, AlikeElem, Elem, next
<1>13. compT(c + 1).vlen <=> Token(n + 1) = "*"
  BY <1>9 DEF compT, next
<1>14. compT(c + 1).behind = n + 1 + (IF Token(n + 1) = "*" THEN 1 ELSE 0)
  BY <1>9 DEF compT, next
<1> QED
  BY <1>11, <1>12, <1>13, <1>14

-----------------------------------------------------------------------------
(* The cases of a descriptor. *)

Parts(p) == [i \in DOMAIN p |-> <<"{">> \o CaseTokens(p[i]) \o <<"}">>]

\* c tokens are behind the cursor after i cases; a case without braces ends
\* one token behind the descriptor.
AfterCases(p, F, i, c) ==
  \/ F = FlattenSeq(Parts(p)) /\ c = Off(Parts(p))[i]
  \/ /\ Len(p) = 1 /\ F = CaseTokens(p[1])
     /\ (i = 0 /\ c = 0) \/ (i = 1 /\ c = Len(F) + 1)

\* The tokens of case i are behind the first b.
CaseStarts(p, F, i, b) ==
  LET n == Len(CaseTokens(p[i]))
  IN /\ i \in 1..Len(p) /\ b \in Nat
     /\ Within(F, b, CaseTokens(p[i]))
     /\ Ends(TokenOf(F, b + n + 1))
     /\ AfterCases(p, F, i, b + n + 1)

Written(p, F) ==
  /\ p \in Seq(WrittenCases) /\ p # <<>>
  /\ F \in Seq(Tokens)
  /\ F = FlattenSeq(Parts(p)) \/ (Len(p) = 1 /\ F = CaseTokens(p[1]))

LEMMA Sums ==
  \A a \in Nat, x \in Nat : a + (1 + x) + 1 = a + 1 + x + 1 /\ a + 1 + x + 1 = a + (x + 2)
OBVIOUS

LEMMA Braces ==
  \E l \in Seq(Tokens), r \in Seq(Tokens) :
     /\ l = <<"{">> /\ r = <<"}">> /\ Len(l) = 1 /\ Len(r) = 1
     /\ l[1] = "{" /\ r[1] = "}"
<1>1. "{" \in Tokens /\ "}" \in Tokens
  BY DEF Tokens
<1>2. <<"{">> \in Seq(Tokens) /\ Len(<<"{">>) = 1 /\ <<"{">>[1] = "{"
  BY <1>1, ShortSequences
<1>3. <<"}">> \in Seq(Tokens) /\ Len(<<"}">>) = 1 /\ <<"}">>[1] = "}"
  BY <1>1, ShortSequences
<1> QED
  BY <1>2, <1>3, Zenon

LEMMA PartFacts ==
  ASSUME NEW p \in Seq(WrittenCases)
  PROVE  /\ Len(p) \in Nat /\ DOMAIN p = 1..Len(p) /\ \A i \in 1..Len(p) : p[i] \in WrittenCases
         /\ Parts(p) \in Seq(Seq(Tokens)) /\ Len(Parts(p)) = Len(p)
         /\ \A i \in 1..Len(p) :
              /\ Parts(p)[i] = <<"{">> \o CaseTokens(p[i]) \o <<"}">>
              /\ Len(Parts(p)[i]) = Len(CaseTokens(p[i])) + 2 /\ Len(CaseTokens(p[i])) \in Nat
<1>1. Len(p) \in Nat /\ DOMAIN p = 1..Len(p) /\ \A i \in 1..Len(p) : p[i] \in WrittenCases
  OBVIOUS
<1> DEFINE part(i) == <<"{">> \o CaseTokens(p[i]) \o <<"}">>
<1>2. ASSUME NEW i \in 1..Len(p)
      PROVE  /\ part(i) \in Seq(Tokens)
             /\ Len(part(i)) = Len(CaseTokens(p[i])) + 2 /\ Len(CaseTokens(p[i])) \in Nat
  <2>2. PICK l \in Seq(Tokens), r \in Seq(Tokens) :
          /\ l = <<"{">> /\ r = <<"}">> /\ Len(l) = 1 /\ Len(r) = 1
          /\ l[1] = "{" /\ r[1] = "}"
    BY Braces, Zenon
  <2>3. PICK s \in Seq(Tokens) : s = CaseTokens(p[i])
    BY <1>1, CaseFacts
  <2>4. l \o s \in Seq(Tokens) /\ Len(l \o s) = Len(l) + Len(s) /\ Len(s) \in Nat
    BY Concatenated
  <2>5. PICK ls \in Seq(Tokens) : ls = l \o s /\ Len(ls) = 1 + Len(s)
    BY <2>2, <2>4
  <2>6. ls \o r \in Seq(Tokens) /\ Len(ls \o r) = Len(ls) + Len(r)
    BY Concatenated
  <2>7. part(i) = ls \o r
    BY <2>2, <2>3, <2>5
  <2>8. Len(ls \o r) = Len(s) + 2
    <3>1. PICK x \in Nat, y \in Nat : x = Len(s) /\ y = Len(ls)
      BY <2>4
    <3>2. PICK z : z = Len(ls \o r)
      OBVIOUS
    <3>3. y = 1 + x /\ z = y + 1
      BY <2>2, <2>5, <2>6, <3>1, <3>2, Zenon
    <3>4. z = x + 2
      BY <3>3
    <3> QED
      BY <3>1, <3>2, <3>4, Zenon
  <2> QED
    BY <2>3, <2>4, <2>6, <2>7, <2>8, Zenon
<1>3. Parts(p) = [i \in 1..Len(p) |-> part(i)]
  BY <1>1 DEF Parts
<1>4. \A i \in 1..Len(p) : part(i) = <<"{">> \o CaseTokens(p[i]) \o <<"}">>
  OBVIOUS
<1> HIDE DEF part
<1>5. Parts(p) \in Seq(Seq(Tokens)) /\ Len(Parts(p)) = Len(p) /\ \A i \in 1..Len(p) : Parts(p)[i] = part(i)
  BY <1>1, <1>2, <1>3
<1> QED
  BY <1>1, <1>2, <1>4, <1>5, Zenon

LEMMA BracedCase ==
  ASSUME NEW p \in Seq(WrittenCases), NEW F \in Seq(Tokens), F = FlattenSeq(Parts(p)),
         NEW i \in 1..Len(p), NEW c, c = Off(Parts(p))[i - 1]
  PROVE  c \in Nat /\ c + 1 \in 1..Len(F) /\ F[c + 1] = "{" /\ CaseStarts(p, F, i, c + 1)
<1>1. /\ Parts(p) \in Seq(Seq(Tokens)) /\ Len(Parts(p)) = Len(p)
      /\ Parts(p)[i] = <<"{">> \o CaseTokens(p[i]) \o <<"}">>
      /\ Len(Parts(p)[i]) = Len(CaseTokens(p[i])) + 2 /\ p[i] \in WrittenCases
  BY PartFacts
<1>2. Within(F, 0, F)
  BY DEF Within
<1>3. 0 \in Nat /\ i \in 1..Len(Parts(p)) /\ Within(F, 0, FlattenSeq(Parts(p)))
  BY <1>1, <1>2
<1>4. /\ Within(F, 0 + c, Parts(p)[i]) /\ Off(Parts(p))[i] = c + Len(Parts(p)[i])
      /\ Off(Parts(p))[i] \in Nat /\ c \in Nat
  BY <1>1, <1>3, WithinFlattened
<1>5. PICK l \in Seq(Tokens), r \in Seq(Tokens) :
        /\ l = <<"{">> /\ r = <<"}">> /\ Len(l) = 1 /\ Len(r) = 1
        /\ l[1] = "{" /\ r[1] = "}"
  BY Braces, Zenon
<1>6. PICK s \in Seq(Tokens) : s = CaseTokens(p[i]) /\ Len(s) \in Nat
  <2>1. CaseTokens(p[i]) \in Seq(Tokens)
    BY <1>1, CaseFacts
  <2> QED
    BY <2>1
<1>7. PICK ls \in Seq(Tokens) : ls = l \o s /\ Len(ls) = 1 + Len(s)
  <2>1. l \o s \in Seq(Tokens) /\ Len(l \o s) = Len(l) + Len(s)
    BY Concatenated
  <2> QED
    BY <1>5, <2>1
<1>8. Within(F, c, ls \o r)
  <2>1. 0 + c = c
    BY <1>4
  <2>2. Parts(p)[i] = ls \o r
    BY <1>1, <1>5, <1>6, <1>7
  <2> QED
    BY <1>4, <2>1, <2>2
<1>9. Within(F, c, ls) /\ Within(F, c + Len(ls), r)
  BY <1>4, <1>8, WithinConcatenated
<1>10. Within(F, c, l) /\ Within(F, c + 1, s)
  <2>1. Within(F, c, l \o s)
    BY <1>7, <1>9
  <2> QED
    BY <1>4, <1>5, <2>1, WithinConcatenated
<1>11. c + 1 \in 1..Len(F) /\ F[c + 1] = "{"
  <2>1. 1 \in 1..Len(l)
    <3>1. 1 \in 1..1
      OBVIOUS
    <3> QED
      BY <1>5, <3>1, Zenon
  <2> QED
    BY <1>5, <1>10, <2>1 DEF Within
<1>12. c + 1 + Len(s) + 1 \in 1..Len(F) /\ F[c + 1 + Len(s) + 1] = "}"
  <2>1. PICK b : b = c + Len(ls)
    OBVIOUS
  <2>2. b + 1 \in 1..Len(F) /\ F[b + 1] = "}"
    <3>0. 1 \in 1..1
      OBVIOUS
    <3>1. 1 \in 1..Len(r) /\ Within(F, b, r)
      BY <1>5, <1>9, <2>1, <3>0, Zenon
    <3> QED
      BY <1>5, <3>1 DEF Within
  <2>3. b + 1 = c + 1 + Len(s) + 1
    <3>1. PICK x \in Nat : x = Len(s)
      BY <1>6
    <3>2. b = c + (1 + x)
      BY <1>7, <2>1, <3>1, Zenon
    <3>3. b + 1 = c + 1 + x + 1
      BY <1>4, <3>1, <3>2, Sums, Zenon
    <3> QED
      BY <3>1, <3>3, Zenon
  <2> QED
    BY <2>2, <2>3
<1>13. c + 1 + Len(s) + 1 = Off(Parts(p))[i]
  <2>1. PICK x \in Nat : x = Len(s)
    BY <1>6
  <2>2. Off(Parts(p))[i] = c + (x + 2)
    BY <1>1, <1>4, <1>6, <2>1, Zenon
  <2>3. c + 1 + x + 1 = c + (x + 2)
    BY <1>4, <2>1, Sums, Zenon
  <2> QED
    BY <2>1, <2>2, <2>3, Zenon
<1>14. CaseStarts(p, F, i, c + 1)
  <2>1. PICK e \in Nat : e = c + 1 + Len(s) + 1
    BY <1>4, <1>6
  <2>2. Ends(TokenOf(F, e))
    BY <1>12, <2>1 DEF Ends, TokenOf
  <2>3. AfterCases(p, F, i, e)
    BY <1>13, <2>1 DEF AfterCases
  <2>4. c + 1 \in Nat /\ Within(F, c + 1, CaseTokens(p[i]))
    BY <1>4, <1>6, <1>10
  <2> QED
    BY <1>6, <2>1, <2>2, <2>3, <2>4, Zenon DEF CaseStarts
<1> QED
  BY <1>4, <1>11, <1>14

LEMMA SoleCase ==
  ASSUME NEW p \in Seq(WrittenCases), NEW F \in Seq(Tokens), Len(p) = 1, F = CaseTokens(p[1])
  PROVE  CaseStarts(p, F, 1, 0)
<1>1. Len(F) \in Nat
  OBVIOUS
<1>2. Within(F, 0, F)
  BY DEF Within
<1>3. PICK x, e : x \in Nat /\ x = Len(F) /\ e = 0 + x + 1
  BY <1>1
<1>4. e = Len(F) + 1 /\ e \notin 1..Len(F)
  BY <1>3
<1>5. Ends(TokenOf(F, e))
  BY <1>4 DEF TokenOf, Ends
<1>6. AfterCases(p, F, 1, e)
  BY <1>4 DEF AfterCases
<1>7. 1 \in 1..Len(p) /\ 0 \in Nat
  OBVIOUS
<1>8. e = 0 + Len(CaseTokens(p[1])) + 1 /\ Within(F, 0, CaseTokens(p[1]))
  BY <1>2, <1>3, Zenon
<1> QED
  BY <1>5, <1>6, <1>7, <1>8, Zenon DEF CaseStarts

(* What a case begins with.                                                 *)
LEMMA CaseBegins ==
  ASSUME NEW w \in WrittenCases, NEW s, s = CaseTokens(w)
  PROVE  /\ s = <<>> => ~w.noarg /\ w.d = <<>>
         /\ s # <<>> => s[1] \in TypeTokens \cup {"("}
         /\ s = <<"%0">> => w.noarg
<1>1. s \in Seq(Tokens) /\ w.noarg \in BOOLEAN /\ Len(w.d) \in Nat /\ w.d \in Seq(Seq(Elems))
      /\ Star(w) \in Seq(Tokens)
  BY CaseFacts
<1>2. CASE w.noarg
  <2>1. PICK a \in Seq(Tokens) : a = ElemTokens(NoArgs) /\ a[1] = "%0" /\ Len(a) \in {1, 2}
    <3>1. ElemTokens(NoArgs) \in Seq(Tokens) /\ ElemTokens(NoArgs)[1] = NoArgs.type /\ Len(ElemTokens(NoArgs)) \in {1, 2}
      BY ElemFacts
    <3>2. NoArgs.type = "%0"
      BY DEF NoArgs, Elem
    <3> QED
      BY <3>1, <3>2
  <2>2. s = a \o Star(w)
    BY <1>2, <2>1, CaseFacts
  <2>3. PICK b \in Seq(Tokens) : b = Star(w)
    BY <1>1
  <2>4. 1 \in 1..Len(a)
    BY <2>1
  <2>5. Len(a \o b) = Len(a) + Len(b) /\ (a \o b)[1] = a[1] /\ Len(b) \in Nat
    BY <2>4, Concatenated
  <2>6. s[1] = "%0" /\ s # <<>>
    <3>1. PICK len \in {1, 2} : len = Len(a)
      BY <2>1
    <3>2. Len(s) # 0
      BY <2>2, <2>3, <2>5, <3>1
    <3> QED
      BY <1>1, <2>1, <2>2, <2>3, <2>5, <3>2
  <2> QED
    BY <1>2, <2>6 DEF TypeTokens
<1>3. CASE ~w.noarg /\ Len(w.d) = 0
  <2>1. w.d = <<>>
    BY <1>1, <1>3
  <2>2. ~w.varlen
    BY <1>3, CaseFacts
  <2>3. FlattenSeq(ArgTokens(w)) = <<>> /\ Star(w) = <<>>
    <3>1. ArgTokens(w) \in Seq(Seq(Tokens)) /\ Len(ArgTokens(w)) = 0
      BY <1>3, CaseFacts
    <3>2. ArgTokens(w) = <<>>
      BY <3>1
    <3> QED
      BY <2>2, <3>2 DEF FlattenSeq, Star
  <2>4. s = <<>> \o <<>>
    BY <1>3, <2>3, CaseFacts
  <2>5. s = <<>>
    BY <2>4
  <2> QED
    BY <1>3, <2>1, <2>5
<1>4. CASE ~w.noarg /\ Len(w.d) # 0
  <2>1. Within(s, 0, CaseTokens(w))
    BY DEF Within
  <2>2. PICK off : off = Off(ArgTokens(w))
    OBVIOUS
  <2>3. 1 \in 1..Len(w.d) /\ 0 \in Nat
    BY <1>1, <1>4
  <2>4. off[0] = 0 /\ Within(s, 0 + off[1 - 1], GroupTokens(w.d[1]))
    BY <1>4, <2>1, <2>2, <2>3, CaseWithin
  <2>5. Within(s, 0, GroupTokens(w.d[1]))
    BY <2>4
  <2>6. w.d[1] \in Seq(Elems) /\ w.d[1] # <<>>
    BY <2>3, CaseFacts
  <2>7. Len(GroupTokens(w.d[1])) \in Nat \ {0} /\ GroupTokens(w.d[1])[1] \in (TypeTokens \ {"%0"}) \cup {"("}
    BY <2>6, GroupFacts
  <2>8. 0 + 1 \in 1..Len(s) /\ s[0 + 1] = GroupTokens(w.d[1])[1]
    <3>1. 1 \in 1..Len(GroupTokens(w.d[1]))
      BY <2>7
    <3> QED
      BY <2>5, <3>1 DEF Within
  <2>9. s[1] \in (TypeTokens \ {"%0"}) \cup {"("} /\ s # <<>>
    BY <1>1, <2>7, <2>8
  <2>10. s[1] # "%0"
    BY <2>9
  <2> QED
    BY <2>9, <2>10
<1> QED
  BY <1>1, <1>2, <1>3, <1>4

-----------------------------------------------------------------------------
(* What is compiled, next to what was written. *)

AnyElems == [type : TypeTokens, bytes : ByteMarks \cup {""}, tname : {"", "t"}]
CompiledCases == [d : Seq(Seq(AnyElems)), noarg : BOOLEAN, varlen : BOOLEAN]

AlikeGroup(g, h, n) ==
  g \in Seq(AnyElems) /\ Len(g) = n /\ \A j \in 1..n : AlikeElem(g[j], h[j])
AlikeArgs(d, h, n) ==
  d \in Seq(Seq(AnyElems)) /\ Len(d) = n /\ \A j \in 1..n : AlikeGroup(d[j], h[j], Len(h[j]))
AlikeCase(c, w) ==
  c \in CompiledCases /\ c.noarg = w.noarg /\ c.varlen = w.varlen /\ AlikeArgs(c.d, w.d, Len(w.d))
AlikeCases(d, p, n) ==
  d \in Seq(CompiledCases) /\ Len(d) = n /\ \A i \in 1..n : AlikeCase(d[i], p[i])

LEMMA Appended ==
  ASSUME NEW T, NEW s \in Seq(T), NEW x \in T, NEW n, n = Len(s)
  PROVE  /\ Append(s, x) \in Seq(T) /\ Len(Append(s, x)) = n + 1 /\ n \in Nat
         /\ \A i \in 1..n : Append(s, x)[i] = s[i]
         /\ Append(s, x)[n + 1] = x
         /\ \A i \in 1..n + 1 : i \in 1..n \/ i = n + 1
OBVIOUS

LEMMA GroupGrows ==
  ASSUME NEW g, NEW h, NEW n, AlikeGroup(g, h, n), NEW e \in AnyElems, AlikeElem(e, h[n + 1])
  PROVE  AlikeGroup(Append(g, e), h, n + 1)
<1>1. g \in Seq(AnyElems) /\ n = Len(g) /\ \A j \in 1..n : AlikeElem(g[j], h[j])
  BY DEF AlikeGroup
<1>2. /\ Append(g, e) \in Seq(AnyElems) /\ Len(Append(g, e)) = n + 1
      /\ \A i \in 1..n : Append(g, e)[i] = g[i]
      /\ Append(g, e)[n + 1] = e
      /\ \A i \in 1..n + 1 : i \in 1..n \/ i = n + 1
  BY <1>1, Appended
<1> QED
  BY <1>1, <1>2, Zenon DEF AlikeGroup

LEMMA ArgsGrow ==
  ASSUME NEW d, NEW h, NEW n, AlikeArgs(d, h, n), NEW g, AlikeGroup(g, h[n + 1], Len(h[n + 1]))
  PROVE  AlikeArgs(Append(d, g), h, n + 1)
<1>1. d \in Seq(Seq(AnyElems)) /\ n = Len(d) /\ \A j \in 1..n : AlikeGroup(d[j], h[j], Len(h[j]))
  BY DEF AlikeArgs
<1>2. g \in Seq(AnyElems)
  BY DEF AlikeGroup
<1>3. /\ Append(d, g) \in Seq(Seq(AnyElems)) /\ Len(Append(d, g)) = n + 1
      /\ \A i \in 1..n : Append(d, g)[i] = d[i]
      /\ Append(d, g)[n + 1] = g
      /\ \A i \in 1..n + 1 : i \in 1..n \/ i = n + 1
  BY <1>1, <1>2, Appended
<1> QED
  BY <1>1, <1>3, Zenon DEF AlikeArgs

LEMMA CasesGrow ==
  ASSUME NEW d, NEW p, NEW n, AlikeCases(d, p, n), NEW c, AlikeCase(c, p[n + 1])
  PROVE  AlikeCases(Append(d, c), p, n + 1)
<1>1. d \in Seq(CompiledCases) /\ n = Len(d) /\ \A j \in 1..n : AlikeCase(d[j], p[j])
  BY DEF AlikeCases
<1>2. c \in CompiledCases
  BY DEF AlikeCase
<1>3. /\ Append(d, c) \in Seq(CompiledCases) /\ Len(Append(d, c)) = n + 1
      /\ \A i \in 1..n : Append(d, c)[i] = d[i]
      /\ Append(d, c)[n + 1] = c
      /\ \A i \in 1..n + 1 : i \in 1..n \/ i = n + 1
  BY <1>1, <1>2, Appended
<1> QED
  BY <1>1, <1>3, Zenon DEF AlikeCases

LEMMA CompiledElem ==
  ASSUME NEW at, compT(at).ok
  PROVE  compT(at).elem \in AnyElems
BY DEF compT, Elem, AnyElems

-----------------------------------------------------------------------------
(* How far compile is. *)

\* c tokens of the case are read.
CaseRead(w, cs, c) ==
  \/ w.noarg /\ cs = EmptyCase /\ c = 0
  \/ AlikeCase(cs, w) /\ c = Len(CaseTokens(w))
  \/ /\ ~w.noarg /\ ~cs.noarg /\ ~cs.varlen
     /\ \E k \in 0..Len(w.d) - 1 : AlikeArgs(cs.d, w.d, k) /\ c = Off(ArgTokens(w))[k]

\* l alternatives of a group are read, and behind them c tokens of its case.
GroupRead(w, cs, g, c) ==
  /\ ~w.noarg /\ ~cs.noarg /\ ~cs.varlen
  /\ \E k \in 1..Len(w.d) : \E l \in 0..Len(w.d[k]) - 1 :
       /\ Len(w.d[k]) # 1
       /\ AlikeArgs(cs.d, w.d, k - 1) /\ AlikeGroup(g, w.d[k], l)
       /\ c = Off(ArgTokens(w))[k - 1] + 1 + Off(Alternatives(w.d[k]))[l]

Compiling(p, F, d, c) == \E i \in 0..Len(p) : AlikeCases(d, p, i) /\ AfterCases(p, F, i, c)
InCase(p, F, d, cs, at) ==
  \E i, b, c \in Nat :
    /\ CaseStarts(p, F, i, b) /\ AlikeCases(d, p, i - 1)
    /\ CaseRead(p[i], cs, c) /\ at = b + c + 1
InGroup(p, F, d, cs, g, at) ==
  \E i, b, c \in Nat :
    /\ CaseStarts(p, F, i, b) /\ AlikeCases(d, p, i - 1)
    /\ GroupRead(p[i], cs, g, c) /\ at = b + c + 1

\* A prototype that takes no arguments is known as such.
Faithful(pr, p) ==
  /\ ~pr.alwayspass
  /\ \/ pr.noarg /\ Len(p) = 1 /\ p[1].d = <<>>
     \/ ~pr.noarg /\ AlikeCases(pr.d, p, Len(p))

Typed ==
  /\ proto \in [d : Seq(CompiledCases), noarg : BOOLEAN, alwayspass : BOOLEAN]
  /\ case \in CompiledCases

Stages ==
  /\ phase \in {"compile", "case", "group", "compiled"}
  /\ phase # "compiled" => ~proto.noarg /\ ~proto.alwayspass
  /\ phase = "compile" => cursor \in Nat \ {0} /\ Compiling(wanted, descriptor, proto.d, cursor - 1)
  /\ phase = "case" => InCase(wanted, descriptor, proto.d, case, cursor)
  /\ phase = "group" => InGroup(wanted, descriptor, proto.d, case, group, cursor)
  /\ phase = "compiled" => Faithful(proto, wanted)

\* The descriptor of any arguments is known as it is.
Anything ==
  /\ wanted = Always /\ descriptor = <<"%-">>
  /\ phase \in {"compile", "compiled"} /\ (phase = "compiled" => proto.alwayspass)

Compilation == Typed /\ (Anything \/ (Written(wanted, descriptor) /\ Stages))

(* What is ahead in a case.                                                 *)
StartTokens == (TypeTokens \ {"%0"}) \cup {"("}

LEMMA TokenKinds ==
  /\ \A t \in StartTokens : ~Ends(t) /\ t # "{" /\ t # "*" /\ t \notin ByteMarks \cup {"[t]"} /\ t # "%0"
  /\ \A t : Ends(t) => t # "*" /\ t \notin ByteMarks \cup {"[t]"} /\ t # "(" /\ t # "{"
  /\ "%-" \notin Tokens /\ "%-" \notin TypeTokens
BY DEF StartTokens, Ends, TypeTokens, ByteMarks, Tokens

LEMMA Seen ==
  ASSUME NEW F, NEW c \in Nat, NEW s, Within(F, c, s), NEW q \in 1..Len(s)
  PROVE  TokenOf(F, c + q) = s[q] /\ c + q \in 1..Len(F)
BY DEF Within, TokenOf

LEMMA SeenFirst ==
  ASSUME NEW F, NEW c \in Nat, NEW s, Within(F, c, s), Len(s) \in Nat \ {0}
  PROVE  TokenOf(F, c + 1) = s[1]
<1>1. PICK n \in Nat \ {0} : n = Len(s)
  OBVIOUS
<1>2. 1 \in 1..n
  OBVIOUS
<1>3. 1 \in 1..Len(s)
  BY <1>1, <1>2, Zenon
<1>4. c + 1 \in 1..Len(F) /\ F[c + 1] = s[1]
  BY <1>3, Zenon DEF Within
<1> QED
  BY <1>4, Zenon DEF TokenOf

\* The argument behind the first k, and what follows it.
Follows(F, y, w, k) ==
  /\ k < Len(w.d) => TokenOf(F, y + 1) \in StartTokens
  /\ k = Len(w.d) /\ w.varlen => TokenOf(F, y + 1) = "*" /\ Ends(TokenOf(F, y + 2))
  /\ k = Len(w.d) /\ ~w.varlen => Ends(TokenOf(F, y + 1))

CaseAhead(F, b, w) ==
  /\ w \in WrittenCases /\ b \in Nat
  /\ Within(F, b, CaseTokens(w)) /\ Ends(TokenOf(F, b + Len(CaseTokens(w)) + 1))

LEMMA ArgumentAhead ==
  ASSUME NEW F, NEW b, NEW w, CaseAhead(F, b, w), ~w.noarg, NEW off, off = Off(ArgTokens(w)),
         NEW k \in 1..Len(w.d), NEW x, x = b + off[k - 1]
  PROVE  /\ w.d[k] \in Seq(Elems) /\ w.d[k] # <<>>
         /\ off[k] \in Nat /\ off[k - 1] \in Nat /\ off[k] = off[k - 1] + Len(GroupTokens(w.d[k]))
         /\ x \in Nat /\ Within(F, x, GroupTokens(w.d[k]))
         /\ TokenOf(F, x + 1) \in StartTokens
         /\ TokenOf(F, x + 1) = "(" <=> Len(w.d[k]) # 1
<1>1. w \in WrittenCases /\ b \in Nat /\ Within(F, b, CaseTokens(w))
  BY DEF CaseAhead
<1>2. /\ off[k] \in Nat /\ off[k - 1] \in Nat /\ off[k] = off[k - 1] + Len(GroupTokens(w.d[k]))
      /\ Within(F, x, GroupTokens(w.d[k]))
  <2>1. \A j \in 1..Len(w.d) :
          /\ off[j] \in Nat /\ off[j - 1] \in Nat /\ off[j] = off[j - 1] + Len(GroupTokens(w.d[j]))
          /\ Within(F, b + off[j - 1], GroupTokens(w.d[j]))
    BY SMTT(30), <1>1, CaseWithin
  <2> QED
    BY <2>1
<1>3. w.d[k] \in Seq(Elems) /\ w.d[k] # <<>>
  BY <1>1, CaseFacts
<1>4. /\ GroupTokens(w.d[k])[1] \in StartTokens /\ Len(GroupTokens(w.d[k])) \in Nat \ {0}
      /\ Len(w.d[k]) = 1 => GroupTokens(w.d[k])[1] # "("
      /\ Len(w.d[k]) # 1 => GroupTokens(w.d[k])[1] = "("
  BY <1>3, GroupFacts DEF StartTokens
<1>5. x \in Nat
  BY <1>1, <1>2
<1>6. TokenOf(F, x + 1) = GroupTokens(w.d[k])[1]
  BY <1>2, <1>4, <1>5, SeenFirst
<1> QED
  BY <1>2, <1>3, <1>4, <1>5, <1>6, Zenon

LEMMA Following ==
  ASSUME NEW F, NEW b, NEW w, CaseAhead(F, b, w), ~w.noarg, NEW off, off = Off(ArgTokens(w)),
         NEW k \in 0..Len(w.d), NEW y, y = b + off[k]
  PROVE  /\ Follows(F, y, w, k)
         /\ k = Len(w.d) => Len(CaseTokens(w)) = off[k] + (IF w.varlen THEN 1 ELSE 0)
<1>1. w \in WrittenCases /\ b \in Nat /\ Within(F, b, CaseTokens(w)) /\ Ends(TokenOf(F, b + Len(CaseTokens(w)) + 1))
  BY DEF CaseAhead
<1>2. Len(w.d) \in Nat /\ w.varlen \in BOOLEAN
  BY <1>1, CaseFacts
<1>3. PICK n \in Nat : n = Len(w.d)
  BY <1>2
<1>4. /\ off[n] \in Nat /\ Len(CaseTokens(w)) = off[n] + (IF w.varlen THEN 1 ELSE 0)
      /\ w.varlen => b + off[n] + 1 \in 1..Len(F) /\ F[b + off[n] + 1] = "*"
  BY <1>1, <1>3, CaseWithin
<1>5. ASSUME k < n PROVE TokenOf(F, y + 1) \in StartTokens
  <2>1. k + 1 \in 1..Len(w.d) /\ k + 1 - 1 = k
    BY <1>3, <1>5
  <2>2. PICK k1 \in 1..Len(w.d) : k1 = k + 1 /\ k1 - 1 = k
    BY <2>1
  <2>3. TokenOf(F, y + 1) \in StartTokens
    <3>1. y = b + off[k1 - 1]
      BY <2>2
    <3> QED
      BY <3>1, ArgumentAhead
  <2> QED
    BY <2>3
<1>6. ASSUME k = n
      PROVE  /\ w.varlen => TokenOf(F, y + 1) = "*" /\ Ends(TokenOf(F, y + 2))
             /\ ~w.varlen => Ends(TokenOf(F, y + 1))
  <2>1. PICK z \in Nat : z = off[n] /\ y = b + z
    BY <1>4, <1>6
  <2>2. ASSUME w.varlen PROVE TokenOf(F, y + 1) = "*" /\ Ends(TokenOf(F, y + 2))
    <3>1. TokenOf(F, y + 1) = "*"
      BY <1>4, <2>1, <2>2 DEF TokenOf
    <3>2. PICK len : len = Len(CaseTokens(w)) /\ len = z + 1
      BY <1>4, <2>1, <2>2
    <3>3. b + len + 1 = y + 2
      BY <1>1, <2>1, <3>2
    <3>4. Ends(TokenOf(F, y + 2))
      BY <1>1, <3>2, <3>3
    <3> QED
      BY <3>1, <3>4
  <2>3. ASSUME ~w.varlen PROVE Ends(TokenOf(F, y + 1))
    <3>1. PICK len : len = Len(CaseTokens(w)) /\ len = z
      BY SMTT(30), <1>4, <2>1, <2>3
    <3> QED
      BY <1>1, <2>1, <3>1
  <2> QED
    BY <2>2, <2>3
<1>7. Follows(F, y, w, k)
  BY <1>3, <1>5, <1>6, Zenon DEF Follows
<1> QED
  BY <1>3, <1>4, <1>7

LEMMA NoArgsAhead ==
  ASSUME NEW F, NEW b, NEW w, CaseAhead(F, b, w), w.noarg,
         NEW len, len = Len(ElemTokens(NoArgs)), NEW n, n = b + len
  PROVE  /\ len \in Nat /\ n \in Nat /\ Within(F, b, ElemTokens(NoArgs)) /\ TokenOf(F, b + 1) = "%0"
         /\ w.varlen => TokenOf(F, n + 1) = "*" /\ Ends(TokenOf(F, n + 2))
         /\ ~w.varlen => Ends(TokenOf(F, n + 1))
         /\ Len(CaseTokens(w)) = len + (IF w.varlen THEN 1 ELSE 0)
<1>1. w \in WrittenCases /\ b \in Nat /\ Within(F, b, CaseTokens(w)) /\ Ends(TokenOf(F, b + Len(CaseTokens(w)) + 1))
  BY DEF CaseAhead
<1>2. /\ CaseTokens(w) = ElemTokens(NoArgs) \o Star(w) /\ Star(w) \in Seq(Tokens) /\ w.varlen \in BOOLEAN
      /\ w.varlen => Len(Star(w)) = 1 /\ Star(w)[1] = "*"
      /\ ~w.varlen => Len(Star(w)) = 0
  BY <1>1, CaseFacts
<1>3. ElemTokens(NoArgs) \in Seq(Tokens) /\ Len(ElemTokens(NoArgs)) \in {1, 2} /\ ElemTokens(NoArgs)[1] = "%0"
  <2>1. /\ ElemTokens(NoArgs) \in Seq(Tokens) /\ Len(ElemTokens(NoArgs)) \in {1, 2}
        /\ ElemTokens(NoArgs)[1] = NoArgs.type
    BY ElemFacts
  <2>2. NoArgs.type = "%0"
    BY DEF NoArgs, Elem
  <2> QED
    BY <2>1, <2>2
<1>4. PICK a \in Seq(Tokens) : a = ElemTokens(NoArgs) /\ Len(a) = len /\ a[1] = "%0"
  BY <1>3
<1>5. PICK s \in Seq(Tokens) : s = Star(w)
  BY <1>2
<1>6. Within(F, b, a \o s)
  BY <1>1, <1>2, <1>4, <1>5
<1>7. Within(F, b, a) /\ Within(F, b + Len(a), s) /\ Len(a \o s) = Len(a) + Len(s) /\ Len(s) \in Nat
  BY <1>1, <1>6, WithinConcatenated, Concatenated
<1>8. len \in Nat \ {0}
  <2>1. len \in {1, 2}
    BY <1>3
  <2> QED
    BY <2>1
<1>9. n \in Nat /\ Within(F, n, s)
  BY <1>1, <1>4, <1>7, <1>8
<1>10. TokenOf(F, b + 1) = "%0"
  BY <1>1, <1>4, <1>7, <1>8, SeenFirst
<1>11. PICK m, all : m \in Nat /\ m = Len(s) /\ all = Len(CaseTokens(w)) /\ all = len + m
  BY <1>2, <1>4, <1>5, <1>7
<1>12. m = IF w.varlen THEN 1 ELSE 0
  BY <1>2, <1>5, <1>11
<1>13. ASSUME w.varlen PROVE TokenOf(F, n + 1) = "*" /\ Ends(TokenOf(F, n + 2))
  <2>1. Len(s) \in Nat \ {0} /\ s[1] = "*"
    BY <1>2, <1>5, <1>11, <1>12, <1>13
  <2>2. TokenOf(F, n + 1) = "*"
    BY <1>9, <2>1, SeenFirst
  <2>3. b + all + 1 = n + 2
    BY <1>1, <1>8, <1>11, <1>12, <1>13
  <2> QED
    BY <1>1, <1>11, <2>2, <2>3
<1>14. ASSUME ~w.varlen PROVE Ends(TokenOf(F, n + 1))
  <2>1. b + all + 1 = n + 1
    BY <1>1, <1>8, <1>11, <1>12, <1>14
  <2> QED
    BY <1>1, <1>11, <2>1
<1>15. Len(CaseTokens(w)) = len + (IF w.varlen THEN 1 ELSE 0)
  BY <1>11, <1>12
<1> QED
  BY <1>4, <1>7, <1>8, <1>9, <1>10, <1>13, <1>14, <1>15

-----------------------------------------------------------------------------
(* The steps. *)

LEMMA TokenIs ==
  ASSUME descriptor \in Seq(Tokens)
  PROVE  \A x : Token(x) = TokenOf(descriptor, x)
<1>1. DOMAIN descriptor = 1..Len(descriptor)
  OBVIOUS
<1> QED
  BY <1>1 DEF Token, TokenOf

\* Where a case may end.
LEMMA CaseEnds ==
  ASSUME NEW F, NEW b, NEW w, CaseAhead(F, b, w), NEW cs, NEW c, CaseRead(w, cs, c), NEW at, at = b + c + 1
  PROVE  Ends(TokenOf(F, at)) <=> c = Len(CaseTokens(w)) /\ AlikeCase(cs, w)
<1>1. CASE AlikeCase(cs, w) /\ c = Len(CaseTokens(w))
  BY <1>1 DEF CaseAhead
<1>2. CASE w.noarg /\ cs = EmptyCase /\ c = 0
  <2>1. TokenOf(F, b + 1) = "%0" /\ b \in Nat
    BY <1>2, NoArgsAhead DEF CaseAhead
  <2>2. at = b + 1
    BY <1>2, <2>1
  <2>3. ~AlikeCase(cs, w)
    BY <1>2 DEF AlikeCase, EmptyCase
  <2> QED
    BY <2>1, <2>2, <2>3 DEF Ends
<1>3. CASE ~w.noarg /\ \E k \in 0..Len(w.d) - 1 : AlikeArgs(cs.d, w.d, k) /\ c = Off(ArgTokens(w))[k]
  <2>1. PICK k \in 0..Len(w.d) - 1 : AlikeArgs(cs.d, w.d, k) /\ c = Off(ArgTokens(w))[k]
    BY <1>3
  <2>2. Len(w.d) \in Nat
    BY CaseFacts DEF CaseAhead
  <2>3. k \in 0..Len(w.d) /\ k < Len(w.d) /\ k # Len(w.d)
    BY <2>2
  <2>4. PICK y : y = b + c
    OBVIOUS
  <2>5. TokenOf(F, y + 1) \in StartTokens
    BY <1>3, <2>1, <2>3, <2>4, Following DEF Follows
  <2>6. ~AlikeCase(cs, w)
    <3>1. ASSUME AlikeCase(cs, w) PROVE FALSE
      <4>1. Len(cs.d) = Len(w.d) /\ Len(cs.d) = k
        BY <2>1, <3>1 DEF AlikeCase, AlikeArgs
      <4> QED
        BY <2>3, <4>1
    <3> QED
      BY <3>1
  <2> QED
    BY <2>4, <2>5, <2>6, TokenKinds
<1> QED
  BY <1>1, <1>2, <1>3 DEF CaseRead

ReadTo(b, w, cs, at) == \E c \in Nat : at = b + c + 1 /\ CaseRead(w, cs, c)

\* An argument that is read as it was written, in a case with arguments.
LEMMA ReadsArgument ==
  ASSUME descriptor \in Seq(Tokens), NEW b, NEW w, CaseAhead(descriptor, b, w), ~w.noarg,
         NEW cs \in CompiledCases, ~cs.noarg, ~cs.varlen,
         NEW k \in 1..Len(w.d), AlikeArgs(cs.d, w.d, k - 1),
         NEW at, at = b + Off(ArgTokens(w))[k - 1] + 1, Token(at) # "(",
         NEW t, t = compT(at)
  PROVE  /\ t.ok /\ t.elem \in AnyElems /\ t.elem.type # "%0"
         /\ ReadTo(b, w, [d |-> Append(cs.d, <<t.elem>>), noarg |-> FALSE, varlen |-> t.vlen], t.behind)
<1> DEFINE off == Off(ArgTokens(w))
           h == w.d[k]
<1>1. w \in WrittenCases /\ b \in Nat
  BY DEF CaseAhead
<1>2. Len(w.d) \in Nat /\ w.varlen \in BOOLEAN /\ (w.varlen => Len(w.d) > 0 /\ Len(w.d[Len(w.d)]) = 1)
  BY <1>1, CaseFacts
<1>3. PICK x : x = b + off[k - 1]
  OBVIOUS
<1>4. /\ h \in Seq(Elems) /\ h # <<>> /\ off[k] \in Nat /\ off[k - 1] \in Nat
      /\ off[k] = off[k - 1] + Len(GroupTokens(h))
      /\ x \in Nat /\ Within(descriptor, x, GroupTokens(h))
      /\ TokenOf(descriptor, x + 1) = "(" <=> Len(h) # 1
  BY <1>3, ArgumentAhead
<1>5. Len(h) = 1
  BY <1>3, <1>4, TokenIs
<1>6. PICK e \in Elems : e = h[1]
  BY <1>4, <1>5
<1>7. GroupTokens(h) = ElemTokens(e)
  BY <1>5, <1>6 DEF GroupTokens
<1>8. PICK n : n = x + Len(ElemTokens(e))
  OBVIOUS
<1>9. n = b + off[k]
  <2>1. PICK u \in Nat, v \in Nat : u = off[k - 1] /\ v = off[k]
    BY <1>4
  <2>2. PICK len : len = Len(ElemTokens(e)) /\ v = u + len
    BY <1>4, <1>7, <2>1
  <2>3. Len(ElemTokens(e)) \in {1, 2}
    BY <1>6, ElemFacts
  <2>4. len \in {1, 2}
    BY <2>2, <2>3, Zenon
  <2>5. x = b + u /\ n = x + len
    BY <1>3, <1>8, <2>1, <2>2, Zenon
  <2>6. n = b + v
    BY <1>1, <2>1, <2>2, <2>4, <2>5
  <2> QED
    BY <2>1, <2>6
<1>10. /\ Follows(descriptor, n, w, k)
       /\ k = Len(w.d) => Len(CaseTokens(w)) = off[k] + (IF w.varlen THEN 1 ELSE 0)
  <2>1. k \in 0..Len(w.d)
    BY <1>2
  <2> QED
    BY <1>9, <2>1, Following
<1>11. k < Len(w.d) \/ k = Len(w.d)
  BY <1>2
<1>12. n \in Nat
  BY <1>1, <1>4, <1>9
<1> HIDE DEF off, h
<1>13. PICK next : next = Token(n + 1)
  OBVIOUS
<1>14. next \notin ByteMarks \cup {"[t]"}
  BY <1>2, <1>10, <1>11, <1>13, TokenIs, TokenKinds DEF Follows, ByteMarks
<1>15. next = "*" => Ends(Token(n + 2))
  BY <1>2, <1>10, <1>11, <1>13, TokenIs, TokenKinds DEF Follows
<1>16. next = "*" <=> k = Len(w.d) /\ w.varlen
  BY <1>2, <1>10, <1>11, <1>13, TokenIs, TokenKinds DEF Follows
<1>17. /\ t.ok /\ AlikeElem(t.elem, e) /\ (t.vlen <=> next = "*")
       /\ t.behind = n + 1 + (IF next = "*" THEN 1 ELSE 0)
  <2>1. at = x + 1 /\ Within(descriptor, x, ElemTokens(e)) /\ x \in Nat
    BY <1>3, <1>4, <1>7 DEF off
  <2> QED
    BY <1>8, <1>13, <1>14, <1>15, <2>1, Compiles
<1>18. t.elem \in AnyElems
  BY <1>17, CompiledElem
<1>19. t.elem.type # "%0"
  BY <1>6, <1>17 DEF AlikeElem, Elems
<1>20. t.vlen \in BOOLEAN
  BY DEF compT
<1>21. PICK r : r = [d |-> Append(cs.d, <<t.elem>>), noarg |-> FALSE, varlen |-> t.vlen]
  OBVIOUS
<1>22. AlikeArgs(r.d, w.d, k)
  <2>1. AlikeGroup(<<t.elem>>, h, Len(h))
    <3>1. PICK g \in Seq(AnyElems) : g = <<t.elem>> /\ Len(g) = 1 /\ g[1] = t.elem
      BY <1>18, ShortSequences
    <3>2. \A j \in 1..1 : j = 1
      OBVIOUS
    <3>3. AlikeGroup(g, h, 1)
      BY <1>6, <1>17, <3>1, <3>2 DEF AlikeGroup
    <3> QED
      BY <1>5, <3>1, <3>3
  <2>2. AlikeArgs(Append(cs.d, <<t.elem>>), w.d, k - 1 + 1)
    <3>1. PICK m : m = k - 1 /\ m + 1 = k
      OBVIOUS
    <3>2. AlikeArgs(cs.d, w.d, m) /\ AlikeGroup(<<t.elem>>, w.d[m + 1], Len(w.d[m + 1]))
      BY <2>1, <3>1 DEF h
    <3>3. AlikeArgs(Append(cs.d, <<t.elem>>), w.d, m + 1)
      BY <3>2, ArgsGrow
    <3> QED
      BY <3>1, <3>3
  <2>3. k - 1 + 1 = k
    OBVIOUS
  <2> QED
    BY <1>21, <2>2, <2>3
<1>23. r \in CompiledCases
  BY <1>20, <1>21, <1>22 DEF AlikeArgs, CompiledCases
<1>24. CASE k = Len(w.d)
  <2>1. AlikeCase(r, w)
    <3>1. r.noarg = w.noarg
      <4>1. w.noarg \in BOOLEAN
        BY <1>1, CaseFacts
      <4> QED
        BY <1>21, <4>1
    <3>2. r.varlen = w.varlen
      BY <1>2, <1>16, <1>17, <1>20, <1>21, <1>24
    <3> QED
      BY <1>22, <1>23, <1>24, <3>1, <3>2 DEF AlikeCase
  <2>2. PICK c : c = Len(CaseTokens(w))
    OBVIOUS
  <2>3. c \in Nat /\ t.behind = b + c + 1
    <3>1. PICK v \in Nat : v = off[k]
      BY <1>4 DEF off
    <3>2. c = v + (IF w.varlen THEN 1 ELSE 0) /\ n = b + v
      BY <1>9, <1>10, <1>24, <2>2, <3>1 DEF off
    <3>3. t.behind = n + 1 + (IF w.varlen THEN 1 ELSE 0)
      BY <1>16, <1>17, <1>24
    <3> QED
      BY SMTT(30), <1>1, <1>2, <3>1, <3>2, <3>3
  <2>4. CaseRead(w, r, c)
    BY <2>1, <2>2 DEF CaseRead
  <2> QED
    BY <1>17, <1>18, <1>19, <1>21, <2>3, <2>4 DEF ReadTo
<1>25. CASE k # Len(w.d)
  <2>1. k \in 0..Len(w.d) - 1
    BY <1>2, <1>25
  <2>2. ~r.varlen /\ ~r.noarg
    BY <1>16, <1>17, <1>21, <1>25
  <2>3. CaseRead(w, r, off[k])
    BY <1>22, <2>1, <2>2 DEF CaseRead, off
  <2>4. off[k] \in Nat /\ t.behind = b + off[k] + 1
    <3>1. PICK v \in Nat : v = off[k]
      BY <1>4 DEF off
    <3>2. n = b + v
      BY <1>9, <3>1 DEF off
    <3>3. t.behind = n + 1 + 0
      BY <1>16, <1>17, <1>25
    <3>4. t.behind = b + v + 1
      BY <1>1, <3>1, <3>2, <3>3
    <3> QED
      BY <3>1, <3>4
  <2> QED
    BY <1>17, <1>18, <1>19, <1>21, <2>3, <2>4 DEF ReadTo
<1> QED
  BY <1>24, <1>25

\* A case without arguments.
LEMMA ReadsNoArgs ==
  ASSUME descriptor \in Seq(Tokens), NEW b, NEW w, CaseAhead(descriptor, b, w), w.noarg,
         NEW at, at = b + 1, NEW t, t = compT(at)
  PROVE  /\ t.ok /\ t.elem.type = "%0"
         /\ ReadTo(b, w, [d |-> <<>>, noarg |-> TRUE, varlen |-> t.vlen], t.behind)
<1>1. w \in WrittenCases /\ b \in Nat
  BY DEF CaseAhead
<1>2. w.varlen \in BOOLEAN /\ w.d = <<>>
  BY <1>1, CaseFacts
<1>3. PICK len, n : len = Len(ElemTokens(NoArgs)) /\ n = b + len
  OBVIOUS
<1>4. /\ len \in Nat /\ n \in Nat /\ Within(descriptor, b, ElemTokens(NoArgs))
      /\ w.varlen => TokenOf(descriptor, n + 1) = "*" /\ Ends(TokenOf(descriptor, n + 2))
      /\ ~w.varlen => Ends(TokenOf(descriptor, n + 1))
      /\ Len(CaseTokens(w)) = len + (IF w.varlen THEN 1 ELSE 0)
  BY <1>3, NoArgsAhead
<1>5. PICK next : next = Token(n + 1)
  OBVIOUS
<1>6. next \notin ByteMarks \cup {"[t]"}
  BY <1>2, <1>4, <1>5, TokenIs, TokenKinds DEF ByteMarks
<1>7. next = "*" => Ends(Token(n + 2))
  BY <1>2, <1>4, <1>5, TokenIs, TokenKinds
<1>8. next = "*" <=> w.varlen
  BY <1>2, <1>4, <1>5, TokenIs, TokenKinds
<1>9. /\ t.ok /\ AlikeElem(t.elem, NoArgs) /\ (t.vlen <=> next = "*")
      /\ t.behind = n + 1 + (IF next = "*" THEN 1 ELSE 0)
  <2>1. PICK e : e = NoArgs
    OBVIOUS
  <2>2. Within(descriptor, b, ElemTokens(e)) /\ n = b + Len(ElemTokens(e)) /\ (e \in Elems \/ e = NoArgs)
    BY <1>3, <1>4, <2>1
  <2> QED
    BY ZenonT(30), <1>1, <1>5, <1>6, <1>7, <2>1, <2>2, Compiles
<1>10. t.elem.type = "%0"
  BY <1>9 DEF AlikeElem, NoArgs, Elem
<1>11. t.vlen \in BOOLEAN
  BY DEF compT
<1>12. PICK r : r = [d |-> <<>>, noarg |-> TRUE, varlen |-> t.vlen]
  OBVIOUS
<1>13. AlikeCase(r, w)
  <2>1. r \in CompiledCases /\ r.varlen = w.varlen /\ r.noarg = w.noarg
    <3>1. w.noarg \in BOOLEAN
      BY <1>1, CaseFacts
    <3>2. r.varlen = w.varlen
      BY <1>2, <1>8, <1>9, <1>11, <1>12
    <3>3. r.noarg = w.noarg
      BY <1>12, <3>1
    <3>4. r \in CompiledCases
      <4>1. <<>> \in Seq(Seq(AnyElems))
        OBVIOUS
      <4> QED
        BY <1>11, <1>12, <4>1 DEF CompiledCases
    <3> QED
      BY <3>2, <3>3, <3>4
  <2>2. AlikeArgs(r.d, w.d, Len(w.d))
    <3>1. AlikeArgs(<<>>, w.d, 0)
      BY DEF AlikeArgs
    <3>2. Len(w.d) = 0 /\ r.d = <<>>
      BY <1>2, <1>12
    <3> QED
      BY <3>1, <3>2
  <2> QED
    BY <2>1, <2>2 DEF AlikeCase
<1>14. PICK c : c = Len(CaseTokens(w))
  OBVIOUS
<1>15. CaseRead(w, r, c)
  BY <1>13, <1>14 DEF CaseRead
<1>16. c \in Nat /\ t.behind = b + c + 1
  BY <1>1, <1>2, <1>3, <1>4, <1>8, <1>9, <1>14
<1> QED
  BY <1>9, <1>10, <1>12, <1>15, <1>16 DEF ReadTo

GroupReadTo(b, w, cs, g, at) == \E c \in Nat : at = b + c + 1 /\ GroupRead(w, cs, g, c)

\* An alternative of a group.
AlternativeRead(b, w, cs, g, t) ==
  /\ t.ok /\ ~t.vlen /\ t.elem \in AnyElems /\ t.elem.type # "%0"
  /\ Token(t.behind) = "|" \/ Token(t.behind) = ")"
  /\ Token(t.behind) = "|" => GroupReadTo(b, w, cs, Append(g, t.elem), t.behind + 1)
  /\ Token(t.behind) # "|" => ReadTo(b, w, [cs EXCEPT !.d = Append(@, Append(g, t.elem))], t.behind + 1)

LEMMA ReadsAlternative ==
  ASSUME descriptor \in Seq(Tokens), NEW b, NEW w, CaseAhead(descriptor, b, w), ~w.noarg,
         NEW cs \in CompiledCases, ~cs.noarg, ~cs.varlen,
         NEW k \in 1..Len(w.d), AlikeArgs(cs.d, w.d, k - 1), NEW h, h = w.d[k], Len(h) # 1,
         NEW l \in 1..Len(h), NEW g, AlikeGroup(g, h, l - 1),
         NEW at, at = b + (Off(ArgTokens(w))[k - 1] + 1 + Off(Alternatives(h))[l - 1]) + 1,
         NEW t, t = compT(at)
  PROVE  AlternativeRead(b, w, cs, g, t)
<1>1. w \in WrittenCases /\ b \in Nat
  BY DEF CaseAhead
<1>2. /\ Len(w.d) \in Nat /\ w.varlen \in BOOLEAN /\ (w.varlen => Len(w.d[Len(w.d)]) = 1)
      /\ w.noarg \in BOOLEAN
  BY <1>1, CaseFacts
<1>3. PICK off : off = Off(ArgTokens(w))
  OBVIOUS
<1>4. PICK x : x = b + off[k - 1]
  OBVIOUS
<1>5. /\ h \in Seq(Elems) /\ h # <<>> /\ off[k] \in Nat /\ off[k - 1] \in Nat
      /\ off[k] = off[k - 1] + Len(GroupTokens(h))
      /\ x \in Nat /\ Within(descriptor, x, GroupTokens(h))
  BY <1>3, <1>4, ArgumentAhead
<1>6. PICK offA : offA = Off(Alternatives(h))
  OBVIOUS
<1>7. /\ offA[0] = 0 /\ Len(GroupTokens(h)) = 1 + offA[Len(h)]
      /\ \A i \in 1..Len(h) :
           /\ offA[i] \in Nat /\ offA[i - 1] \in Nat
           /\ offA[i] = offA[i - 1] + Len(ElemTokens(h[i])) + 1
           /\ Within(descriptor, x + 1 + offA[i - 1], ElemTokens(h[i]))
           /\ x + 1 + offA[i] \in 1..Len(descriptor)
           /\ descriptor[x + 1 + offA[i]] = IF i = Len(h) THEN ")" ELSE "|"
  <2>1. Placed(descriptor, x, h, offA)
    BY <1>5, <1>6, GroupWithin
  <2> QED
    BY <2>1, Zenon DEF Placed
<1>8. PICK e \in Elems : e = h[l]
  BY SMTT(30), <1>5
<1>9. PICK u \in Nat, v \in Nat, p \in Nat, q \in Nat :
         u = off[k - 1] /\ v = off[k] /\ p = offA[l - 1] /\ q = offA[l]
  BY <1>5, <1>7
<1>10. PICK len \in {1, 2} : len = Len(ElemTokens(e))
  BY <1>8, ElemFacts
<1>11. /\ q = p + len + 1 /\ Within(descriptor, x + 1 + p, ElemTokens(e))
       /\ TokenOf(descriptor, x + 1 + q) = IF l = Len(h) THEN ")" ELSE "|"
  BY <1>7, <1>8, <1>9, <1>10 DEF TokenOf
<1>12. x = b + u /\ at = b + (u + 1 + p) + 1
  BY <1>3, <1>4, <1>6, <1>9
<1>13. PICK m \in Nat, n \in Nat : m = x + 1 + p /\ n = m + len /\ at = m + 1 /\ n + 1 = x + 1 + q
  BY SMTT(30), <1>1, <1>11, <1>12
<1>14. PICK next : next = Token(n + 1) /\ next = IF l = Len(h) THEN ")" ELSE "|"
  BY <1>11, <1>13, TokenIs
<1>15. next \notin ByteMarks \cup {"[t]"} /\ next # "*"
  BY <1>14 DEF ByteMarks
<1>16. /\ t.ok /\ AlikeElem(t.elem, e) /\ (t.vlen <=> next = "*")
       /\ t.behind = n + 1 + (IF next = "*" THEN 1 ELSE 0)
  <2>1. Within(descriptor, m, ElemTokens(e)) /\ n = m + Len(ElemTokens(e))
    BY <1>10, <1>11, <1>13
  <2> QED
    BY <1>13, <1>14, <1>15, <2>1, Compiles
<1>17. t.elem \in AnyElems /\ t.elem.type # "%0"
  BY <1>8, <1>16, CompiledElem DEF AlikeElem, Elems
<1>18. ~t.vlen /\ t.behind = n + 1 /\ Token(t.behind) = next
  <2>1. t.behind = n + 1 + 0
    BY <1>15, <1>16
  <2>2. t.behind = n + 1
    BY <2>1
  <2> QED
    BY <1>14, <1>15, <1>16, <2>2
<1>19. AlikeGroup(Append(g, t.elem), h, l)
  <2>1. PICK j : j = l - 1 /\ j + 1 = l
    OBVIOUS
  <2>2. AlikeGroup(Append(g, t.elem), h, j + 1)
    BY <1>8, <1>16, <1>17, <2>1, GroupGrows
  <2> QED
    BY <2>1, <2>2
<1>20. Len(h) \in Nat
  BY <1>5
<1>21. CASE l # Len(h)
  <2>1. next = "|"
    BY <1>14, <1>21
  <2>2. PICK c \in Nat : c = u + 1 + q
    OBVIOUS
  <2>3. t.behind + 1 = b + c + 1
    BY <1>1, <1>12, <1>13, <1>18, <2>2
  <2>4. l \in 0..Len(w.d[k]) - 1 /\ Len(w.d[k]) # 1
    BY <1>20, <1>21
  <2>5. c = Off(ArgTokens(w))[k - 1] + 1 + Off(Alternatives(w.d[k]))[l]
    BY <1>3, <1>6, <1>9, <2>2
  <2>6. GroupRead(w, cs, Append(g, t.elem), c)
    BY <1>19, <2>4, <2>5 DEF GroupRead
  <2> QED
    BY <1>14, <1>16, <1>17, <1>18, <2>1, <2>3, <2>6 DEF GroupReadTo, AlternativeRead
<1>22. CASE l = Len(h)
  <2>1. next = ")"
    BY <1>14, <1>22
  <2>2. PICK r : r = [cs EXCEPT !.d = Append(@, Append(g, t.elem))]
    OBVIOUS
  <2>3. r.d = Append(cs.d, Append(g, t.elem)) /\ ~r.noarg /\ ~r.varlen /\ r.noarg = FALSE /\ r.varlen = FALSE
    BY <2>2 DEF CompiledCases
  <2>4. AlikeArgs(r.d, w.d, k)
    <3>1. PICK j : j = k - 1 /\ j + 1 = k
      OBVIOUS
    <3>2. AlikeArgs(cs.d, w.d, j) /\ AlikeGroup(Append(g, t.elem), w.d[j + 1], Len(w.d[j + 1]))
      BY <1>19, <1>22, <3>1
    <3>3. AlikeArgs(Append(cs.d, Append(g, t.elem)), w.d, j + 1)
      BY <3>2, ArgsGrow
    <3> QED
      BY <2>3, <3>1, <3>3
  <2>5. r \in CompiledCases
    BY <2>2, <2>3, <2>4 DEF AlikeArgs, CompiledCases
  <2>6. v = u + (1 + q) /\ t.behind + 1 = b + v + 1
    <3>1. v = u + (1 + q)
      BY <1>5, <1>7, <1>9, <1>22
    <3>2. PICK y : y = t.behind
      OBVIOUS
    <3>3. y = x + 1 + q /\ x = b + u
      BY <1>12, <1>13, <1>18, <3>2, Zenon
    <3>4. y + 1 = b + v + 1
      BY <1>1, <3>1, <3>3
    <3> QED
      BY <3>1, <3>2, <3>4, Zenon
  <2>7. CaseRead(w, r, v)
    <3>1. CASE k = Len(w.d)
      <4>1. ~w.varlen
        BY <1>2, <3>1
      <4>2. Len(CaseTokens(w)) = v
        <5>1. k \in 0..Len(w.d)
          BY <1>2
        <5>2. Len(CaseTokens(w)) = off[k] + (IF w.varlen THEN 1 ELSE 0)
          BY <1>3, <3>1, <5>1, Following
        <5> QED
          BY <1>9, <4>1, <5>2
      <4>3. AlikeCase(r, w)
        BY <1>2, <2>3, <2>4, <2>5, <3>1, <4>1 DEF AlikeCase
      <4> QED
        BY <4>2, <4>3 DEF CaseRead
    <3>2. CASE k # Len(w.d)
      <4>1. k \in 0..Len(w.d) - 1
        BY <1>2, <3>2
      <4> QED
        BY <1>3, <1>9, <2>3, <2>4, <4>1 DEF CaseRead
    <3> QED
      BY <3>1, <3>2
  <2>8. next # "|"
    BY <2>1
  <2> QED
    BY <1>14, <1>16, <1>17, <1>18, <2>1, <2>2, <2>6, <2>7, <2>8 DEF ReadTo, AlternativeRead
<1> QED
  BY <1>21, <1>22

LEMMA StartsAhead ==
  ASSUME NEW p, NEW F, Written(p, F), NEW i, NEW b, CaseStarts(p, F, i, b)
  PROVE  /\ CaseAhead(F, b, p[i]) /\ i \in 1..Len(p) /\ b \in Nat /\ Len(p) \in Nat
         /\ AfterCases(p, F, i, b + Len(CaseTokens(p[i])) + 1) /\ Len(CaseTokens(p[i])) \in Nat
<1>1. p \in Seq(WrittenCases)
  BY DEF Written
<1>2. /\ i \in 1..Len(p) /\ b \in Nat /\ Within(F, b, CaseTokens(p[i]))
      /\ Ends(TokenOf(F, b + Len(CaseTokens(p[i])) + 1))
      /\ AfterCases(p, F, i, b + Len(CaseTokens(p[i])) + 1)
  BY Zenon DEF CaseStarts
<1>3. p[i] \in WrittenCases /\ Len(CaseTokens(p[i])) \in Nat /\ Len(p) \in Nat
  BY <1>1, <1>2, PartFacts
<1> QED
  BY <1>2, <1>3, Zenon DEF CaseAhead

LEMMA EmptyCaseRead ==
  ASSUME NEW F, NEW b, NEW w, CaseAhead(F, b, w)
  PROVE  CaseRead(w, EmptyCase, 0) /\ EmptyCase \in CompiledCases
<1>1. w \in WrittenCases
  BY DEF CaseAhead
<1>2. /\ Len(w.d) \in Nat /\ w.varlen \in BOOLEAN /\ w.noarg \in BOOLEAN /\ (w.varlen /\ ~w.noarg => Len(w.d) > 0)
  BY <1>1, CaseFacts
<1>3. EmptyCase \in CompiledCases /\ EmptyCase.d = <<>> /\ EmptyCase.noarg = FALSE /\ EmptyCase.varlen = FALSE
  BY DEF EmptyCase, CompiledCases
<1>4. CASE w.noarg
  BY <1>3, <1>4 DEF CaseRead
<1>5. CASE ~w.noarg
  <2>1. PICK off : off = Off(ArgTokens(w))
    OBVIOUS
  <2>2. off[0] = 0
    BY <1>1, <1>5, <2>1, CaseWithin DEF CaseAhead
  <2>3. AlikeArgs(EmptyCase.d, w.d, 0)
    BY <1>3 DEF AlikeArgs
  <2>4. CASE Len(w.d) = 0
    <3>1. Len(CaseTokens(w)) = off[0] + (IF w.varlen THEN 1 ELSE 0)
      <4>1. 0 \in 0..Len(w.d)
        BY <2>4
      <4>2. PICK k, y : k \in 0..Len(w.d) /\ k = 0 /\ y = b + off[k]
        BY <4>1
      <4> QED
        BY <1>5, <2>1, <2>4, <4>2, Following
    <3>2. ~w.varlen /\ w.noarg = FALSE /\ w.varlen = FALSE
      BY <1>2, <1>5, <2>4
    <3>3. Len(CaseTokens(w)) = 0
      BY <2>2, <3>1, <3>2
    <3>4. AlikeCase(EmptyCase, w)
      BY <1>3, <2>3, <2>4, <3>2 DEF AlikeCase
    <3> QED
      BY <1>3, <3>3, <3>4 DEF CaseRead
  <2>5. CASE Len(w.d) # 0
    <3>1. 0 \in 0..Len(w.d) - 1
      BY <1>2, <2>5
    <3> QED
      BY <1>3, <1>5, <2>1, <2>2, <2>3, <3>1 DEF CaseRead
  <2> QED
    BY <2>4, <2>5
<1> QED
  BY <1>2, <1>4, <1>5

LEMMA StartKeeps ==
  ASSUME Typed, Written(wanted, descriptor), Stages, StartCase
  PROVE  Typed' /\ Stages'
<1> DEFINE p == wanted
           F == descriptor
<1>1. /\ phase = "compile" /\ ~Known /\ cursor <= Len(F)
      /\ cursor' = IF Token(cursor) = "{" THEN cursor + 1 ELSE cursor
      /\ case' = EmptyCase /\ phase' = "case" /\ UNCHANGED <<wanted, descriptor, proto, group>>
  BY DEF StartCase
<1>2. cursor \in Nat \ {0} /\ Compiling(p, F, proto.d, cursor - 1) /\ ~proto.noarg /\ ~proto.alwayspass
  BY <1>1 DEF Stages
<1>3. PICK i \in 0..Len(p) : AlikeCases(proto.d, p, i) /\ AfterCases(p, F, i, cursor - 1)
  BY <1>2 DEF Compiling
<1>4. /\ p \in Seq(WrittenCases) /\ p # <<>> /\ F \in Seq(Tokens) /\ Len(p) \in Nat /\ Len(F) \in Nat
  BY DEF Written
<1>5. PICK c \in Nat : c = cursor - 1 /\ cursor = c + 1
  BY <1>2
<1>a. PICK len \in Nat : len = Len(F) /\ cursor <= len
  BY <1>1, <1>4
<1>b. F # <<>> /\ 1 \in DOMAIN F
  <2>1. F # <<>>
    BY <1>1 DEF Known
  <2> QED
    BY <1>4, <2>1
<1>c. Token(cursor) = "{" => cursor' = cursor + 1
  BY <1>1
<1>d. Token(cursor) # "{" => cursor' = cursor
  BY <1>1
<1>6. \E b \in Nat : CaseStarts(p, F, i + 1, b) /\ cursor' = b + 1
  <2>1. CASE F = FlattenSeq(Parts(p)) /\ c = Off(Parts(p))[i]
    <3>1. i # Len(p)
      <4>1. Offsets(Parts(p), Off(Parts(p))) /\ Len(Parts(p)) = Len(p)
        <5>1. Parts(p) \in Seq(Seq(Tokens)) /\ Len(Parts(p)) = Len(p)
          BY <1>4, PartFacts
        <5> QED
          BY <5>1, Flattened
      <4>2. Off(Parts(p))[Len(p)] = Len(F)
        BY <2>1, <4>1 DEF Offsets
      <4>3. ASSUME i = Len(p) PROVE FALSE
        <5>1. c = len
          BY <1>a, <2>1, <4>2, <4>3, Zenon
        <5> QED
          BY <1>5, <1>a, <5>1
      <4> QED
        BY <4>3
    <3>2. PICK j \in 1..Len(p) : j = i + 1 /\ j - 1 = i
      BY <1>4, <3>1
    <3>3. F[c + 1] = "{" /\ c + 1 \in 1..Len(F) /\ CaseStarts(p, F, j, c + 1)
      <4>1. c = Off(Parts(p))[j - 1]
        BY <2>1, <3>2
      <4> QED
        BY <1>4, <2>1, <4>1, BracedCase
    <3>4. Token(cursor) = "{"
      BY <1>4, <1>5, <3>3, TokenIs DEF TokenOf
    <3>5. cursor' = c + 1 + 1
      BY <1>5, <1>c, <3>4
    <3>6. PICK b \in Nat : b = c + 1
      OBVIOUS
    <3> QED
      BY <3>2, <3>3, <3>5, <3>6, Zenon
  <2>2. CASE Len(p) = 1 /\ F = CaseTokens(p[1]) /\ ((i = 0 /\ c = 0) \/ (i = 1 /\ c = Len(F) + 1))
    <3>1. i = 0 /\ c = 0 /\ cursor = 1
      <4>1. ASSUME i = 1 /\ c = Len(F) + 1 PROVE FALSE
        <5>1. c = len + 1
          BY <1>a, <4>1, Zenon
        <5> QED
          BY <1>5, <1>a, <5>1
      <4> QED
        BY <1>5, <2>2, <4>1
    <3>2. CaseStarts(p, F, 1, 0)
      BY <1>4, <2>2, SoleCase
    <3>3. F # <<>> /\ p[1] \in WrittenCases
      <4>1. 1 \in 1..Len(p)
        BY <2>2
      <4> QED
        BY <1>4, <1>b, <4>1
    <3>4. F[1] \in TypeTokens \cup {"("}
      BY <2>2, <3>3, CaseBegins
    <3>5. Token(cursor) # "{"
      <4>1. "{" \notin TypeTokens \cup {"("}
        BY DEF TypeTokens
      <4>2. Token(cursor) = F[1]
        BY <1>b, <3>1 DEF Token
      <4> QED
        BY <3>4, <4>1, <4>2
    <3>6. cursor' = 0 + 1
      <4>1. cursor' = 1
        BY <1>d, <3>1, <3>5, Zenon
      <4> QED
        BY <4>1
    <3>7. i + 1 = 1
      BY <3>1
    <3> QED
      BY <3>2, <3>6, <3>7
  <2> QED
    BY <1>3, <1>5, <2>1, <2>2 DEF AfterCases
<1>7. PICK b \in Nat : CaseStarts(p, F, i + 1, b) /\ cursor' = b + 1
  BY <1>6
<1>8. CaseRead(p[i + 1], EmptyCase, 0) /\ EmptyCase \in CompiledCases
  <2>1. CaseAhead(F, b, p[i + 1])
    BY <1>7, StartsAhead
  <2> QED
    BY <2>1, EmptyCaseRead
<1>9. InCase(p, F, proto.d, EmptyCase, b + 1)
  <2>1. PICK j \in Nat : j = i + 1 /\ j - 1 = i
    BY <1>4
  <2>2. b + 1 = b + 0 + 1
    OBVIOUS
  <2>3. CaseStarts(p, F, j, b) /\ AlikeCases(proto.d, p, j - 1) /\ CaseRead(p[j], EmptyCase, 0) /\ 0 \in Nat
    BY <1>3, <1>7, <1>8, <2>1
  <2> QED
    BY <2>2, <2>3, Zenon DEF InCase
<1>10. InCase(wanted, descriptor, proto.d, case, cursor)'
  BY <1>1, <1>7, <1>9
<1>11. Typed'
  BY <1>1, <1>8 DEF Typed
<1> QED
  BY <1>1, <1>2, <1>10, <1>11 DEF Stages

LEMMA EndKeeps ==
  ASSUME Typed, Written(wanted, descriptor), Stages, EndCase
  PROVE  Typed' /\ Stages'
<1>1. /\ phase = "case" /\ Ends(Token(cursor)) /\ cursor' = cursor + 1
      /\ proto' = [proto EXCEPT !.d = Append(@, case)] /\ phase' = "compile"
      /\ UNCHANGED <<wanted, descriptor, case, group>>
  BY DEF EndCase, Ends
<1>2. InCase(wanted, descriptor, proto.d, case, cursor) /\ ~proto.noarg /\ ~proto.alwayspass
  BY <1>1 DEF Stages
<1>3. PICK i \in Nat, b \in Nat, c \in Nat :
        /\ CaseStarts(wanted, descriptor, i, b) /\ AlikeCases(proto.d, wanted, i - 1)
        /\ CaseRead(wanted[i], case, c) /\ cursor = b + c + 1
  BY <1>2 DEF InCase
<1>4. /\ CaseAhead(descriptor, b, wanted[i]) /\ i \in 1..Len(wanted) /\ Len(wanted) \in Nat
      /\ AfterCases(wanted, descriptor, i, b + Len(CaseTokens(wanted[i])) + 1)
  BY <1>3, StartsAhead
<1>5. descriptor \in Seq(Tokens)
  BY DEF Written
<1>6. c = Len(CaseTokens(wanted[i])) /\ AlikeCase(case, wanted[i])
  <2>1. Ends(TokenOf(descriptor, cursor))
    BY <1>1, <1>5, TokenIs
  <2> QED
    BY <1>3, <1>4, <2>1, CaseEnds
<1>7. PICK d : d = proto.d /\ proto'.d = Append(d, case) /\ d \in Seq(CompiledCases)
  BY <1>1 DEF Typed
<1>8. AlikeCases(proto'.d, wanted, i)
  <2>1. PICK j : j = i - 1 /\ j + 1 = i
    BY <1>3
  <2>2. AlikeCases(Append(d, case), wanted, j + 1)
    BY <1>3, <1>6, <1>7, <2>1, CasesGrow
  <2> QED
    BY <1>7, <2>1, <2>2
<1>9. Compiling(wanted, descriptor, proto'.d, b + c + 1)
  <2>1. i \in 0..Len(wanted)
    BY <1>4
  <2> QED
    BY <1>4, <1>6, <1>8, <2>1 DEF Compiling
<1>10. cursor' \in Nat \ {0} /\ cursor' - 1 = b + c + 1
  BY <1>1, <1>3
<1>11. Typed' /\ ~proto'.noarg /\ ~proto'.alwayspass
  <2>1. Append(proto.d, case) \in Seq(CompiledCases)
    BY DEF Typed
  <2> QED
    BY <1>1, <1>2, <2>1 DEF Typed
<1>12. (cursor \in Nat \ {0} /\ Compiling(wanted, descriptor, proto.d, cursor - 1))'
  BY <1>1, <1>9, <1>10
<1> QED
  BY <1>1, <1>11, <1>12 DEF Stages

LEMMA ArgumentKeeps ==
  ASSUME Typed, Written(wanted, descriptor), Stages, Argument
  PROVE  Typed' /\ Stages'
<1>1. phase = "case" /\ ~Ends(Token(cursor)) /\ Token(cursor) # "("
  BY DEF Argument, Ends
<1>2. InCase(wanted, descriptor, proto.d, case, cursor) /\ ~proto.noarg /\ ~proto.alwayspass
  BY <1>1 DEF Stages
<1>3. PICK i \in Nat, b \in Nat, c \in Nat :
        /\ CaseStarts(wanted, descriptor, i, b) /\ AlikeCases(proto.d, wanted, i - 1)
        /\ CaseRead(wanted[i], case, c) /\ cursor = b + c + 1
  BY <1>2 DEF InCase
<1>4. PICK w : w = wanted[i] /\ CaseAhead(descriptor, b, w)
  BY <1>3, StartsAhead
<1>5. descriptor \in Seq(Tokens) /\ case \in CompiledCases
  BY DEF Written, Typed
<1>6. ~(AlikeCase(case, w) /\ c = Len(CaseTokens(w)))
  <2>1. ~Ends(TokenOf(descriptor, cursor))
    BY <1>1, <1>5, TokenIs
  <2> QED
    BY <1>3, <1>4, <2>1, CaseEnds
<1>7. PICK t : t = compT(cursor)
  OBVIOUS
<1> DEFINE next == [d |-> IF t.elem.type = "%0" THEN case.d ELSE Append(case.d, <<t.elem>>),
                    noarg |-> t.elem.type = "%0", varlen |-> case.varlen \/ t.vlen]
<1>8. /\ ~case.noarg /\ t.ok /\ ~(t.elem.type = "%0" /\ case.d # <<>>)
      /\ next \in CompiledCases
      /\ ReadTo(b, w, next, t.behind)
  <2>1. CASE w.noarg /\ case = EmptyCase /\ c = 0
    <3>1. cursor = b + 1
      BY <1>3, <2>1
    <3>2. /\ t.ok /\ t.elem.type = "%0"
          /\ ReadTo(b, w, [d |-> <<>>, noarg |-> TRUE, varlen |-> t.vlen], t.behind)
      BY <1>4, <1>5, <1>7, <2>1, <3>1, ReadsNoArgs
    <3>3. t.vlen \in BOOLEAN
      BY <1>7 DEF compT
    <3>4. next = [d |-> <<>>, noarg |-> TRUE, varlen |-> t.vlen]
      BY <2>1, <3>2, <3>3 DEF EmptyCase
    <3>5. next \in CompiledCases
      <4>1. <<>> \in Seq(Seq(AnyElems))
        OBVIOUS
      <4> QED
        BY <3>3, <3>4, <4>1 DEF CompiledCases
    <3>6. case.d = <<>> /\ ~case.noarg
      BY <2>1 DEF EmptyCase
    <3> HIDE DEF next
    <3> QED
      BY <3>2, <3>4, <3>5, <3>6
  <2>2. CASE /\ ~w.noarg /\ ~case.noarg /\ ~case.varlen
             /\ \E k \in 0..Len(w.d) - 1 : AlikeArgs(case.d, w.d, k) /\ c = Off(ArgTokens(w))[k]
    <3>1. PICK m \in 0..Len(w.d) - 1 : AlikeArgs(case.d, w.d, m) /\ c = Off(ArgTokens(w))[m]
      BY <2>2
    <3>2. Len(w.d) \in Nat
      BY <1>4, CaseFacts DEF CaseAhead
    <3>3. PICK k \in 1..Len(w.d) : k = m + 1 /\ k - 1 = m
      BY <3>1, <3>2
    <3>4. AlikeArgs(case.d, w.d, k - 1) /\ cursor = b + Off(ArgTokens(w))[k - 1] + 1
      BY <1>3, <3>1, <3>3
    <3>5. /\ t.ok /\ t.elem \in AnyElems /\ t.elem.type # "%0"
          /\ ReadTo(b, w, [d |-> Append(case.d, <<t.elem>>), noarg |-> FALSE, varlen |-> t.vlen], t.behind)
      <4>1. PICK cs, at :
              /\ cs \in CompiledCases
              /\ cs = case /\ at = cursor /\ ~cs.noarg /\ ~cs.varlen /\ AlikeArgs(cs.d, w.d, k - 1)
              /\ at = b + Off(ArgTokens(w))[k - 1] + 1 /\ Token(at) # "(" /\ t = compT(at)
        BY <1>1, <1>5, <1>7, <2>2, <3>4, Zenon
      <4>2. /\ t.ok /\ t.elem \in AnyElems /\ t.elem.type # "%0"
            /\ ReadTo(b, w, [d |-> Append(cs.d, <<t.elem>>), noarg |-> FALSE, varlen |-> t.vlen], t.behind)
        BY <1>4, <1>5, <2>2, <4>1, ReadsArgument
      <4> QED
        BY <4>1, <4>2, Zenon
    <3>6. t.vlen \in BOOLEAN
      BY <1>7 DEF compT
    <3>7. next = [d |-> Append(case.d, <<t.elem>>), noarg |-> FALSE, varlen |-> t.vlen]
      BY <2>2, <3>5, <3>6
    <3>8. next \in CompiledCases
      <4>1. Append(case.d, <<t.elem>>) \in Seq(Seq(AnyElems))
        <5>1. case.d \in Seq(Seq(AnyElems)) /\ <<t.elem>> \in Seq(AnyElems)
          BY <1>5, <3>5 DEF CompiledCases
        <5> QED
          BY <5>1
      <4> QED
        BY <3>6, <3>7, <4>1 DEF CompiledCases
    <3> HIDE DEF next
    <3> QED
      BY <2>2, <3>5, <3>7, <3>8
  <2> HIDE DEF next
  <2> QED
    BY <1>3, <1>4, <1>6, <2>1, <2>2 DEF CaseRead
<1>9. /\ case' = next /\ cursor' = t.behind /\ UNCHANGED <<wanted, descriptor, proto, group, phase>>
  BY <1>7, <1>8 DEF Argument
<1> HIDE DEF next
<1>10. PICK e \in Nat : CaseRead(w, next, e) /\ t.behind = b + e + 1
  BY <1>8 DEF ReadTo
<1>11. InCase(wanted, descriptor, proto.d, next, t.behind)
  BY <1>3, <1>4, <1>10 DEF InCase
<1>12. InCase(wanted, descriptor, proto.d, case, cursor)'
  BY <1>9, <1>11
<1>13. Typed'
  BY <1>8, <1>9 DEF Typed
<1> QED
  BY <1>1, <1>2, <1>9, <1>12, <1>13 DEF Stages

LEMMA OpenKeeps ==
  ASSUME Typed, Written(wanted, descriptor), Stages, OpenGroup
  PROVE  Typed' /\ Stages'
<1>1. /\ phase = "case" /\ Token(cursor) = "(" /\ cursor' = cursor + 1 /\ group' = <<>> /\ phase' = "group"
      /\ UNCHANGED <<wanted, descriptor, proto, case>>
  BY DEF OpenGroup
<1>2. InCase(wanted, descriptor, proto.d, case, cursor) /\ ~proto.noarg /\ ~proto.alwayspass
  BY <1>1 DEF Stages
<1>3. PICK i \in Nat, b \in Nat, c \in Nat :
        /\ CaseStarts(wanted, descriptor, i, b) /\ AlikeCases(proto.d, wanted, i - 1)
        /\ CaseRead(wanted[i], case, c) /\ cursor = b + c + 1
  BY <1>2 DEF InCase
<1>4. PICK w : w = wanted[i] /\ CaseAhead(descriptor, b, w)
  BY <1>3, StartsAhead
<1>5. descriptor \in Seq(Tokens)
  BY DEF Written
<1>6. ~(AlikeCase(case, w) /\ c = Len(CaseTokens(w)))
  <2>1. ~Ends(TokenOf(descriptor, cursor))
    BY <1>1, <1>5, TokenIs DEF Ends
  <2> QED
    BY <1>3, <1>4, <2>1, CaseEnds
<1>7. ~(w.noarg /\ case = EmptyCase /\ c = 0)
  <2> SUFFICES ASSUME w.noarg /\ case = EmptyCase /\ c = 0 PROVE FALSE
    OBVIOUS
  <2>1. TokenOf(descriptor, b + 1) = "%0"
    BY <1>4, NoArgsAhead
  <2>2. cursor = b + 1
    BY <1>3
  <2> QED
    BY <1>1, <1>5, <2>1, <2>2, TokenIs
<1>8. /\ ~w.noarg /\ ~case.noarg /\ ~case.varlen
      /\ \E m \in 0..Len(w.d) - 1 : AlikeArgs(case.d, w.d, m) /\ c = Off(ArgTokens(w))[m]
  BY <1>3, <1>4, <1>6, <1>7 DEF CaseRead
<1>9. PICK m \in 0..Len(w.d) - 1 : AlikeArgs(case.d, w.d, m) /\ c = Off(ArgTokens(w))[m]
  BY <1>8
<1>10. Len(w.d) \in Nat
  BY <1>4, CaseFacts DEF CaseAhead
<1>11. PICK k \in 1..Len(w.d) : k = m + 1 /\ k - 1 = m
  BY <1>9, <1>10
<1>12. PICK off, x : off = Off(ArgTokens(w)) /\ x = b + off[k - 1] /\ cursor = x + 1
  BY <1>3, <1>9, <1>11
<1>13. w.d[k] \in Seq(Elems) /\ w.d[k] # <<>> /\ Len(w.d[k]) # 1
  <2>1. /\ w.d[k] \in Seq(Elems) /\ w.d[k] # <<>>
        /\ TokenOf(descriptor, x + 1) = "(" <=> Len(w.d[k]) # 1
    <3>1. CaseAhead(descriptor, b, w) /\ ~w.noarg /\ off = Off(ArgTokens(w)) /\ x = b + off[k - 1]
      BY <1>4, <1>8, <1>12
    <3> QED
      BY <3>1, ArgumentAhead
  <2> QED
    BY <1>1, <1>5, <1>12, <2>1, TokenIs
<1>14. 0 \in 0..Len(w.d[k]) - 1
  BY <1>13
<1>15. Off(Alternatives(w.d[k]))[0] = 0
  <2>1. Alternatives(w.d[k]) \in Seq(Seq(Tokens))
    BY <1>13, GroupFacts
  <2> QED
    BY <2>1, Flattened DEF Offsets
<1>16. GroupRead(w, case, <<>>, c + 1 + 0)
  <2>1. AlikeGroup(<<>>, w.d[k], 0)
    BY DEF AlikeGroup
  <2>2. AlikeArgs(case.d, w.d, k - 1) /\ c = Off(ArgTokens(w))[k - 1]
    BY <1>9, <1>11
  <2>3. c + 1 + 0 = Off(ArgTokens(w))[k - 1] + 1 + Off(Alternatives(w.d[k]))[0]
    BY <1>15, <2>2
  <2> QED
    BY <1>8, <1>13, <1>14, <2>1, <2>2, <2>3, Zenon DEF GroupRead
<1>17. InGroup(wanted, descriptor, proto.d, case, <<>>, cursor + 1)
  <2>1. c + 1 + 0 \in Nat /\ cursor + 1 = b + (c + 1 + 0) + 1
    BY <1>3
  <2> QED
    BY <1>3, <1>4, <1>16, <2>1, Zenon DEF InGroup
<1>18. InGroup(wanted, descriptor, proto.d, case, group, cursor)' /\ Typed'
  BY <1>1, <1>17 DEF Typed
<1> QED
  BY <1>1, <1>2, <1>18 DEF Stages

LEMMA AlternativeKeeps ==
  ASSUME Typed, Written(wanted, descriptor), Stages, Alternative
  PROVE  Typed' /\ Stages'
<1>1. phase = "group"
  BY DEF Alternative
<1>2. InGroup(wanted, descriptor, proto.d, case, group, cursor) /\ ~proto.noarg /\ ~proto.alwayspass
  BY <1>1 DEF Stages
<1>3. PICK i \in Nat, b \in Nat, c \in Nat :
        /\ CaseStarts(wanted, descriptor, i, b) /\ AlikeCases(proto.d, wanted, i - 1)
        /\ GroupRead(wanted[i], case, group, c) /\ cursor = b + c + 1
  BY <1>2 DEF InGroup
<1>4. PICK w : w = wanted[i] /\ CaseAhead(descriptor, b, w)
  BY <1>3, StartsAhead
<1>5. descriptor \in Seq(Tokens) /\ case \in CompiledCases
  BY DEF Written, Typed
<1>6. ~w.noarg /\ ~case.noarg /\ ~case.varlen
  BY <1>3, <1>4 DEF GroupRead
<1>7. PICK k \in 1..Len(w.d) : \E m \in 0..Len(w.d[k]) - 1 :
        /\ Len(w.d[k]) # 1
        /\ AlikeArgs(case.d, w.d, k - 1) /\ AlikeGroup(group, w.d[k], m)
        /\ c = Off(ArgTokens(w))[k - 1] + 1 + Off(Alternatives(w.d[k]))[m]
  BY <1>3, <1>4, Zenon DEF GroupRead
<1>8. PICK h : h = w.d[k]
  OBVIOUS
<1>9. PICK m \in 0..Len(h) - 1 :
        /\ Len(h) # 1
        /\ AlikeArgs(case.d, w.d, k - 1) /\ AlikeGroup(group, h, m)
        /\ c = Off(ArgTokens(w))[k - 1] + 1 + Off(Alternatives(h))[m]
  BY <1>7, <1>8
<1>10. Len(h) \in Nat
  <2>1. w.d[k] \in Seq(Elems)
    BY <1>4, CaseFacts DEF CaseAhead
  <2> QED
    BY <1>8, <2>1
<1>11. PICK l \in 1..Len(h) : l = m + 1 /\ l - 1 = m
  BY <1>9, <1>10
<1>12. PICK cs, g, at, t :
         /\ cs \in CompiledCases
         /\ cs = case /\ g = group /\ at = cursor /\ t = compT(at)
         /\ ~cs.noarg /\ ~cs.varlen /\ AlikeArgs(cs.d, w.d, k - 1) /\ AlikeGroup(g, h, l - 1)
         /\ at = b + (Off(ArgTokens(w))[k - 1] + 1 + Off(Alternatives(h))[l - 1]) + 1
  BY <1>3, <1>5, <1>6, <1>9, <1>11, Zenon
<1>13. /\ t.ok /\ ~t.vlen /\ t.elem \in AnyElems /\ t.elem.type # "%0"
       /\ Token(t.behind) = "|" \/ Token(t.behind) = ")"
       /\ Token(t.behind) = "|" => GroupReadTo(b, w, cs, Append(g, t.elem), t.behind + 1)
       /\ Token(t.behind) # "|" =>
            ReadTo(b, w, [cs EXCEPT !.d = Append(@, Append(g, t.elem))], t.behind + 1)
  <2>1. descriptor \in Seq(Tokens) /\ CaseAhead(descriptor, b, w) /\ ~w.noarg /\ Len(h) # 1
    BY <1>4, <1>5, <1>6, <1>9
  <2>2. AlternativeRead(b, w, cs, g, t)
    BY <1>8, <1>12, <2>1, ReadsAlternative
  <2> QED
    BY <2>2, Zenon DEF AlternativeRead
<1>14. Token(t.behind) \in {"|", ")"}
  BY <1>13
<1>15. /\ cursor' = t.behind + 1 /\ UNCHANGED <<wanted, descriptor, proto>>
       /\ Token(t.behind) = "|" => group' = Append(group, t.elem) /\ UNCHANGED <<case, phase>>
       /\ Token(t.behind) # "|" => /\ case' = [case EXCEPT !.d = Append(@, Append(group, t.elem))]
                                   /\ phase' = "case" /\ group' = <<>>
  BY <1>12, <1>13, <1>14 DEF Alternative
<1>16. CASE Token(t.behind) = "|"
  <2>1. PICK e \in Nat : t.behind + 1 = b + e + 1 /\ GroupRead(w, cs, Append(g, t.elem), e)
    BY <1>13, <1>16 DEF GroupReadTo
  <2>2. InGroup(wanted, descriptor, proto.d, cs, Append(g, t.elem), t.behind + 1)
    BY <1>3, <1>4, <2>1, Zenon DEF InGroup
  <2>3. InGroup(wanted, descriptor, proto.d, case, group, cursor)'
    BY <1>12, <1>15, <1>16, <2>2
  <2>4. Typed'
    BY <1>15, <1>16 DEF Typed
  <2> QED
    BY <1>1, <1>2, <1>15, <1>16, <2>3, <2>4 DEF Stages
<1>17. CASE Token(t.behind) # "|"
  <2>1. PICK r : r = [cs EXCEPT !.d = Append(@, Append(g, t.elem))]
    OBVIOUS
  <2>2. PICK e \in Nat : t.behind + 1 = b + e + 1 /\ CaseRead(w, r, e)
    BY <1>13, <1>17, <2>1 DEF ReadTo
  <2>3. InCase(wanted, descriptor, proto.d, r, t.behind + 1)
    BY <1>3, <1>4, <2>2, Zenon DEF InCase
  <2>4. r \in CompiledCases
    <3>1. cs \in CompiledCases
      BY <1>12, Zenon
    <3>2. cs.d \in Seq(Seq(AnyElems)) /\ Append(g, t.elem) \in Seq(AnyElems)
      BY <1>12, <1>13 DEF CompiledCases, AlikeGroup
    <3>3. Append(cs.d, Append(g, t.elem)) \in Seq(Seq(AnyElems))
      BY <3>2
    <3> QED
      BY <2>1, <3>1, <3>3 DEF CompiledCases
  <2>5. case' = r /\ phase' = "case"
    BY <1>12, <1>15, <1>17, <2>1
  <2>6. InCase(wanted, descriptor, proto.d, case, cursor)' /\ Typed'
    BY <1>15, <2>3, <2>4, <2>5 DEF Typed
  <2> QED
    BY <1>2, <1>15, <2>5, <2>6 DEF Stages
<1> QED
  BY <1>16, <1>17

LEMMA Member ==
  ASSUME NEW x, NEW S
  PROVE  \E truth \in BOOLEAN : truth = (x \in S)
<1>1. CASE x \in S
  <2>1. TRUE = (x \in S)
    BY <1>1
  <2> QED
    BY <2>1
<1>2. CASE x \notin S
  <2>1. FALSE = (x \in S)
    BY <1>2
  <2> QED
    BY <2>1
<1> QED
  BY <1>1, <1>2

LEMMA FinishKeeps ==
  ASSUME Typed, Written(wanted, descriptor), Stages, Finish
  PROVE  Typed' /\ Stages'
<1> DEFINE p == wanted
           F == descriptor
<1>1. /\ phase = "compile" /\ (Known \/ cursor > Len(F))
      /\ phase' = "compiled" /\ UNCHANGED <<wanted, descriptor, cursor, case, group>>
      /\ proto' = [proto EXCEPT !.noarg = F \in {<<>>, <<"%0">>}, !.alwayspass = F = <<"%-">>]
  BY DEF Finish
<1>2. cursor \in Nat \ {0} /\ Compiling(p, F, proto.d, cursor - 1)
  BY <1>1 DEF Stages
<1>3. PICK i \in 0..Len(p) : AlikeCases(proto.d, p, i) /\ AfterCases(p, F, i, cursor - 1)
  BY <1>2 DEF Compiling
<1>4. /\ p \in Seq(WrittenCases) /\ p # <<>> /\ F \in Seq(Tokens) /\ Len(p) \in Nat \ {0} /\ Len(F) \in Nat
  BY DEF Written
<1>5. F # <<"%-">>
  <2> SUFFICES ASSUME F = <<"%-">> PROVE FALSE
    OBVIOUS
  <2>1. F[1] = "%-" /\ 1 \in 1..Len(F)
    OBVIOUS
  <2>2. F[1] \in Tokens
    BY <1>4, <2>1
  <2> QED
    BY <2>1, <2>2, TokenKinds
<1>6. /\ proto'.d = proto.d /\ proto'.alwayspass = FALSE
      /\ proto'.noarg = (F \in {<<>>, <<"%0">>})
      /\ proto' \in [d : Seq(CompiledCases), noarg : BOOLEAN, alwayspass : BOOLEAN]
  <2>1. PICK known \in BOOLEAN : known = (F \in {<<>>, <<"%0">>})
    BY Member
  <2>2. (F = <<"%-">>) = FALSE
    BY <1>5
  <2>3. proto' = [proto EXCEPT !.noarg = known, !.alwayspass = FALSE]
    BY <1>1, <2>1, <2>2, Zenon
  <2> QED
    BY <2>1, <2>2, <2>3 DEF Typed
<1>7. CASE F \in {<<>>, <<"%0">>}
  <2>1. F # FlattenSeq(Parts(p))
    <3> SUFFICES ASSUME F = FlattenSeq(Parts(p)) PROVE FALSE
      OBVIOUS
    <3>1. PICK j \in 1..Len(p) : j = 1 /\ j - 1 = 0
      BY <1>4
    <3>2. PICK c : c = Off(Parts(p))[j - 1]
      OBVIOUS
    <3>3. c \in Nat /\ c + 1 \in 1..Len(F) /\ F[c + 1] = "{"
      BY <1>4, <3>2, BracedCase
    <3>a. PICK at, len : at = c + 1 /\ len = Len(F) /\ at \in 1..len
      BY <3>3
    <3>4. CASE F = <<>>
      <4>1. len = 0
        BY <3>4, <3>a
      <4> QED
        BY <3>a, <4>1
    <3>5. CASE F = <<"%0">>
      <4>1. len = 1 /\ F[1] = "%0"
        BY <3>5, <3>a
      <4>2. at = 1
        BY <3>a, <4>1
      <4>3. F[1] = "{"
        BY <3>3, <3>a, <4>2, Zenon
      <4> QED
        BY <4>1, <4>3
    <3> QED
      BY <1>7, <3>4, <3>5
  <2>2. Len(p) = 1 /\ F = CaseTokens(p[1])
    BY <2>1 DEF Written
  <2>3. PICK w \in WrittenCases : w = p[1]
    <3>1. 1 \in 1..Len(p)
      BY <2>2
    <3>2. p[1] \in WrittenCases
      BY <1>4, <3>1
    <3> QED
      BY <3>2
  <2>4. w.d = <<>>
    <3>1. /\ F = <<>> => ~w.noarg /\ w.d = <<>>
          /\ F = <<"%0">> => w.noarg
      BY <2>2, <2>3, CaseBegins
    <3>2. w.noarg => w.d = <<>>
      BY CaseFacts
    <3> QED
      BY <1>7, <3>1, <3>2
  <2>5. Faithful(proto', p)
    BY <1>6, <1>7, <2>2, <2>3, <2>4 DEF Faithful
  <2> QED
    BY <1>1, <1>6, <2>5 DEF Stages, Typed
<1>8. CASE F \notin {<<>>, <<"%0">>}
  <2>1. PICK c \in Nat, len \in Nat : c = cursor - 1 /\ len = Len(F) /\ c >= len
    <3>1. cursor > Len(F)
      BY <1>1, <1>5, <1>8 DEF Known
    <3> QED
      BY <1>2, <1>4, <3>1
  <2>2. i = Len(p)
    <3>1. CASE F = FlattenSeq(Parts(p)) /\ c = Off(Parts(p))[i]
      <4> SUFFICES ASSUME i # Len(p) PROVE FALSE
        OBVIOUS
      <4>1. PICK j \in 1..Len(p) : j = i + 1 /\ j - 1 = i
        BY <1>4
      <4>2. c + 1 \in 1..Len(F)
        <5>1. c = Off(Parts(p))[j - 1]
          BY <3>1, <4>1
        <5> QED
          BY <1>4, <3>1, <5>1, BracedCase
      <4> QED
        BY <2>1, <4>2
    <3>2. CASE Len(p) = 1 /\ F = CaseTokens(p[1]) /\ ((i = 0 /\ c = 0) \/ (i = 1 /\ c = Len(F) + 1))
      <4> SUFFICES ASSUME i = 0 /\ c = 0 PROVE FALSE
        BY <3>2
      <4>1. Len(F) = 0
        BY <2>1
      <4>2. F = <<>>
        BY <1>4, <4>1
      <4> QED
        BY <1>8, <4>2
    <3> QED
      BY <1>3, <2>1, <3>1, <3>2 DEF AfterCases
  <2>3. ~proto'.noarg
    BY <1>6, <1>8
  <2>4. Faithful(proto', p)
    BY <1>3, <1>6, <2>2, <2>3 DEF Faithful
  <2> QED
    BY <1>1, <1>6, <2>4 DEF Stages, Typed
<1> QED
  BY <1>7, <1>8

LEMMA AnyKeeps ==
  ASSUME Typed, Anything, ProtoNext
  PROVE  Typed' /\ Anything'
<1>1. Known /\ phase \in {"compile", "compiled"}
  BY DEF Known, Anything
<1>2. ~StartCase /\ ~EndCase /\ ~Argument /\ ~OpenGroup /\ ~Alternative
  BY <1>1 DEF StartCase, EndCase, Argument, OpenGroup, Alternative
<1>3. Finish
  BY <1>2 DEF ProtoNext
<1>4. /\ UNCHANGED <<wanted, descriptor, cursor, case, group>> /\ phase' = "compiled"
      /\ proto' = [proto EXCEPT !.noarg = descriptor \in {<<>>, <<"%0">>}, !.alwayspass = descriptor = <<"%-">>]
  BY <1>3 DEF Finish
<1>5. proto'.alwayspass /\ proto' \in [d : Seq(CompiledCases), noarg : BOOLEAN, alwayspass : BOOLEAN]
  <2>1. PICK known \in BOOLEAN : known = (descriptor \in {<<>>, <<"%0">>})
    BY Member
  <2>2. (descriptor = <<"%-">>) = TRUE
    BY DEF Anything
  <2>3. proto' = [proto EXCEPT !.noarg = known, !.alwayspass = TRUE]
    BY <1>4, <2>1, <2>2, Zenon
  <2> QED
    BY <2>3 DEF Typed
<1> QED
  BY <1>4, <1>5 DEF Typed, Anything

LEMMA AnyDescribed == Described(Always, FALSE) = <<"%-">>
<1>1. PICK e : e = Elem("%-", "", "")
  OBVIOUS
<1>2. PICK w : w = [EmptyCase EXCEPT !.d = <<<<e>>>>]
  OBVIOUS
<1>3. Always = <<w>> /\ w.d = <<<<e>>>> /\ ~w.noarg /\ ~w.varlen
  BY <1>1, <1>2 DEF Always, EmptyCase
<1>4. Described(Always, FALSE) = CaseTokens(w)
  BY <1>3 DEF Described
<1>5. ElemTokens(e) = <<"%-">>
  <2>1. <<"%-">> \o <<>> \o <<>> = <<"%-">>
    OBVIOUS
  <2>2. ElemTokens(e) = <<"%-">> \o <<>> \o <<>>
    BY <1>1 DEF ElemTokens, Elem
  <2> QED
    BY <2>1, <2>2
<1>6. GroupTokens(<<e>>) = <<"%-">>
  BY <1>5 DEF GroupTokens
<1>7. PICK ss : ss = [i \in DOMAIN w.d |-> GroupTokens(w.d[i])]
  OBVIOUS
<1>8. ss \in Seq(Seq({"%-"})) /\ Len(ss) = 1 /\ ss[1] = <<"%-">>
  <2>1. PICK g \in Seq({"%-"}) : g = <<"%-">>
    <3>1. "%-" \in {"%-"}
      OBVIOUS
    <3> QED
      BY <3>1, ShortSequences
  <2>2. DOMAIN w.d = 1..1 /\ w.d[1] = <<e>>
    BY <1>3
  <2>3. \A i \in DOMAIN w.d : GroupTokens(w.d[i]) = g
    BY <1>6, <2>1, <2>2
  <2>4. ss = [i \in 1..1 |-> g]
    BY <1>7, <2>2, <2>3
  <2> QED
    BY <2>1, <2>4
<1>9. PICK s, off : s \in Seq({"%-"}) /\ s = FlattenSeq(ss) /\ off = Off(ss) /\ Offsets(ss, off)
  BY <1>8, Flattened
<1>10. s = <<"%-">>
  <2>1. Len(s) = 1 /\ s[1] = "%-"
    <3>1. PICK n, g : n = Len(ss) /\ n = 1 /\ g = ss[1] /\ Len(g) = 1 /\ g[1] = "%-"
      BY <1>8
    <3>2. /\ off[0] = 0 /\ off[n] = Len(s)
          /\ \A i \in 1..n : off[i] = off[i - 1] + Len(ss[i])
          /\ \A i \in 1..n : \A q \in 1..Len(ss[i]) : s[off[i - 1] + q] = ss[i][q]
      BY <1>9, <3>1, Zenon DEF Offsets
    <3>3. off[1] = 0 + 1
      BY <3>1, <3>2
    <3>4. s[0 + 1] = "%-"
      BY <3>1, <3>2
    <3> QED
      BY <3>1, <3>2, <3>3, <3>4
  <2> QED
    BY <1>9, <2>1
<1>11. CaseTokens(w) = s \o <<>>
  BY <1>3, <1>7, <1>9 DEF CaseTokens
<1>12. s \o <<>> = s
  BY <1>10
<1> QED
  BY <1>4, <1>10, <1>11, <1>12, Zenon

LEMMA Starts ==
  ASSUME ProtoInit
  PROVE  Compilation
<1>1. /\ wanted \in Prototypes /\ cursor = 1 /\ case = EmptyCase /\ group = <<>> /\ phase = "compile"
      /\ proto = [d |-> <<>>, noarg |-> FALSE, alwayspass |-> FALSE]
  BY DEF ProtoInit
<1>2. PICK braces \in BOOLEAN : (wanted = Always => ~braces) /\ descriptor = Described(wanted, braces)
  BY DEF ProtoInit
<1>3. Typed
  <2>1. EmptyCase \in CompiledCases
    BY DEF EmptyCase, CompiledCases
  <2> QED
    BY <1>1, <2>1 DEF Typed
<1>4. CASE wanted = Always
  <2>1. descriptor = <<"%-">>
    BY <1>2, <1>4, AnyDescribed
  <2> QED
    BY <1>1, <1>3, <1>4, <2>1 DEF Compilation, Anything
<1>5. CASE wanted # Always
  <2>1. wanted \in Seq(WrittenCases) /\ wanted # <<>>
    BY <1>1, <1>5, PrototypesAssumption
  <2>2. descriptor = FlattenSeq(Parts(wanted)) \/ (Len(wanted) = 1 /\ descriptor = CaseTokens(wanted[1]))
    BY <1>2 DEF Described, Parts
  <2>3. PICK ss \in Seq(Seq(Tokens)) : ss = Parts(wanted) /\ Len(ss) = Len(wanted)
    BY <2>1, PartFacts
  <2>4. FlattenSeq(ss) \in Seq(Tokens) /\ Off(ss)[0] = 0
    BY Flattened DEF Offsets
  <2>5. Written(wanted, descriptor)
    <3>1. Len(wanted) = 1 => CaseTokens(wanted[1]) \in Seq(Tokens)
      <4> SUFFICES ASSUME Len(wanted) = 1 PROVE CaseTokens(wanted[1]) \in Seq(Tokens)
        OBVIOUS
      <4>1. 1 \in 1..Len(wanted)
        OBVIOUS
      <4>2. wanted[1] \in WrittenCases
        BY <2>1, <4>1
      <4> QED
        BY <4>2, CaseFacts
    <3> QED
      BY <2>1, <2>2, <2>3, <2>4, <3>1 DEF Written
  <2>6. AfterCases(wanted, descriptor, 0, 0)
    BY <2>2, <2>3, <2>4 DEF AfterCases
  <2>7. AlikeCases(<<>>, wanted, 0)
    BY DEF AlikeCases
  <2>8. Compiling(wanted, descriptor, <<>>, 0)
    <3>1. 0 \in 0..Len(wanted)
      BY <2>1
    <3> QED
      BY <2>6, <2>7, <3>1 DEF Compiling
  <2>9. Stages
    BY <1>1, <2>8 DEF Stages
  <2> QED
    BY <1>3, <2>5, <2>9 DEF Compilation
<1> QED
  BY <1>4, <1>5

LEMMA Steps ==
  ASSUME Compilation, [ProtoNext]_protoVars
  PROVE  Compilation'
<1>1. CASE UNCHANGED protoVars
  BY <1>1 DEF protoVars, Compilation, Typed, Anything, Stages
<1>2. CASE ProtoNext /\ Anything
  BY <1>2, AnyKeeps DEF Compilation
<1>3. CASE ProtoNext /\ Written(wanted, descriptor) /\ Stages
  <2>1. Typed' /\ Stages'
    BY <1>3, FinishKeeps, StartKeeps, EndKeeps, ArgumentKeeps, OpenKeeps, AlternativeKeeps
       DEF Compilation, ProtoNext
  <2>2. UNCHANGED <<wanted, descriptor>>
    <3>1. ASSUME Argument PROVE UNCHANGED <<wanted, descriptor>>
      BY <3>1 DEF Argument, Refused
    <3>2. ASSUME Alternative PROVE UNCHANGED <<wanted, descriptor>>
      BY <3>2 DEF Alternative, Refused
    <3>3. ASSUME Finish \/ StartCase \/ EndCase \/ OpenGroup PROVE UNCHANGED <<wanted, descriptor>>
      BY <3>3 DEF Finish, StartCase, EndCase, OpenGroup
    <3> QED
      BY <1>3, <3>1, <3>2, <3>3 DEF ProtoNext
  <2> QED
    BY <1>3, <2>1, <2>2 DEF Compilation
<1> QED
  BY <1>1, <1>2, <1>3 DEF Compilation

-----------------------------------------------------------------------------
(* Check. *)

LEMMA AlikeAccepts ==
  ASSUME NEW e, NEW f, AlikeElem(e, f), NEW v
  PROVE  check0(e, v) <=> check0(f, v)
BY DEF AlikeElem, check0

LEMMA AlikeGroupAccepts ==
  ASSUME NEW g, NEW h \in Seq(Elems), AlikeGroup(g, h, Len(h)), NEW v
  PROVE  check1(g, v) <=> \E e \in ToSet(h) : check0(e, v)
<1>1. DOMAIN g = 1..Len(h) /\ DOMAIN h = 1..Len(h) /\ \A j \in 1..Len(h) : AlikeElem(g[j], h[j])
  BY DEF AlikeGroup
<1>2. \A j \in 1..Len(h) : check0(g[j], v) <=> check0(h[j], v)
  BY <1>1, AlikeAccepts
<1>3. ToSet(h) = {h[j] : j \in 1..Len(h)}
  BY <1>1 DEF ToSet
<1> QED
  BY <1>1, <1>2, <1>3, Zenon DEF check1

\* What a case accepts, as compiled and as written.
Accepts(c, args) ==
  /\ Len(args) = Len(c.d) \/ (Len(args) > Len(c.d) /\ c.varlen)
  /\ doCheck(c, args)
Covers(w, args) ==
  IF w.noarg THEN args = <<>>
  ELSE /\ Len(args) = Len(w.d) \/ (w.varlen /\ Len(args) > Len(w.d))
       /\ \A k \in DOMAIN args :
            \E e \in ToSet(IF k \in DOMAIN w.d THEN w.d[k] ELSE Last(w.d)) : check0(e, args[k])

LEMMA CaseAccepts ==
  ASSUME NEW c, NEW w \in WrittenCases, AlikeCase(c, w), NEW args \in Seq(Values)
  PROVE  Accepts(c, args) <=> Covers(w, args)
<1>1. /\ c.noarg = w.noarg /\ c.varlen = w.varlen /\ w.noarg \in BOOLEAN /\ w.varlen \in BOOLEAN
      /\ Len(w.d) \in Nat /\ (w.noarg => w.d = <<>>) /\ DOMAIN w.d = 1..Len(w.d)
      /\ w.varlen /\ ~w.noarg => Len(w.d) > 0
      /\ \A k \in 1..Len(w.d) : w.d[k] \in Seq(Elems)
  BY CaseFacts DEF AlikeCase
<1>2. Len(c.d) = Len(w.d) /\ \A j \in 1..Len(w.d) : AlikeGroup(c.d[j], w.d[j], Len(w.d[j]))
  BY DEF AlikeCase, AlikeArgs
<1>3. PICK n \in Nat : n = Len(w.d) /\ n = Len(c.d)
  BY <1>1, <1>2
<1>4. PICK m \in Nat : m = Len(args) /\ DOMAIN args = 1..m
  OBVIOUS
<1>5. CASE w.noarg
  <2>1. n = 0
    BY <1>1, <1>3, <1>5
  <2>2. args = <<>> => m = 0
    BY <1>4
  <2>3. Covers(w, args) <=> args = <<>>
    BY <1>5 DEF Covers
  <2>4. Accepts(c, args) <=> (m = n \/ (m > n /\ c.varlen)) /\ args = <<>>
    BY <1>1, <1>3, <1>4, <1>5 DEF Accepts, doCheck
  <2> QED
    BY <2>1, <2>2, <2>3, <2>4
<1>6. CASE ~w.noarg
  <2> DEFINE fits == m = n \/ (m > n /\ w.varlen)
             at(k) == IF k > n THEN n ELSE k
  <2>1. ASSUME fits, NEW k \in 1..m
        PROVE  check1(c.d[at(k)], args[k])
                 <=> \E e \in ToSet(IF k \in DOMAIN w.d THEN w.d[k] ELSE Last(w.d)) : check0(e, args[k])
    <3>1. at(k) \in 1..n
      BY <1>1, <1>3, <1>6, <2>1
    <3>2. w.d[at(k)] = IF k \in DOMAIN w.d THEN w.d[k] ELSE Last(w.d)
      <4>1. k \in DOMAIN w.d <=> ~(k > n)
        BY <1>1, <1>3
      <4>2. Last(w.d) = w.d[n]
        BY <1>3 DEF Last
      <4> QED
        BY <4>1, <4>2
    <3>3. PICK j : j = at(k)
      OBVIOUS
    <3>4. w.d[j] \in Seq(Elems) /\ AlikeGroup(c.d[j], w.d[j], Len(w.d[j]))
      BY <1>1, <1>2, <1>3, <3>1, <3>3
    <3>5. check1(c.d[j], args[k]) <=> \E e \in ToSet(w.d[j]) : check0(e, args[k])
      BY <3>4, AlikeGroupAccepts
    <3> HIDE DEF at
    <3> QED
      BY <3>2, <3>3, <3>5
  <2>2. Accepts(c, args) <=> fits /\ \A k \in 1..m : check1(c.d[at(k)], args[k])
    <3>1. doCheck(c, args) <=> /\ m < n => c.varlen /\ m = n - 1
                               /\ m > n => c.varlen
                               /\ \A k \in 1..m : check1(c.d[at(k)], args[k])
      BY <1>1, <1>3, <1>4, <1>6, Zenon DEF doCheck
    <3>2. Accepts(c, args) <=> (m = n \/ (m > n /\ c.varlen)) /\ doCheck(c, args)
      BY <1>3, <1>4, Zenon DEF Accepts
    <3> HIDE DEF at
    <3> QED
      BY <1>1, <3>1, <3>2
  <2>3. Covers(w, args) <=>
          /\ fits
          /\ \A k \in 1..m : \E e \in ToSet(IF k \in DOMAIN w.d THEN w.d[k] ELSE Last(w.d)) : check0(e, args[k])
    BY <1>3, <1>4, <1>6, Zenon DEF Covers
  <2> HIDE DEF fits, at
  <2> QED
    BY <2>1, <2>2, <2>3
<1> QED
  BY <1>1, <1>5, <1>6

LEMMA NotAlways ==
  ASSUME NEW p \in Seq(WrittenCases)
  PROVE  p # Always
<1> SUFFICES ASSUME p = Always PROVE FALSE
  OBVIOUS
<1>1. PICK w : w = [EmptyCase EXCEPT !.d = <<<<Elem("%-", "", "")>>>>] /\ Always = <<w>>
  BY DEF Always
<1>2. w \in WrittenCases
  <2>1. Len(p) = 1 /\ p[1] = w
    BY <1>1
  <2>2. 1 \in 1..Len(p)
    BY <2>1
  <2> QED
    BY <2>1, <2>2
<1>3. PICK e : e = Elem("%-", "", "")
  OBVIOUS
<1>4. w.d = <<<<e>>>>
  BY <1>1, <1>3 DEF EmptyCase
<1>5. <<<<e>>>> \in Seq(Seq(Elems))
  BY <1>2, <1>4, CaseFacts
<1>6. e \in Elems
  <2>1. PICK d \in Seq(Seq(Elems)) : d = <<<<e>>>> /\ Len(d) = 1 /\ d[1] = <<e>>
    BY <1>5
  <2>2. 1 \in 1..Len(d)
    BY <2>1
  <2>3. <<e>> \in Seq(Elems)
    BY <2>1, <2>2
  <2> QED
    BY <2>3
<1>7. e.type \in TypeTokens
  BY <1>6 DEF Elems
<1>8. e.type = "%-"
  BY <1>3 DEF Elem
<1> QED
  BY <1>7, <1>8, TokenKinds

(* A compiled prototype accepts what was described.                         *)
LEMMA ChecksRight ==
  ASSUME Compilation, phase = "compiled", NEW args \in Arguments
  PROVE  Check(args) <=> Promised(wanted, args)
<1>1. args \in Seq(Values)
  BY ArgumentsAssumption
<1>2. CASE Anything
  BY <1>2 DEF Anything, Check, Promised
<1>3. CASE Written(wanted, descriptor) /\ Stages
  <2>1. wanted \in Seq(WrittenCases) /\ wanted # Always /\ Faithful(proto, wanted)
    BY <1>3, NotAlways DEF Written, Stages
  <2>2. DOMAIN wanted = 1..Len(wanted) /\ \A i \in 1..Len(wanted) : wanted[i] \in WrittenCases
    BY <2>1
  <2>3. Promised(wanted, args) <=> \E i \in 1..Len(wanted) : Covers(wanted[i], args)
    BY <2>1, <2>2, Zenon DEF Promised, Covers
  <2>4. ~proto.alwayspass
    BY <2>1 DEF Faithful
  <2>5. CASE proto.noarg /\ Len(wanted) = 1 /\ wanted[1].d = <<>>
    <3>1. Check(args) <=> args = <<>>
      BY <2>4, <2>5 DEF Check
    <3>2. PICK w \in WrittenCases : w = wanted[1] /\ w.d = <<>>
      BY <2>2, <2>5
    <3>3. Promised(wanted, args) <=> Covers(w, args)
      <4>1. \A i \in 1..Len(wanted) : i = 1
        BY <2>5
      <4>2. 1 \in 1..Len(wanted)
        BY <2>5
      <4> QED
        BY <2>3, <3>2, <4>1, <4>2
    <3>4. Covers(w, args) <=> args = <<>>
      <4>1. CASE w.noarg
        BY <4>1 DEF Covers
      <4>2. CASE ~w.noarg
        <5>1. ~w.varlen /\ Len(w.d) = 0
          <6>1. w.varlen /\ ~w.noarg => Len(w.d) > 0
            BY CaseFacts
          <6>2. Len(w.d) = 0
            BY <3>2
          <6> QED
            BY <4>2, <6>1, <6>2
        <5>2. Covers(w, args) => Len(args) = 0
          BY <4>2, <5>1 DEF Covers
        <5>3. Len(args) = 0 => args = <<>>
          BY <1>1
        <5>4. args = <<>> => Covers(w, args)
          BY <4>2, <5>1 DEF Covers
        <5> QED
          BY <5>2, <5>3, <5>4
      <4> QED
        BY <4>1, <4>2
    <3> QED
      BY <3>1, <3>3, <3>4
  <2>6. CASE ~proto.noarg /\ AlikeCases(proto.d, wanted, Len(wanted))
    <3>1. DOMAIN proto.d = 1..Len(wanted) /\ \A i \in 1..Len(wanted) : AlikeCase(proto.d[i], wanted[i])
      BY <2>6 DEF AlikeCases
    <3>2. Check(args) <=> \E i \in 1..Len(wanted) : Accepts(proto.d[i], args)
      BY <2>4, <2>6, <3>1, Zenon DEF Check, Accepts
    <3>3. \A i \in 1..Len(wanted) : Accepts(proto.d[i], args) <=> Covers(wanted[i], args)
      BY <1>1, <2>2, <3>1, CaseAccepts
    <3> QED
      BY <2>3, <3>2, <3>3, Zenon
  <2> QED
    BY <2>1, <2>5, <2>6 DEF Faithful
<1> QED
  BY <1>2, <1>3 DEF Compilation

(* Every descriptor compiles, and every call of a native function gets     *)
(* through its check exactly when its arguments are what the descriptor    *)
(* says, for all prototypes and all arguments (pl/func_proto.go).           *)
THEOREM CallsCheckedAsDescribed == ProtoSpec => []ChecksAsDescribed
<1>1. ProtoInit => Compilation
  BY Starts
<1>2. Compilation /\ [ProtoNext]_protoVars => Compilation'
  BY Steps
<1>3. Compilation => ChecksAsDescribed
  <2> SUFFICES ASSUME Compilation PROVE ChecksAsDescribed
    OBVIOUS
  <2>1. phase # "refused"
    BY DEF Compilation, Anything, Stages
  <2>2. ASSUME phase = "compiled", NEW args \in Arguments
        PROVE  Check(args) = Promised(wanted, args)
    <3>1. Check(args) <=> Promised(wanted, args)
      BY <2>2, ChecksRight
    <3>2. Check(args) \in BOOLEAN /\ Promised(wanted, args) \in BOOLEAN
      BY DEF Check, Promised
    <3> QED
      BY <3>1, <3>2
  <2> QED
    BY <2>1, <2>2 DEF ChecksAsDescribed
<1> QED
  BY <1>1, <1>2, <1>3, PTL DEF ProtoSpec
=============================================================================
