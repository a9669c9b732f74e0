-------------------------- MODULE ThrowSitesProofs --------------------------
(***************************************************************************)
(* The section the linker makes holds a ThrowInfo for each site of each     *)
(* unit and nothing else, whatever the number of units.  What holds of the  *)
(* first units is carried to the next: a least number of units for which it *)
(* failed would contradict itself.                                          *)
(***************************************************************************)
EXTENDS ThrowSites, SequenceTheorems, NaturalsInduction, WellFoundedInduction, TLAPS

\* A set of naturals that is not empty has a least element.
LEMMA Least ==
  ASSUME NEW S \in SUBSET Nat, S # {}
  PROVE  \E m \in S : \A k \in S : m <= k
<1> DEFINE R == {ss \in Nat \X Nat : ss[1] < ss[2]}
<1>1. IsWellFoundedOn(R, Nat)
  BY NatLessThanWellFounded, Zenon DEF OpToRel
<1>2. \E x \in S : \A y \in S : ~(<<y, x>> \in R)
  BY <1>1, WFMin, Zenon
<1>3. \A x, y \in Nat : ~(<<y, x>> \in R) => x <= y
  BY SMT
<1> HIDE DEF R
<1> QED
  BY <1>2, <1>3

\* The function that FlattenSeq defines recursively, up to n.
Flattens(q, n, f) == f = [i \in 1 .. n |-> IF i = 1 THEN q[i] ELSE f[i - 1] \o q[i]]

LEMMA FlattensExists ==
  ASSUME NEW q
  PROVE  \A n \in Nat : \E f : Flattens(q, n, f)
<1> DEFINE B == {n \in Nat : ~ \E f : Flattens(q, n, f)}
<1>1. SUFFICES ASSUME B # {} PROVE FALSE
  OBVIOUS
<1>2. PICK m \in B : \A k \in B : m <= k
  <2>1. B \in SUBSET Nat
    OBVIOUS
  <2> HIDE DEF B
  <2> QED
    BY <1>1, <2>1, Least
<1>3. CASE m = 0
  <2>1. Flattens(q, 0, [i \in 1 .. 0 |-> 0])
    BY DEF Flattens
  <2> QED
    BY <1>3, <2>1
<1>4. CASE m # 0
  <2>1. m \in Nat /\ m - 1 \in Nat /\ m - 1 \notin B
    BY <1>2, <1>4
  <2>2. PICK f : Flattens(q, m - 1, f)
    BY <2>1
  <2> DEFINE g == [i \in 1 .. m |-> IF i < m THEN f[i] ELSE IF i = 1 THEN q[i] ELSE f[i - 1] \o q[i]]
  <2>3. ASSUME NEW i \in 1 .. m PROVE g[i] = IF i = 1 THEN q[i] ELSE g[i - 1] \o q[i]
    <3>1. CASE i < m
      <4>0. i \in 1 .. m - 1
        BY <2>1, <3>1
      <4>1. f[i] = IF i = 1 THEN q[i] ELSE f[i - 1] \o q[i]
        BY <2>2, <4>0, Zenon DEF Flattens
      <4>2. i # 1 => i - 1 \in 1 .. m /\ i - 1 < m
        BY <2>1
      <4> QED
        BY <3>1, <4>1, <4>2
    <3>2. CASE i = m
      <4>1. i # 1 => i - 1 \in 1 .. m /\ i - 1 < m
        BY <2>1
      <4> QED
        BY <2>1, <3>2, <4>1
    <3> QED
      BY <2>1, <3>1, <3>2
  <2>4. Flattens(q, m, g)
    <3>1. g = [i \in 1 .. m |-> g[i]]
      OBVIOUS
    <3> HIDE DEF g
    <3> QED
      BY <2>3, <3>1 DEF Flattens
  <2> QED
    BY <2>4
<1> QED
  BY <1>3, <1>4

\* The elements of c are those of a and of b.
Joins(c, a, b) ==
  /\ \A j \in DOMAIN c : (\E i \in DOMAIN a : c[j] = a[i]) \/ (\E i \in DOMAIN b : c[j] = b[i])
  /\ \A i \in DOMAIN a : \E j \in DOMAIN c : c[j] = a[i]
  /\ \A i \in DOMAIN b : \E j \in DOMAIN c : c[j] = b[i]

LEMMA Concatenated ==
  ASSUME NEW S, NEW a \in Seq(S), NEW b \in Seq(S), NEW c, c = a \o b
  PROVE  c \in Seq(S) /\ Joins(c, a, b)
<1>1. /\ c \in Seq(S) /\ Len(c) = Len(a) + Len(b)
      /\ \A j \in 1 .. Len(a) + Len(b) : c[j] = IF j <= Len(a) THEN a[j] ELSE b[j - Len(a)]
  BY ConcatProperties
<1>2. /\ DOMAIN a = 1 .. Len(a) /\ Len(a) \in Nat /\ DOMAIN b = 1 .. Len(b) /\ Len(b) \in Nat
      /\ DOMAIN c = 1 .. Len(a) + Len(b)
  BY <1>1, LenProperties
<1>3. ASSUME NEW j \in DOMAIN c
      PROVE  (\E i \in DOMAIN a : c[j] = a[i]) \/ (\E i \in DOMAIN b : c[j] = b[i])
  <2>1. CASE j <= Len(a)
    BY <1>1, <1>2, <2>1
  <2>2. CASE ~(j <= Len(a))
    <3>1. j - Len(a) \in DOMAIN b /\ c[j] = b[j - Len(a)]
      BY <1>1, <1>2, <2>2
    <3> QED
      BY <3>1
  <2> QED
    BY <2>1, <2>2
<1>4. ASSUME NEW i \in DOMAIN a PROVE i \in DOMAIN c /\ c[i] = a[i]
  BY <1>1, <1>2
<1>5. ASSUME NEW i \in DOMAIN b PROVE Len(a) + i \in DOMAIN c /\ c[Len(a) + i] = b[i]
  BY <1>1, <1>2
<1> QED
  BY <1>1, <1>3, <1>4, <1>5 DEF Joins

\* r holds the elements of the first n sequences, and no others.
Holds(q, n, r) ==
  /\ \A j \in DOMAIN r : \E u \in 1 .. n : \E i \in DOMAIN q[u] : r[j] = q[u][i]
  /\ \A u \in 1 .. n : \A i \in DOMAIN q[u] : \E j \in DOMAIN r : r[j] = q[u][i]

LEMMA OneMore ==
  ASSUME NEW S, NEW q, NEW n \in Nat, NEW r \in Seq(S), Holds(q, n, r),
         NEW b \in Seq(S), q[n + 1] = b, NEW c, c = r \o b
  PROVE  Holds(q, n + 1, c)
<1>1. Joins(c, r, b)
  BY Concatenated
<1>2. 1 .. n + 1 = (1 .. n) \cup {n + 1}
  OBVIOUS
<1>3. ASSUME NEW j \in DOMAIN c
      PROVE  \E u \in 1 .. n + 1 : \E i \in DOMAIN q[u] : c[j] = q[u][i]
  <2>1. CASE \E i \in DOMAIN r : c[j] = r[i]
    BY <1>2, <2>1 DEF Holds
  <2>2. CASE \E i \in DOMAIN b : c[j] = b[i]
    BY <1>2, <2>2
  <2> QED
    BY <1>1, <2>1, <2>2 DEF Joins
<1>4. ASSUME NEW u \in 1 .. n + 1, NEW i \in DOMAIN q[u]
      PROVE  \E j \in DOMAIN c : c[j] = q[u][i]
  <2>1. CASE u \in 1 .. n
    <3>1. PICK k \in DOMAIN r : r[k] = q[u][i]
      BY <2>1 DEF Holds
    <3> QED
      BY <1>1, <3>1 DEF Joins
  <2>2. CASE u = n + 1
    BY <1>1, <2>2 DEF Joins
  <2> QED
    BY <1>2, <2>1, <2>2
<1> QED
  BY <1>3, <1>4 DEF Holds

\* Flattening keeps each element of each sequence and adds none.
LEMMA Flattened ==
  ASSUME NEW S, NEW q \in Seq(Seq(S))
  PROVE  FlattenSeq(q) \in Seq(S) /\ Holds(q, Len(q), FlattenSeq(q))
<1>a. Len(q) \in Nat /\ DOMAIN q = 1 .. Len(q) /\ \A u \in 1 .. Len(q) : q[u] \in Seq(S)
  BY LenProperties, ElementOfSeq
<1>1. CASE Len(q) = 0
  <2>1. FlattenSeq(q) = q
    BY <1>1 DEF FlattenSeq
  <2>2. DOMAIN q = {} /\ q = <<>>
    BY <1>a, <1>1
  <2> QED
    BY <1>1, <2>1, <2>2 DEF Holds
<1>2. CASE Len(q) # 0
  <2> DEFINE F == CHOOSE f : f = [i \in 1 .. Len(q) |-> IF i = 1 THEN q[i] ELSE f[i - 1] \o q[i]]
             Good(n) == F[n] \in Seq(S) /\ Holds(q, n, F[n])
             B == {n \in 1 .. Len(q) : ~Good(n)}
  <2>1. FlattenSeq(q) = F[Len(q)]
    BY <1>2, Zenon DEF FlattenSeq
  <2>2. F = [i \in 1 .. Len(q) |-> IF i = 1 THEN q[i] ELSE F[i - 1] \o q[i]]
    <3>1. \E f : f = [i \in 1 .. Len(q) |-> IF i = 1 THEN q[i] ELSE f[i - 1] \o q[i]]
      BY <1>a, FlattensExists DEF Flattens
    <3> QED
      BY <3>1, Zenon
  <2> HIDE DEF F
  <2>3. \A i \in 1 .. Len(q) : F[i] = IF i = 1 THEN q[i] ELSE F[i - 1] \o q[i]
    BY <2>2, Zenon
  <2>4. ASSUME B # {} PROVE FALSE
    <3>1. PICK m \in B : \A k \in B : m <= k
      <4>1. B \in SUBSET Nat
        BY <1>a
      <4> HIDE DEF B
      <4> QED
        BY <2>4, <4>1, Least
    <3>2. m \in 1 .. Len(q) /\ m \in Nat /\ q[m] \in Seq(S) /\ ~Good(m)
      BY <1>a, <3>1
    <3>3. CASE m = 1
      <4>1. F[1] = q[1]
        BY <2>3, <3>2, <3>3
      <4> QED
        BY <3>2, <3>3, <4>1 DEF Holds
    <3>4. CASE m # 1
      <4>1. m - 1 \in 1 .. Len(q) /\ m - 1 \in Nat /\ m - 1 + 1 = m /\ ~(m <= m - 1)
        BY <1>a, <3>2, <3>4
      <4>2. Good(m - 1)
        <5> HIDE DEF Good
        <5> QED
          BY <3>1, <4>1
      <4>3. F[m] = F[m - 1] \o q[m]
        BY <2>3, <3>2, <3>4
      <4>4. Holds(q, m, F[m])
        BY <3>2, <4>1, <4>2, <4>3, OneMore
      <4>5. F[m] \in Seq(S)
        BY <3>2, <4>2, <4>3, Concatenated
      <4> QED
        BY <3>2, <4>4, <4>5
    <3> QED
      BY <3>3, <3>4
  <2>5. Good(Len(q))
    <3>1. Len(q) \in 1 .. Len(q)
      BY <1>a, <1>2
    <3> HIDE DEF Good
    <3> QED
      BY <2>4, <3>1
  <2> QED
    BY <2>1, <2>5
<1> QED
  BY <1>1, <1>2
Info == [throwAddr : Nat \ {0}, GetException : {Null} \cup [error : Errors \cup {Garbage}, captures : BOOLEAN]]

LEMMA SiteInfo == \A s \in Site : ThrowInfo(s) \in Info
BY DEF Site, Info, ThrowInfo, GenExceptionFn, Captures

\* The section has an element for each site of each unit, and no others: no
\* throw of the program is left out, whichever translation unit it is in.
THEOREM SectionHasAllSites ==
  ASSUME NEW units \in Seq(Seq(Site))
  PROVE  /\ Link(units) \in Seq(Info)
         /\ \A j \in DOMAIN Link(units) : \E s \in SitesOf(units) : Link(units)[j] = ThrowInfo(s)
         /\ \A s \in SitesOf(units) : \E j \in DOMAIN Link(units) : Link(units)[j] = ThrowInfo(s)
<1> DEFINE q == [u \in DOMAIN units |-> Compiled(units[u])]
<1>a. /\ Len(units) \in Nat /\ DOMAIN units = 1 .. Len(units)
      /\ \A u \in 1 .. Len(units) : units[u] \in Seq(Site)
  BY LenProperties, ElementOfSeq
<1>1. ASSUME NEW u \in DOMAIN units
      PROVE  /\ Compiled(units[u]) \in Seq(Info) /\ DOMAIN Compiled(units[u]) = DOMAIN units[u]
             /\ \A i \in DOMAIN units[u] : Compiled(units[u])[i] = ThrowInfo(units[u][i])
  <2>1. units[u] \in Seq(Site)
    BY <1>a
  <2>2. /\ Len(units[u]) \in Nat /\ DOMAIN units[u] = 1 .. Len(units[u])
        /\ \A i \in 1 .. Len(units[u]) : units[u][i] \in Site
    BY <2>1, LenProperties, ElementOfSeq
  <2>3. Compiled(units[u]) \in [1 .. Len(units[u]) -> Info]
    BY <2>2, SiteInfo DEF Compiled
  <2> QED
    BY <2>2, <2>3, SeqDef DEF Compiled
<1>2. q \in Seq(Seq(Info)) /\ Len(q) = Len(units) /\ DOMAIN q = DOMAIN units
  <2>1. q \in [1 .. Len(units) -> Seq(Info)]
    BY <1>a, <1>1
  <2>2. q \in Seq(Seq(Info))
    BY <1>a, <2>1, SeqDef
  <2>3. DOMAIN q = 1 .. Len(units)
    BY <1>a
  <2> HIDE DEF q
  <2> QED
    BY <1>a, <2>2, <2>3, LenProperties
<1>3. Link(units) = FlattenSeq(q)
  BY DEF Link
<1>4. \A u \in 1 .. Len(units) : q[u] = Compiled(units[u])
  BY <1>a
<1> HIDE DEF q
<1>5. Link(units) \in Seq(Info) /\ Holds(q, Len(units), Link(units))
  BY <1>2, <1>3, Flattened
<1>6. ASSUME NEW j \in DOMAIN Link(units)
      PROVE  \E s \in SitesOf(units) : Link(units)[j] = ThrowInfo(s)
  <2>1. PICK u \in 1 .. Len(units) : \E i \in DOMAIN q[u] : Link(units)[j] = q[u][i]
    BY <1>5 DEF Holds
  <2>2. PICK i \in DOMAIN units[u] : Link(units)[j] = ThrowInfo(units[u][i])
    BY <1>a, <1>1, <1>4, <2>1
  <2>3. units[u][i] \in SitesOf(units)
    BY <1>a, <2>2 DEF SitesOf
  <2> QED
    BY <2>2, <2>3
<1>7. ASSUME NEW s \in SitesOf(units)
      PROVE  \E j \in DOMAIN Link(units) : Link(units)[j] = ThrowInfo(s)
  <2>1. PICK u \in 1 .. Len(units) : \E i \in DOMAIN units[u] : s = units[u][i]
    BY <1>a DEF SitesOf
  <2>2. PICK i \in DOMAIN units[u] : s = units[u][i]
    BY <2>1
  <2>3. i \in DOMAIN q[u] /\ q[u][i] = ThrowInfo(s)
    BY <1>a, <1>1, <1>4, <2>2
  <2> QED
    BY <1>5, <2>3 DEF Holds
<1> QED
  BY <1>5, <1>6, <1>7
=============================================================================
