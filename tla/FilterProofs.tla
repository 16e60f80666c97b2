------------------------------ MODULE FilterProofs ------------------------------
(***************************************************************************)
(* Filtering keeps the elements it should, in a sequence of their type,    *)
(* and none more often than before, for every sequence and set.  A filter  *)
(* is defined by recursion over the length, so this needs an induction:    *)
(* the prefixes for which it fails would have a shortest one.              *)
(***************************************************************************)
EXTENDS Filter, Functions, WellFoundedInduction, SequenceTheorems, TLAPS

\* A set of natural numbers that is not empty has a least element.
LEMMA Least ==
  ASSUME NEW T \in SUBSET Nat, T # {}
  PROVE  \E n \in T : \A m \in T : n <= m
<1> DEFINE R == {p \in Nat \X Nat : p[1] < p[2]}
<1>1. IsWellFoundedOn(R, Nat)
  BY NatLessThanWellFounded DEF OpToRel
<1>2. \A m, n \in Nat : m < n => <<m, n>> \in R
  OBVIOUS
<1> HIDE DEF R
<1>3. PICK n \in T : \A m \in T : ~(<<m, n>> \in R)
  BY <1>1, WFMin
<1>4. ASSUME NEW m \in T PROVE n <= m
  <2>1. m \in Nat /\ n \in Nat /\ ~(m < n)
    BY <1>2, <1>3
  <2>2. QED
    BY <2>1
<1>5. QED
  BY <1>4

\* f is what the recursion of Only defines for the first n elements of s.
Counts(f, s, S, n) == f = [k \in 0 .. n |-> IF k = 0 THEN << >>
                             ELSE IF s[k] \in S THEN Append(f[k - 1], s[k]) ELSE f[k - 1]]

\* The recursion of Only defines a function.
LEMMA Defined ==
  ASSUME NEW s, NEW S, NEW n \in Nat
  PROVE  \E f : Counts(f, s, S, n)
<1> DEFINE T == {m \in Nat : ~ \E f : Counts(f, s, S, m)}
<1> SUFFICES ASSUME T # {} PROVE FALSE
  OBVIOUS
<1>1. PICK m \in T : \A l \in T : m <= l
  <2>1. T \in SUBSET Nat
    OBVIOUS
  <2> HIDE DEF T
  <2>2. QED
    BY <2>1, Least
<1>2. m # 0
  <2>1. Counts([k \in 0 .. 0 |-> << >>], s, S, 0)
    BY DEF Counts
  <2>2. QED
    BY <2>1
<1>3. PICK f : Counts(f, s, S, m - 1)
  BY <1>1, <1>2
<1> DEFINE g == [k \in 0 .. m |-> IF k < m THEN f[k]
                               ELSE IF s[m] \in S THEN Append(f[m - 1], s[m]) ELSE f[m - 1]]
<1>4. Counts(g, s, S, m)
  <2>1. ASSUME NEW k \in 0 .. m PROVE g[k] = IF k = 0 THEN << >> ELSE IF s[k] \in S THEN Append(g[k - 1], s[k]) ELSE g[k - 1]
    <3>1. CASE k < m
      <4>1. k \in 0 .. m - 1 /\ g[k] = f[k] /\ (k # 0 => g[k - 1] = f[k - 1])
        BY <1>1, <3>1
      <4>2. f[k] = IF k = 0 THEN << >> ELSE IF s[k] \in S THEN Append(f[k - 1], s[k]) ELSE f[k - 1]
        BY <1>3, <4>1, Zenon DEF Counts
      <4>3. QED
        BY <4>1, <4>2
    <3>2. CASE k = m
      <4>1. k # 0 /\ g[k - 1] = f[m - 1]
        BY <1>1, <1>2, <3>2
      <4>2. QED
        BY <3>2, <4>1
    <3>3. QED
      BY <3>1, <3>2, <1>1
  <2>2. QED
    BY <2>1 DEF Counts
<1>5. QED
  BY <1>1, <1>4

\* Only is the last value of that function.
LEMMA OnlyCounts ==
  ASSUME NEW s, NEW S, Len(s) \in Nat
  PROVE  \E f : Counts(f, s, S, Len(s)) /\ Only(s, S) = f[Len(s)]
<1> DEFINE kept == CHOOSE f : f = [k \in 0 .. Len(s) |-> IF k = 0 THEN << >>
                             ELSE IF s[k] \in S THEN Append(f[k - 1], s[k]) ELSE f[k - 1]]
<1>1. \E f : f = [k \in 0 .. Len(s) |-> IF k = 0 THEN << >>
                             ELSE IF s[k] \in S THEN Append(f[k - 1], s[k]) ELSE f[k - 1]]
  <2>1. \E f : Counts(f, s, S, Len(s))
    BY Defined
  <2>2. QED
    BY <2>1, Zenon DEF Counts
<1>2. kept = [k \in 0 .. Len(s) |-> IF k = 0 THEN << >>
                             ELSE IF s[k] \in S THEN Append(kept[k - 1], s[k]) ELSE kept[k - 1]]
  BY <1>1, Zenon
<1>3. Only(s, S) = kept[Len(s)]
  BY Zenon DEF Only
<1>4. QED
  BY <1>2, <1>3, Zenon DEF Counts

\* x is an element of q; q has no element twice.
In(q, x) == \E i \in 1 .. Len(q) : q[i] = x
Single(q) == \A i, j \in 1 .. Len(q) : q[i] = q[j] => i = j

\* What appending an element does to a sequence.
LEMMA Appended ==
  ASSUME NEW T, NEW q \in Seq(T), NEW y \in T
  PROVE  /\ Append(q, y) \in Seq(T)
         /\ \A x : In(Append(q, y), x) <=> In(q, x) \/ x = y
         /\ Single(q) /\ ~In(q, y) => Single(Append(q, y))
<1>1. /\ Append(q, y) \in Seq(T) /\ Len(Append(q, y)) = Len(q) + 1 /\ Len(q) \in Nat
      /\ \A i \in 1 .. Len(q) : Append(q, y)[i] = q[i]
      /\ Append(q, y)[Len(q) + 1] = y
  BY AppendProperties, LenProperties
<1> DEFINE r == Append(q, y)
<1> HIDE DEF r
<1>2. \A i : i \in 1 .. Len(r) <=> i \in 1 .. Len(q) \/ i = Len(q) + 1
  BY <1>1 DEF r
<1>3. \A x : In(r, x) <=> In(q, x) \/ x = y
  BY <1>1, <1>2 DEF In, r
<1>4. Single(q) /\ ~In(q, y) => Single(r)
  BY <1>1, <1>2 DEF Single, In, r
<1>5. QED
  BY <1>1, <1>3, <1>4 DEF r

\* What filtering does, element by element.
LEMMA OnlyElements ==
  ASSUME NEW T, NEW s \in Seq(T), NEW S
  PROVE  /\ Only(s, S) \in Seq(T)
         /\ \A x : In(Only(s, S), x) <=> In(s, x) /\ x \in S
         /\ Single(s) => Single(Only(s, S))
<1>1. Len(s) \in Nat /\ \A i \in 1 .. Len(s) : s[i] \in T
  BY LenProperties, ElementOfSeq
<1>2. PICK f : Counts(f, s, S, Len(s)) /\ Only(s, S) = f[Len(s)]
  BY <1>1, OnlyCounts
<1> DEFINE Upto(k, x) == \E j \in 1 .. k : s[j] = x
           P(k) == /\ f[k] \in Seq(T)
                   /\ \A x : In(f[k], x) <=> Upto(k, x) /\ x \in S
                   /\ Single(s) => Single(f[k])
           Bad == {k \in 0 .. Len(s) : ~P(k)}
<1>3. P(0)
  <2>1. f[0] = << >>
    BY <1>1, <1>2 DEF Counts
  <2>2. << >> \in Seq(T) /\ Len(<< >>) = 0
    OBVIOUS
  <2>3. QED
    BY <2>1, <2>2 DEF In, Single
<1>4. ASSUME NEW k \in 1 .. Len(s), P(k - 1) PROVE P(k)
  <2>1. f[k] = IF s[k] \in S THEN Append(f[k - 1], s[k]) ELSE f[k - 1]
    <3>1. k \in 0 .. Len(s) /\ k # 0
      BY <1>1
    <3>2. f[k] = IF k = 0 THEN << >> ELSE IF s[k] \in S THEN Append(f[k - 1], s[k]) ELSE f[k - 1]
      BY <1>2, <3>1, Zenon DEF Counts
    <3>3. QED
      BY <3>1, <3>2
  <2>2. \A x : Upto(k, x) <=> Upto(k - 1, x) \/ x = s[k]
    BY <1>1
  <2>3. Single(s) => ~Upto(k - 1, s[k])
    BY <1>1 DEF Single
  <2>4. s[k] \in T
    BY <1>1
  <2> HIDE DEF Upto
  <2>5. CASE s[k] \in S
    BY <1>4, <2>1, <2>2, <2>3, <2>4, <2>5, Appended
  <2>6. CASE s[k] \notin S
    BY <1>4, <2>1, <2>2, <2>6
  <2>7. QED
    BY <2>5, <2>6
<1>5. Bad = {}
  <2> SUFFICES ASSUME Bad # {} PROVE FALSE
    OBVIOUS
  <2>1. Bad \in SUBSET Nat
    BY <1>1
  <2>2. PICK k \in Bad : \A l \in Bad : k <= l
    <3> HIDE DEF Bad
    <3>1. QED
      BY <2>1, Least
  <2>3. k \in 0 .. Len(s) /\ k # 0 /\ ~P(k)
    BY <1>3, <2>2
  <2>4. k - 1 \in 0 .. Len(s) /\ ~(k <= k - 1)
    BY <1>1, <2>3
  <2>5. P(k - 1)
    BY <2>2, <2>4
  <2> HIDE DEF P
  <2>6. QED
    BY <1>4, <2>3, <2>4, <2>5
<1>6. P(Len(s))
  <2>1. Len(s) \in 0 .. Len(s)
    BY <1>1
  <2> HIDE DEF P
  <2>2. QED
    BY <1>5, <2>1
<1>7. QED
  BY <1>2, <1>6 DEF In

\* What filtering does: its result is a sequence of the same type, of the elements of s that are
\* in S, and has none twice if s has none twice.
THEOREM OnlyProperties ==
  ASSUME NEW T, NEW s \in Seq(T), NEW S
  PROVE  /\ Only(s, S) \in Seq(T)
         /\ Range(Only(s, S)) = Range(s) \cap S
         /\ IsInjective(s) => IsInjective(Only(s, S))
<1> DEFINE q == Only(s, S)
<1>1. /\ q \in Seq(T)
      /\ \A x : In(q, x) <=> In(s, x) /\ x \in S
      /\ Single(s) => Single(q)
  BY OnlyElements
<1> HIDE DEF q
<1>2. DOMAIN s = 1 .. Len(s) /\ DOMAIN q = 1 .. Len(q)
  BY <1>1, LenProperties
<1>3. Range(q) = Range(s) \cap S
  BY <1>1, <1>2 DEF In, Range
<1>4. IsInjective(s) => IsInjective(q)
  BY <1>1, <1>2 DEF Single, IsInjective
<1>5. QED
  BY <1>1, <1>3, <1>4 DEF q
=============================================================================
