-------------------------- MODULE SequenceProofs --------------------------
(***************************************************************************)
(* Facts about sequences and sets of numbers that the proofs about the     *)
(* model rest on: Min and Max choose what they are named for, what joining *)
(* sequences keeps of them, how an order numbers its indexes, and how a    *)
(* sum changes with its terms.                                             *)
(***************************************************************************)
EXTENDS Sums, SequencesExt, Integers, FiniteSetsExt, WellFoundedInduction,
        SequenceTheorems, FiniteSetTheorems, TLAPS

-----------------------------------------------------------------------------
(***************************************************************************)
(* The first and the last: Min and Max of FiniteSetsExt choose what they   *)
(* are named for.                                                          *)
(***************************************************************************)

\* A set of natural numbers that is not empty has a least element.
LEMMA MinIsLeast ==
  ASSUME NEW S \in SUBSET Nat, S # {}
  PROVE  Min(S) \in S /\ \A k \in S : Min(S) <= k
<1>1. PICK x \in S : \A y \in S : <<y, x>> \notin OpToRel(<, Nat)
  BY NatLessThanWellFounded, WFMin
<1>2. \A y \in S : ~(y < x)
  BY <1>1 DEF OpToRel
<1>3. \A y \in S : x <= y
  BY <1>2
<1> QED
  BY <1>3 DEF Min

\* A set of natural numbers without a least element is empty: the form in which
\* what holds for each number is proved from what holds for the smaller ones.
LEMMA NoneLeft ==
  ASSUME NEW S \in SUBSET Nat, \A n \in S : \E m \in S : m < n
  PROVE  S = {}
<1> SUFFICES ASSUME S # {} PROVE FALSE
  OBVIOUS
<1>1. Min(S) \in S /\ \A k \in S : Min(S) <= k
  BY MinIsLeast
<1>2. PICK m \in S : m < Min(S)
  BY <1>1
<1>3. m \in Nat /\ Min(S) \in Nat /\ Min(S) <= m
  BY <1>1
<1> QED
  BY <1>2, <1>3

\* Some of the natural numbers up to a bound have a greatest element.
LEMMA MaxIsGreatest ==
  ASSUME NEW n \in Nat, NEW S \in SUBSET (0 .. n), S # {}
  PROVE  Max(S) \in S /\ \A k \in S : k <= Max(S)
<1> DEFINE T == {n - k : k \in S}
<1>0. \A k \in S : k \in Nat /\ k <= n
  OBVIOUS
<1>1. T \in SUBSET Nat /\ T # {}
  <2>1. \A k \in S : n - k \in Nat
    BY <1>0
  <2> QED
    BY <2>1
<1>2. Min(T) \in T /\ \A k \in T : Min(T) <= k
  BY <1>1, MinIsLeast
<1>3. PICK x \in S : Min(T) = n - x
  BY <1>2
<1>4. ASSUME NEW y \in S
      PROVE  x >= y
  <2>1. n - x <= n - y
    BY <1>2, <1>3
  <2> QED
    BY <1>0, <2>1
<1> QED
  BY <1>0, <1>4 DEF Max

\* Of a set with one index, the first and the last are that index.
LEMMA OnlyOne ==
  ASSUME NEW n \in Nat, NEW k \in 1 .. n
  PROVE  Min({k}) = k /\ Max({k}) = k
<1>1. {k} \in SUBSET Nat /\ {k} \in SUBSET (0 .. n)
  OBVIOUS
<1> QED
  BY <1>1, MinIsLeast, MaxIsGreatest

-----------------------------------------------------------------------------
(***************************************************************************)
(* Sequences                                                               *)
(***************************************************************************)

\* The function that FlattenSeq computes with exists.
LEMMA FlattenDefined ==
  ASSUME NEW seqs, NEW n \in Nat
  PROVE  \E f : f = [i \in 1 .. n |-> IF i = 1 THEN seqs[i] ELSE f[i - 1] \o seqs[i]]
<1> DEFINE Rec(k, f) == [i \in 1 .. k |-> IF i = 1 THEN seqs[i] ELSE f[i - 1] \o seqs[i]]
           P(k) == \E f : f = Rec(k, f)
           S == {k \in Nat : ~P(k)}
<1>1. ASSUME NEW k \in Nat, k = 0 \/ P(k - 1)
      PROVE  P(k)
  <2>1. CASE k = 0
    <3> DEFINE f == [i \in {} |-> i]
    <3>1. f = Rec(k, f)
      BY <2>1
    <3> QED
      BY <3>1
  <2>2. CASE k # 0
    <3>1. PICK f : f = Rec(k - 1, f)
      BY <1>1, <2>2
    <3> DEFINE g == Rec(k, f)
    <3>2. \A i \in 1 .. k : i - 1 \in 1 .. k - 1 => g[i - 1] = f[i - 1]
      <4>1. \A i \in 1 .. k - 1 : g[i] = IF i = 1 THEN seqs[i] ELSE f[i - 1] \o seqs[i]
        BY <2>2
      <4>2. \A i \in 1 .. k - 1 : f[i] = IF i = 1 THEN seqs[i] ELSE f[i - 1] \o seqs[i]
        BY <3>1
      <4> QED
        BY <4>1, <4>2
    <3>3. \A i \in 1 .. k : i = 1 \/ i - 1 \in 1 .. k - 1
      OBVIOUS
    <3>4. g = Rec(k, g)
      BY <3>2, <3>3
    <3> QED
      BY <3>4
  <2> QED
    BY <2>1, <2>2
<1> HIDE DEF P
<1>2. \A k \in S : \E m \in S : m < k
  <2>1. \A k \in S : k # 0 /\ k - 1 \in Nat /\ k - 1 < k /\ ~P(k - 1)
    BY <1>1
  <2> QED
    BY <2>1
<1>3. S = {}
  BY <1>2, NoneLeft
<1>4. P(n)
  BY <1>3
<1> QED
  BY <1>4 DEF P

LEMMA BoundedAreSeqs ==
  ASSUME NEW S, NEW n \in Nat, NEW seq \in BoundedSeq(S, n)
  PROVE  seq \in Seq(S) /\ Len(seq) <= n
<1>1. PICK m \in 0 .. n : seq \in [1 .. m -> S]
  BY DEF BoundedSeq, SeqOf
<1> QED
  BY <1>1

\* Concatenation puts the elements of two sequences into one.
LEMMA RangesJoined ==
  ASSUME NEW X, NEW s \in Seq(X), NEW t \in Seq(X)
  PROVE  s \o t \in Seq(X) /\ Range(s \o t) = Range(s) \union Range(t)
<1>1. /\ s \o t \in Seq(X) /\ Len(s \o t) = Len(s) + Len(t)
      /\ \A k \in 1 .. Len(s) + Len(t) : (s \o t)[k] =
            IF k <= Len(s) THEN s[k] ELSE t[k - Len(s)]
  BY ConcatProperties
<1>2. /\ Len(s) \in Nat /\ DOMAIN s = 1 .. Len(s)
      /\ Len(t) \in Nat /\ DOMAIN t = 1 .. Len(t)
      /\ DOMAIN (s \o t) = 1 .. Len(s) + Len(t)
  BY <1>1, LenProperties
<1>3. \A x \in Range(s) : x \in Range(s \o t)
  BY <1>1, <1>2 DEF Range
<1>4. \A k \in DOMAIN t : t[k] = (s \o t)[Len(s) + k] /\ Len(s) + k \in DOMAIN (s \o t)
  BY <1>1, <1>2
<1>5. \A x \in Range(t) : x \in Range(s \o t)
  BY <1>4 DEF Range
<1>6. \A x \in Range(s \o t) : x \in Range(s) \/ x \in Range(t)
  BY <1>1, <1>2 DEF Range
<1> QED
  BY <1>1, <1>3, <1>5, <1>6

\* FlattenSeq puts the elements of all sequences into one.
LEMMA FlattenElements ==
  ASSUME NEW X, NEW n \in Nat, NEW seqs \in [1 .. n -> Seq(X)]
  PROVE  /\ FlattenSeq(seqs) \in Seq(X)
         /\ \A x : x \in Range(FlattenSeq(seqs)) <=> \E i \in 1 .. n : x \in Range(seqs[i])
<1>1. seqs \in Seq(Seq(X)) /\ Len(seqs) = n
  OBVIOUS
<1>2. CASE n = 0
  <2>1. seqs = <<>>
    BY <1>1, <1>2
  <2>2. FlattenSeq(seqs) = <<>>
    BY <1>1, <1>2, <2>1 DEF FlattenSeq
  <2> QED
    BY <1>2, <2>2 DEF Range
<1>3. CASE n > 0
  <2> DEFINE Rec(f) == [i \in 1 .. n |-> IF i = 1 THEN seqs[i] ELSE f[i - 1] \o seqs[i]]
             f == CHOOSE f : f = Rec(f)
  <2>1. f = Rec(f)
    BY FlattenDefined
  <2>2. FlattenSeq(seqs) = f[n]
    BY <1>1, <1>3 DEF FlattenSeq
  <2> HIDE DEF f
  <2> DEFINE Until(i) == UNION {Range(seqs[j]) : j \in 1 .. i}
             S == {i \in 1 .. n : ~(f[i] \in Seq(X) /\ Range(f[i]) = Until(i))}
  <2>3. ASSUME NEW i \in S
        PROVE  \E m \in S : m < i
    <3>1. CASE i = 1
      <4>1. f[1] = seqs[1]
        BY <1>3, <2>1
      <4>2. Until(1) = Range(seqs[1])
        OBVIOUS
      <4> QED
        BY <3>1, <4>1, <4>2
    <3>2. CASE i # 1 /\ i - 1 \notin S
      <4>1. f[i] = f[i - 1] \o seqs[i]
        BY <2>1, <3>2
      <4>2. f[i - 1] \in Seq(X) /\ Range(f[i - 1]) = Until(i - 1) /\ seqs[i] \in Seq(X)
        BY <3>2
      <4>3. f[i] \in Seq(X) /\ Range(f[i]) = Range(f[i - 1]) \union Range(seqs[i])
        <5> DEFINE s == f[i - 1]
                   t == seqs[i]
        <5>1. s \o t \in Seq(X) /\ Range(s \o t) = Range(s) \union Range(t)
          BY <4>2, RangesJoined
        <5> HIDE DEF s, t
        <5> QED
          BY <4>1, <5>1 DEF s, t
      <4>4. Until(i) = Until(i - 1) \union Range(seqs[i])
        <5>1. 1 .. i = (1 .. i - 1) \union {i}
          OBVIOUS
        <5> QED
          BY <5>1
      <4> QED
        BY <4>2, <4>3, <4>4
    <3>3. i - 1 \in Nat /\ i - 1 < i
      OBVIOUS
    <3> QED
      BY <3>1, <3>2, <3>3
  <2>4. S \in SUBSET Nat
    OBVIOUS
  <2>5. S = {}
    BY <2>3, <2>4, NoneLeft
  <2>6. f[n] \in Seq(X) /\ Range(f[n]) = Until(n)
    <3>1. n \in 1 .. n
      BY <1>3
    <3> HIDE DEF Until
    <3> QED
      BY <2>5, <3>1
  <2> QED
    BY <2>2, <2>6
<1> QED
  BY <1>2, <1>3

\* and no two of them come from the same place.
Apart(flat, seqs, n) ==
    \A a, b \in DOMAIN flat : a # b =>
        \E i, j \in 1 .. n : \E k \in DOMAIN seqs[i], l \in DOMAIN seqs[j] :
            flat[a] = seqs[i][k] /\ flat[b] = seqs[j][l] /\ (i # j \/ k # l)

LEMMA FlattenApart ==
  ASSUME NEW X, NEW n \in Nat, NEW seqs \in [1 .. n -> Seq(X)]
  PROVE  Apart(FlattenSeq(seqs), seqs, n)
<1>1. seqs \in Seq(Seq(X)) /\ Len(seqs) = n
  OBVIOUS
<1>2. CASE n = 0
  <2>1. seqs = <<>>
    BY <1>1, <1>2
  <2>2. FlattenSeq(seqs) = <<>>
    BY <1>1, <1>2, <2>1 DEF FlattenSeq
  <2> QED
    BY <2>2 DEF Apart
<1>3. CASE n > 0
  <2> DEFINE Rec(f) == [i \in 1 .. n |-> IF i = 1 THEN seqs[i] ELSE f[i - 1] \o seqs[i]]
             f == CHOOSE f : f = Rec(f)
             Of(s, a, i, k) == i \in 1 .. n /\ k \in DOMAIN seqs[i] /\ s[a] = seqs[i][k]
             Before(s, a, b, m) ==
                \E i, j \in 1 .. m : \E k \in DOMAIN seqs[i], l \in DOMAIN seqs[j] :
                    s[a] = seqs[i][k] /\ s[b] = seqs[j][l] /\ (i # j \/ k # l)
             From(s, m) == /\ s \in Seq(X)
                           /\ \A a \in DOMAIN s : \E i \in 1 .. m : \E k \in DOMAIN seqs[i] : s[a] = seqs[i][k]
                           /\ \A a, b \in DOMAIN s : a < b => Before(s, a, b, m)
  <2>1. f = Rec(f)
    BY FlattenDefined
  <2>2. FlattenSeq(seqs) = f[n]
    BY <1>1, <1>3 DEF FlattenSeq
  <2> HIDE DEF f
  <2> DEFINE S == {i \in 1 .. n : ~From(f[i], i)}
  <2>3. From(f[1], 1)
    <3>1. f[1] = seqs[1] /\ seqs[1] \in Seq(X)
      BY <1>3, <2>1
    <3>2. \A a, b \in DOMAIN seqs[1] : a < b => Before(seqs[1], a, b, 1)
      <4>1. 1 \in 1 .. 1
        OBVIOUS
      <4> QED
        BY <4>1
    <3> QED
      BY <3>1, <3>2
  <2>4. ASSUME NEW m \in 1 .. n, m # 1, From(f[m - 1], m - 1)
        PROVE  From(f[m], m)
    <3> DEFINE s == f[m - 1]
               t == seqs[m]
               st == s \o t
    <3>1. f[m] = st
      BY <2>1, <2>4
    <3>2. s \in Seq(X) /\ t \in Seq(X) /\ m - 1 \in 1 .. n /\ m \in Nat
      BY <2>4
    <3>3. /\ \A a \in DOMAIN s : \E i \in 1 .. m - 1 : \E k \in DOMAIN seqs[i] : s[a] = seqs[i][k]
          /\ \A a, b \in DOMAIN s : a < b => Before(s, a, b, m - 1)
      BY <2>4
    <3>4. t = seqs[m]
      OBVIOUS
    <3> HIDE DEF s, t
    <3>5. /\ st \in Seq(X) /\ Len(s) \in Nat /\ Len(t) \in Nat
          /\ DOMAIN st = 1 .. Len(s) + Len(t) /\ DOMAIN s = 1 .. Len(s) /\ DOMAIN t = 1 .. Len(t)
          /\ \A a \in 1 .. Len(s) + Len(t) : st[a] = IF a <= Len(s) THEN s[a] ELSE t[a - Len(s)]
      BY <3>2, ConcatProperties, LenProperties
    <3>6. \A i \in 1 .. m - 1 : i \in 1 .. m /\ i < m
      BY <3>2
    <3>7. m \in 1 .. m
      BY <3>2
    <3>8. \A a \in DOMAIN st : \/ a \in DOMAIN s /\ st[a] = s[a]
                               \/ /\ a - Len(s) \in DOMAIN t /\ st[a] = t[a - Len(s)]
                                  /\ a > Len(s)
      BY <3>5
    <3> HIDE DEF st
    <3>9. ASSUME NEW a \in DOMAIN st
          PROVE  \E i \in 1 .. m : \E k \in DOMAIN seqs[i] : st[a] = seqs[i][k]
      <4>1. CASE a \in DOMAIN s /\ st[a] = s[a]
        <5>1. PICK i \in 1 .. m - 1 : \E k \in DOMAIN seqs[i] : s[a] = seqs[i][k]
          BY <3>3, <4>1
        <5>2. i \in 1 .. m
          BY <3>6
        <5> QED
          BY <4>1, <5>1, <5>2
      <4>2. CASE a - Len(s) \in DOMAIN t /\ st[a] = t[a - Len(s)]
        BY <3>4, <3>7, <4>2
      <4> QED
        BY <3>8, <4>1, <4>2
    <3>10. ASSUME NEW a \in DOMAIN st, NEW b \in DOMAIN st, a < b
           PROVE  Before(st, a, b, m)
      <4>1. CASE a \in DOMAIN s /\ st[a] = s[a] /\ b \in DOMAIN s /\ st[b] = s[b]
        <5>1. Before(s, a, b, m - 1)
          BY <3>3, <3>10, <4>1
        <5>2. PICK i \in 1 .. m - 1, j \in 1 .. m - 1 :
                  \E k \in DOMAIN seqs[i], l \in DOMAIN seqs[j] :
                      s[a] = seqs[i][k] /\ s[b] = seqs[j][l] /\ (i # j \/ k # l)
          BY <5>1
        <5>3. i \in 1 .. m /\ j \in 1 .. m
          BY <3>6
        <5>4. PICK k \in DOMAIN seqs[i], l \in DOMAIN seqs[j] :
                  s[a] = seqs[i][k] /\ s[b] = seqs[j][l] /\ (i # j \/ k # l)
          BY <5>2
        <5>5. st[a] = seqs[i][k] /\ st[b] = seqs[j][l]
          BY <4>1, <5>4
        <5> HIDE DEF st
        <5> QED
          BY <5>3, <5>4, <5>5
      <4>2. CASE a \in DOMAIN s /\ st[a] = s[a] /\ b - Len(s) \in DOMAIN t /\ st[b] = t[b - Len(s)]
        <5>1. PICK i \in 1 .. m - 1 : \E k \in DOMAIN seqs[i] : s[a] = seqs[i][k]
          BY <3>3, <4>2
        <5>2. PICK k \in DOMAIN seqs[i] : s[a] = seqs[i][k]
          BY <5>1
        <5>3. i \in 1 .. m /\ i # m
          BY <3>2, <3>6
        <5> QED
          BY <3>4, <3>7, <4>2, <5>2, <5>3
      <4>3. CASE /\ a - Len(s) \in DOMAIN t /\ st[a] = t[a - Len(s)]
                 /\ b - Len(s) \in DOMAIN t /\ st[b] = t[b - Len(s)]
        <5> DEFINE k == a - Len(s)
                   l == b - Len(s)
        <5>1. k # l
          BY <3>5, <3>10
        <5>2. k \in DOMAIN seqs[m] /\ l \in DOMAIN seqs[m] /\ st[a] = seqs[m][k] /\ st[b] = seqs[m][l]
          BY <3>4, <4>3
        <5> HIDE DEF k, l
        <5> QED
          BY <3>7, <5>1, <5>2
      <4>4. ~(a > Len(s) /\ b \in DOMAIN s)
        BY <3>5, <3>10
      <4> QED
        BY <3>8, <4>1, <4>2, <4>3, <4>4
    <3> HIDE DEF Before
    <3>11. From(st, m)
      BY <3>5, <3>9, <3>10
    <3> HIDE DEF From
    <3> QED
      BY <3>1, <3>11
  <2> HIDE DEF From
  <2>5. \A i \in S : \E m \in S : m < i
    <3> SUFFICES ASSUME NEW i \in S PROVE i - 1 \in S /\ i - 1 < i
      OBVIOUS
    <3>1. i # 1
      BY <2>3
    <3>2. i - 1 \in 1 .. n /\ i - 1 < i
      BY <3>1
    <3> QED
      BY <2>4, <3>1, <3>2
  <2>6. S \in SUBSET Nat
    OBVIOUS
  <2>7. S = {}
    BY <2>5, <2>6, NoneLeft
  <2>8. n \in 1 .. n
    BY <1>3
  <2>9. From(f[n], n)
    BY <2>7, <2>8
  <2> DEFINE flat == f[n]
  <2>10. flat \in Seq(X) /\ \A a, b \in DOMAIN flat : a < b => Before(flat, a, b, n)
    BY <2>9 DEF From
  <2> HIDE DEF flat
  <2>11. \A a, b \in DOMAIN flat : a # b => a < b \/ b < a
    BY <2>10
  <2>12. \A a, b \in DOMAIN flat : Before(flat, b, a, n) => Before(flat, a, b, n)
    OBVIOUS
  <2> HIDE DEF Before
  <2>13. \A a, b \in DOMAIN flat : a # b => Before(flat, a, b, n)
    BY <2>10, <2>11, <2>12
  <2> QED
    BY <2>2, <2>13 DEF Before, flat, Apart
<1> QED
  BY <1>2, <1>3

\* One more sequence is put behind the others.
LEMMA FlattenAppend ==
  ASSUME NEW X, NEW n \in Nat, NEW seqs \in [1 .. n -> Seq(X)],
         NEW more \in [1 .. n + 1 -> Seq(X)], \A k \in 1 .. n : more[k] = seqs[k]
  PROVE  FlattenSeq(more) = FlattenSeq(seqs) \o more[n + 1]
<1> DEFINE m == n + 1
           RecF(f) == [i \in 1 .. n |-> IF i = 1 THEN seqs[i] ELSE f[i - 1] \o seqs[i]]
           RecG(g) == [i \in 1 .. m |-> IF i = 1 THEN more[i] ELSE g[i - 1] \o more[i]]
           f == CHOOSE f : f = RecF(f)
           g == CHOOSE g : g = RecG(g)
<1>1. m \in Nat /\ m > 0 /\ Len(seqs) = n /\ Len(more) = m /\ m \in 1 .. m
  OBVIOUS
<1>2. f = RecF(f) /\ g = RecG(g)
  BY <1>1, FlattenDefined
<1>3. FlattenSeq(more) = g[m] /\ (n > 0 => FlattenSeq(seqs) = f[n])
  BY <1>1 DEF FlattenSeq
<1>4. more[m] \in Seq(X)
  BY <1>1
<1>a. \A i \in 1 .. n : f[i] = IF i = 1 THEN seqs[i] ELSE f[i - 1] \o seqs[i]
  <2> HIDE DEF f
  <2> QED BY <1>2
<1>b. \A i \in 1 .. m : g[i] = IF i = 1 THEN more[i] ELSE g[i - 1] \o more[i]
  <2> HIDE DEF g
  <2> QED BY <1>2
<1> HIDE DEF f, g
<1>5. CASE n = 0
  <2>1. seqs = <<>>
    BY <1>1, <1>5
  <2>2. FlattenSeq(seqs) = <<>>
    BY <1>1, <1>5, <2>1 DEF FlattenSeq
  <2>3. g[m] = more[m] /\ m = 1
    BY <1>1, <1>b, <1>5
  <2>4. <<>> \o more[m] = more[m]
    BY <1>4
  <2> QED
    BY <1>3, <2>2, <2>3, <2>4
<1>6. CASE n > 0
  <2> DEFINE S == {i \in 1 .. n : g[i] # f[i]}
  <2>1. \A i \in S : \E k \in S : k < i
    <3> SUFFICES ASSUME NEW i \in S PROVE i - 1 \in S /\ i - 1 < i
      OBVIOUS
    <3>1. /\ f[i] = IF i = 1 THEN seqs[i] ELSE f[i - 1] \o seqs[i]
          /\ g[i] = IF i = 1 THEN more[i] ELSE g[i - 1] \o more[i]
      BY <1>1, <1>a, <1>b
    <3>2. more[i] = seqs[i]
      OBVIOUS
    <3>3. i # 1 /\ g[i - 1] # f[i - 1]
      BY <3>1, <3>2
    <3> QED
      BY <3>3
  <2>2. S \in SUBSET Nat
    OBVIOUS
  <2>3. S = {}
    BY <2>1, <2>2, NoneLeft
  <2>4. g[n] = f[n]
    BY <1>6, <2>3
  <2>5. g[m] = g[n] \o more[m]
    <3>1. m - 1 = n /\ m # 1
      BY <1>6
    <3>2. g[m] = IF m = 1 THEN more[m] ELSE g[m - 1] \o more[m]
      BY <1>1, <1>b
    <3> QED
      BY <3>1, <3>2
  <2> QED
    BY <1>3, <1>6, <2>4, <2>5
<1> QED
  BY <1>5, <1>6

\* What the first of the sequences give is where the whole begins.
Begins(whole, part) ==
    Len(part) <= Len(whole) /\ \A p \in 1 .. Len(part) : whole[p] = part[p]

LEMMA BeginsFurther ==
  ASSUME NEW X, NEW whole \in Seq(X), NEW s \in Seq(X), NEW t \in Seq(X),
         Begins(whole, s \o t)
  PROVE  Begins(whole, s) /\ \A p \in 1 .. Len(t) : whole[Len(s) + p] = t[p]
<1>1. /\ s \o t \in Seq(X) /\ Len(s \o t) = Len(s) + Len(t)
      /\ \A k \in 1 .. Len(s) + Len(t) : (s \o t)[k] =
            IF k <= Len(s) THEN s[k] ELSE t[k - Len(s)]
  BY ConcatProperties
<1>2. Len(s) \in Nat /\ Len(t) \in Nat /\ Len(whole) \in Nat
  BY LenProperties
<1> DEFINE m == Len(s)
           n == Len(t)
<1>3. m + n <= Len(whole) /\ \A p \in 1 .. m + n : whole[p] = (s \o t)[p]
  BY <1>1 DEF Begins
<1>4. \A p \in 1 .. m : p \in 1 .. m + n /\ p <= m
  BY <1>2
<1>5. \A p \in 1 .. m : whole[p] = s[p]
  BY <1>1, <1>3, <1>4
<1>6. \A p \in 1 .. n : m + p \in 1 .. m + n /\ ~(m + p <= m) /\ m + p - m = p
  BY <1>2
<1>7. \A p \in 1 .. n : whole[m + p] = t[p]
  <2> SUFFICES ASSUME NEW p \in 1 .. n PROVE whole[m + p] = t[p]
    OBVIOUS
  <2>1. whole[m + p] = (s \o t)[m + p]
    BY <1>3, <1>6
  <2>2. (s \o t)[m + p] = t[m + p - m]
    BY <1>1, <1>6
  <2> QED
    BY <1>6, <2>1, <2>2
<1>8. m <= Len(whole)
  BY <1>2, <1>3
<1> QED
  BY <1>5, <1>7, <1>8 DEF Begins

LEMMA FlattenBegins ==
  ASSUME NEW X, NEW n \in Nat, NEW seqs \in [1 .. n -> Seq(X)], NEW k \in 0 .. n
  PROVE  Begins(FlattenSeq(seqs), FlattenSeq([i \in 1 .. k |-> seqs[i]]))
<1> DEFINE whole == FlattenSeq(seqs)
           First(m) == [i \in 1 .. m |-> seqs[i]]
           S == {d \in 0 .. n : ~Begins(whole, FlattenSeq(First(n - d)))}
<1>1. \A m \in 0 .. n : m \in Nat /\ First(m) \in [1 .. m -> Seq(X)]
  OBVIOUS
<1>2. \A m \in 0 .. n : FlattenSeq(First(m)) \in Seq(X)
  <2> SUFFICES ASSUME NEW m \in 0 .. n PROVE FlattenSeq(First(m)) \in Seq(X)
    OBVIOUS
  <2> HIDE DEF First
  <2> QED
    BY <1>1, FlattenElements
<1>3. First(n) = seqs
  OBVIOUS
<1>4. whole \in Seq(X)
  BY FlattenElements
<1>5. Begins(whole, whole)
  <2> HIDE DEF whole
  <2>1. Len(whole) \in Nat
    BY <1>4, LenProperties
  <2> QED
    BY <2>1 DEF Begins
<1>6. ASSUME NEW d \in S PROVE d - 1 \in S /\ d - 1 < d
  <2>1. d # 0
    <3>1. n - 0 = n
      OBVIOUS
    <3>2. ~Begins(whole, FlattenSeq(First(n - d)))
      OBVIOUS
    <3> HIDE DEF First
    <3> QED
      BY <1>3, <1>5, <3>1, <3>2
  <2>2. d \in 1 .. n /\ d - 1 \in 0 .. n /\ d - 1 < d
    BY <2>1
  <2> DEFINE m == n - d
  <2>3. m \in Nat /\ m \in 0 .. n /\ m + 1 \in 0 .. n /\ n - (d - 1) = m + 1
    BY <2>2
  <2>4. First(m + 1) \in [1 .. m + 1 -> Seq(X)] /\ First(m) \in [1 .. m -> Seq(X)]
    BY <1>1, <2>3
  <2>5. \A i \in 1 .. m : First(m + 1)[i] = First(m)[i]
    BY <2>3
  <2>6. First(m + 1)[m + 1] \in Seq(X)
    BY <2>3
  <2>7. ~Begins(whole, FlattenSeq(First(m)))
    OBVIOUS
  <2> HIDE DEF First, whole, m
  <2>8. FlattenSeq(First(m + 1)) = FlattenSeq(First(m)) \o First(m + 1)[m + 1]
    BY <2>3, <2>4, <2>5, FlattenAppend
  <2>9. ~Begins(whole, FlattenSeq(First(m + 1)))
    <3>1. FlattenSeq(First(m)) \in Seq(X)
      BY <1>2, <2>3
    <3> SUFFICES ASSUME Begins(whole, FlattenSeq(First(m + 1))) PROVE FALSE
      OBVIOUS
    <3>2. Begins(whole, FlattenSeq(First(m)) \o First(m + 1)[m + 1])
      BY <2>8
    <3> QED
      BY <1>4, <2>6, <2>7, <3>1, <3>2, BeginsFurther
  <2> QED
    BY <2>2, <2>3, <2>9
<1> HIDE DEF First, whole
<1>7. S \in SUBSET Nat
  OBVIOUS
<1>8. S = {}
  <2>1. \A d \in S : \E e \in S : e < d
    BY <1>6
  <2> HIDE DEF S
  <2> QED
    BY <1>7, <2>1, NoneLeft
<1>9. n - k \in 0 .. n /\ n - (n - k) = k
  OBVIOUS
<1>10. Begins(whole, FlattenSeq(First(k)))
  BY <1>8, <1>9
<1> QED
  BY <1>10 DEF First, whole

\* One of the sequences begins with the other one.
Overlap(s, t) == \A p \in 1 .. Len(s) : p \in 1 .. Len(t) => s[p] = t[p]

\* A sequence is found behind what the ones before it give.
Follows(whole, part, s) ==
    /\ Len(part) + Len(s) <= Len(whole)
    /\ \A p \in 1 .. Len(s) : whole[Len(part) + p] = s[p]

LEMMA FlattenPlace ==
  ASSUME NEW X, NEW n \in Nat, NEW seqs \in [1 .. n -> Seq(X)], NEW k \in 1 .. n,
         NEW part, part = FlattenSeq([i \in 1 .. k - 1 |-> seqs[i]])
  PROVE  part \in Seq(X) /\ Follows(FlattenSeq(seqs), part, seqs[k])
<1> DEFINE whole == FlattenSeq(seqs)
           j == k - 1
           First(m) == [i \in 1 .. m |-> seqs[i]]
<1>1. j \in Nat /\ j + 1 = k /\ k \in 0 .. n /\ k \in 1 .. k
  OBVIOUS
<1>2. First(j) \in [1 .. j -> Seq(X)] /\ First(k) \in [1 .. j + 1 -> Seq(X)]
  BY <1>1
<1>3. (\A i \in 1 .. j : First(k)[i] = First(j)[i]) /\ First(k)[j + 1] = seqs[k]
  BY <1>1
<1>4. Begins(whole, FlattenSeq(First(k)))
  BY <1>1, FlattenBegins
<1>5. part = FlattenSeq(First(j))
  OBVIOUS
<1>6. whole \in Seq(X) /\ seqs[k] \in Seq(X)
  BY FlattenElements
<1> HIDE DEF First, j, whole
<1>7. part \in Seq(X)
  BY <1>1, <1>2, <1>5, FlattenElements
<1>8. FlattenSeq(First(k)) = part \o seqs[k]
  <2>1. FlattenSeq(First(k)) = FlattenSeq(First(j)) \o First(k)[j + 1]
    BY <1>1, <1>2, <1>3, FlattenAppend
  <2> QED
    BY <1>3, <1>5, <2>1
<1>9. Begins(whole, part \o seqs[k])
  BY <1>4, <1>8
<1>10. \A p \in 1 .. Len(seqs[k]) : whole[Len(part) + p] = seqs[k][p]
  BY <1>6, <1>7, <1>9, BeginsFurther
<1>11. Len(part) + Len(seqs[k]) <= Len(whole)
  <2>1. Len(part \o seqs[k]) = Len(part) + Len(seqs[k])
    BY <1>6, <1>7, ConcatProperties
  <2> QED
    BY <1>9, <2>1 DEF Begins
<1> QED
  BY <1>6, <1>7, <1>10, <1>11 DEF whole, Follows

\* None of the sequences is empty or begins one of the other list.
Separable(a, n, b, m) ==
    /\ \A i \in 1 .. n : a[i] # <<>>
    /\ \A j \in 1 .. m : b[j] # <<>>
    /\ \A i \in 1 .. n, j \in 1 .. m : Overlap(a[i], b[j]) => a[i] = b[j]

\* Such sequences can be told from what they give.
LEMMA FlattenInjective ==
  ASSUME NEW X, NEW n \in Nat, NEW m \in Nat,
         NEW a \in [1 .. n -> Seq(X)], NEW b \in [1 .. m -> Seq(X)],
         Separable(a, n, b, m), FlattenSeq(a) = FlattenSeq(b)
  PROVE  a = b
<1> DEFINE S == {k \in Nat : /\ k \in 1 .. n \/ k \in 1 .. m
                             /\ ~(k \in 1 .. n /\ k \in 1 .. m /\ a[k] = b[k])}
<1>1. ASSUME S # {} PROVE FALSE
  <2> DEFINE k == Min(S)
  <2>1. k \in S /\ \A i \in S : k <= i
    <3>1. S \in SUBSET Nat
      OBVIOUS
    <3> HIDE DEF S
    <3> QED
      BY <1>1, <3>1, MinIsLeast
  <2> HIDE DEF k
  <2>2. k \in Nat /\ (k \in 1 .. n \/ k \in 1 .. m)
    BY <2>1
  <2>3. \A i \in 1 .. k - 1 : i \in 1 .. n /\ i \in 1 .. m /\ a[i] = b[i]
    <3> SUFFICES ASSUME NEW i \in 1 .. k - 1 PROVE i \in 1 .. n /\ i \in 1 .. m /\ a[i] = b[i]
      OBVIOUS
    <3>1. i \in Nat /\ ~(k <= i) /\ (i \in 1 .. n \/ i \in 1 .. m)
      BY <2>2
    <3>2. i \notin S
      BY <2>1, <3>1
    <3> QED
      BY <3>1, <3>2
  <2> DEFINE part == FlattenSeq([i \in 1 .. k - 1 |-> a[i]])
  <2>4. part = FlattenSeq([i \in 1 .. k - 1 |-> b[i]])
    <3>1. [i \in 1 .. k - 1 |-> a[i]] = [i \in 1 .. k - 1 |-> b[i]]
      BY <2>3
    <3> QED
      BY <3>1
  <2>5. part = FlattenSeq([i \in 1 .. k - 1 |-> a[i]])
    OBVIOUS
  <2> HIDE DEF part, S
  <2>6. k \in 1 .. n => part \in Seq(X) /\ Follows(FlattenSeq(a), part, a[k])
    BY <2>5, FlattenPlace
  <2>7. k \in 1 .. m => part \in Seq(X) /\ Follows(FlattenSeq(b), part, b[k])
    BY <2>4, FlattenPlace
  <2>8. k \in 1 .. n => Len(a[k]) \in Nat /\ Len(a[k]) > 0
    BY LenProperties, EmptySeq DEF Separable
  <2>9. k \in 1 .. m => Len(b[k]) \in Nat /\ Len(b[k]) > 0
    BY LenProperties, EmptySeq DEF Separable
  <2>10. CASE k \in 1 .. n /\ k \in 1 .. m
    <3>1. Overlap(a[k], b[k])
      BY <2>6, <2>7, <2>10 DEF Overlap, Follows
    <3>2. a[k] = b[k]
      BY <2>10, <3>1 DEF Separable
    <3> QED
      BY <2>1, <2>10, <3>2 DEF S
  <2>11. CASE k \in 1 .. n /\ k \notin 1 .. m
    <3>1. m = k - 1
      <4>1. \A i \in 1 .. k - 1 : i \in 1 .. m
        BY <2>3
      <4>2. k > m
        BY <2>11
      <4>3. k = 1 \/ k - 1 \in 1 .. k - 1
        BY <2>2, <2>11
      <4>4. CASE k = 1
        BY <2>2, <4>2, <4>4
      <4>5. CASE k - 1 \in 1 .. k - 1
        <5>1. k - 1 \in 1 .. m
          BY <4>1, <4>5
        <5> QED
          BY <2>2, <4>2, <5>1
      <4> QED
        BY <4>3, <4>4, <4>5
    <3>2. [i \in 1 .. k - 1 |-> b[i]] = b
      BY <3>1
    <3>3. part = FlattenSeq(a)
      BY <2>4, <3>2
    <3>4. Len(part) \in Nat
      BY <2>6, <2>11, LenProperties
    <3> QED
      BY <2>6, <2>8, <2>11, <3>3, <3>4 DEF Follows
  <2>12. CASE k \in 1 .. m /\ k \notin 1 .. n
    <3>1. n = k - 1
      <4>1. \A i \in 1 .. k - 1 : i \in 1 .. n
        BY <2>3
      <4>2. k > n
        BY <2>12
      <4>3. k = 1 \/ k - 1 \in 1 .. k - 1
        BY <2>2, <2>12
      <4>4. CASE k = 1
        BY <2>2, <4>2, <4>4
      <4>5. CASE k - 1 \in 1 .. k - 1
        <5>1. k - 1 \in 1 .. n
          BY <4>1, <4>5
        <5> QED
          BY <2>2, <4>2, <5>1
      <4> QED
        BY <4>3, <4>4, <4>5
    <3>2. [i \in 1 .. k - 1 |-> a[i]] = a
      BY <3>1
    <3>3. part = FlattenSeq(b)
      BY <2>5, <3>2
    <3>4. Len(part) \in Nat
      BY <2>7, <2>12, LenProperties
    <3> QED
      BY <2>7, <2>9, <2>12, <3>3, <3>4 DEF Follows
  <2> QED
    BY <2>2, <2>10, <2>11, <2>12
<1>2. \A k \in Nat : k \in 1 .. n \/ k \in 1 .. m => k \in 1 .. n /\ k \in 1 .. m /\ a[k] = b[k]
  BY <1>1
<1>3. n = m
  <2>1. n = 0 \/ n \in 1 .. n
    OBVIOUS
  <2>2. m = 0 \/ m \in 1 .. m
    OBVIOUS
  <2>3. n <= m
    BY <1>2, <2>1
  <2>4. m <= n
    BY <1>2, <2>2
  <2> QED
    BY <2>3, <2>4
<1> QED
  BY <1>2, <1>3

\* What is ordered can be numbered in its order.  The number of an index is how
\* many are not behind it.
LEMMA OrderedIndexes ==
  ASSUME NEW n \in Nat, NEW L \in SUBSET ((1 .. n) \X (1 .. n)),
         \A i, j, k \in 1 .. n : <<i, j>> \in L /\ <<j, k>> \in L => <<i, k>> \in L,
         \A i, j \in 1 .. n : ~(<<i, j>> \in L /\ <<j, i>> \in L),
         \A i, j \in 1 .. n : i # j => <<i, j>> \in L \/ <<j, i>> \in L
  PROVE  \E p \in [1 .. n -> 1 .. n] :
            /\ p \in Injection(1 .. n, 1 .. n) /\ p \in Surjection(1 .. n, 1 .. n)
            /\ \A i, j \in 1 .. n : i < j => <<p[i], p[j]>> \in L
<1> DEFINE D == 1 .. n
           Upto(k) == {i \in D : i = k \/ <<i, k>> \in L}
           rank == [k \in D |-> Cardinality(Upto(k))]
           p == [i \in D |-> CHOOSE k \in D : rank[k] = i]
<1>1. IsFiniteSet(D) /\ Cardinality(D) = n
  BY FS_Interval
<1>2. \A k \in D : Upto(k) \in SUBSET D /\ k \in Upto(k)
  OBVIOUS
<1> HIDE DEF Upto
<1>3. \A k \in D : IsFiniteSet(Upto(k)) /\ Cardinality(Upto(k)) \in Nat
  BY <1>1, <1>2, FS_Subset, FS_CardinalityType
<1>4. rank \in [D -> D]
  <2>1. ASSUME NEW k \in D
        PROVE  Cardinality(Upto(k)) \in D
    <3>1. Cardinality(Upto(k)) <= n
      BY <1>1, <1>2, FS_Subset
    <3>2. Cardinality(Upto(k)) # 0
      BY <1>2, <1>3, FS_EmptySet
    <3> QED
      BY <1>3, <3>1, <3>2
  <2> QED
    BY <2>1
<1>5. ASSUME NEW j \in D, NEW k \in D, <<j, k>> \in L
      PROVE  rank[j] < rank[k]
  <2>1. Upto(j) \in SUBSET Upto(k)
    BY <1>5 DEF Upto
  <2>2. k \in Upto(k) /\ k \notin Upto(j)
    BY <1>5 DEF Upto
  <2>3. Cardinality(Upto(j)) <= Cardinality(Upto(k)) /\ Cardinality(Upto(j)) # Cardinality(Upto(k))
    BY <1>3, <2>1, <2>2, FS_Subset
  <2> QED
    BY <1>3, <2>3
<1> HIDE DEF rank
<1>6. \A j, k \in D : rank[j] = rank[k] => j = k
  <2> SUFFICES ASSUME NEW j \in D, NEW k \in D, rank[j] = rank[k], j # k PROVE FALSE
    OBVIOUS
  <2>1. rank[j] \in D /\ rank[k] \in D
    BY <1>4
  <2>2. rank[j] < rank[k] \/ rank[k] < rank[j]
    BY <1>5
  <2> QED
    BY <2>1, <2>2
<1>7. rank \in Injection(D, D)
  BY <1>4, <1>6 DEF Injection, IsInjective
<1>8. rank \in Surjection(D, D)
  BY <1>1, <1>7, FS_Injection
<1>9. \A i \in D : p[i] \in D /\ rank[p[i]] = i
  <2>1. \A i \in D : \E k \in D : rank[k] = i
    BY <1>8 DEF Surjection
  <2> QED
    BY <2>1
<1>10. p \in [D -> D]
  <2>1. p = [i \in D |-> p[i]]
    OBVIOUS
  <2> HIDE DEF p
  <2> QED
    BY <1>9, <2>1
<1> HIDE DEF p
<1>11. \A i, j \in D : p[i] = p[j] => i = j
  BY <1>9
<1>12. p \in Injection(D, D)
  BY <1>10, <1>11 DEF Injection, IsInjective
<1>13. p \in Surjection(D, D)
  BY <1>1, <1>12, FS_Injection
<1>14. ASSUME NEW i \in D, NEW j \in D, i < j
       PROVE  <<p[i], p[j]>> \in L
  <2>1. p[i] # p[j]
    BY <1>11, <1>14
  <2>2. CASE <<p[j], p[i]>> \in L
    <3>1. rank[p[j]] < rank[p[i]]
      BY <1>5, <1>9, <2>2
    <3> QED
      BY <1>9, <1>14, <3>1
  <2> QED
    BY <1>9, <2>1, <2>2
<1> QED
  BY <1>10, <1>12, <1>13, <1>14

-----------------------------------------------------------------------------
(***************************************************************************)
(* Sums                                                                    *)
(***************************************************************************)

\* The function that SumOf computes with exists.
LEMMA SumDefined ==
  ASSUME NEW w, NEW n \in Nat
  PROVE  \E f : f = [k \in 0 .. n |-> IF k = 0 THEN 0 ELSE f[k - 1] + w[k]]
<1> DEFINE Rec(m, f) == [k \in 0 .. m |-> IF k = 0 THEN 0 ELSE f[k - 1] + w[k]]
           P(m) == \E f : f = Rec(m, f)
           S == {m \in Nat : ~P(m)}
<1>1. ASSUME NEW m \in Nat, m = 0 \/ P(m - 1)
      PROVE  P(m)
  <2>1. CASE m = 0
    <3> DEFINE f == [k \in {0} |-> 0]
    <3>1. f = Rec(m, f)
      BY <2>1
    <3> QED
      BY <3>1
  <2>2. CASE m # 0
    <3>1. PICK f : f = Rec(m - 1, f)
      BY <1>1, <2>2
    <3> DEFINE g == Rec(m, f)
    <3>2. \A k \in 0 .. m - 1 : g[k] = f[k]
      <4>1. \A k \in 0 .. m - 1 : g[k] = IF k = 0 THEN 0 ELSE f[k - 1] + w[k]
        BY <2>2
      <4>2. \A k \in 0 .. m - 1 : f[k] = IF k = 0 THEN 0 ELSE f[k - 1] + w[k]
        BY <3>1
      <4> QED
        BY <4>1, <4>2
    <3>3. \A k \in 0 .. m : k = 0 \/ k - 1 \in 0 .. m - 1
      OBVIOUS
    <3>4. g = Rec(m, g)
      BY <3>2, <3>3
    <3> QED
      BY <3>4
  <2> QED
    BY <2>1, <2>2
<1> HIDE DEF P
<1>2. \A m \in S : \E l \in S : l < m
  <2>1. \A m \in S : m # 0 /\ m - 1 \in Nat /\ m - 1 < m /\ ~P(m - 1)
    BY <1>1
  <2> QED
    BY <2>1
<1>3. S = {}
  BY <1>2, NoneLeft
<1>4. P(n)
  BY <1>3
<1> QED
  BY <1>4 DEF P

\* It gives the partial sums.
LEMMA PartialSums ==
  ASSUME NEW n \in Nat, NEW w \in [1 .. n -> Nat]
  PROVE  \E f \in [0 .. n -> Nat] :
            /\ f[0] = 0
            /\ \A k \in 1 .. n : f[k] = f[k - 1] + w[k]
            /\ SumOf(w) = f[n]
<1> DEFINE Rec(f) == [k \in 0 .. n |-> IF k = 0 THEN 0 ELSE f[k - 1] + w[k]]
           f == CHOOSE f : f = Rec(f)
<1>1. f = Rec(f)
  BY SumDefined
<1>2. w \in Seq(Nat) /\ Len(w) = n
  OBVIOUS
<1>3. SumOf(w) = f[n]
  BY <1>2 DEF SumOf
<1> HIDE DEF f
<1>4. f[0] = 0 /\ \A k \in 1 .. n : f[k] = f[k - 1] + w[k]
  BY <1>1
<1> DEFINE S == {k \in 0 .. n : f[k] \notin Nat}
<1>5. \A k \in S : \E m \in S : m < k
  <2> SUFFICES ASSUME NEW k \in S PROVE k - 1 \in S /\ k - 1 < k
    OBVIOUS
  <2>1. k # 0 /\ k \in 1 .. n
    BY <1>4
  <2>2. f[k] = f[k - 1] + w[k] /\ w[k] \in Nat /\ k - 1 \in 0 .. n
    BY <1>4, <2>1
  <2> QED
    BY <2>1, <2>2
<1>6. S = {}
  <2>1. S \in SUBSET Nat
    OBVIOUS
  <2> HIDE DEF S
  <2> QED
    BY <1>5, <2>1, NoneLeft
<1>7. \A k \in 0 .. n : f[k] \in Nat
  BY <1>6
<1>8. f \in [0 .. n -> Nat]
  <2>1. f = [k \in 0 .. n |-> f[k]]
    BY <1>1
  <2> QED
    BY <1>7, <2>1
<1> QED
  BY <1>3, <1>4, <1>8

\* The sums of two sequences that differ at one place differ by as much.
LEMMA SumOfChanged ==
  ASSUME NEW n \in Nat, NEW w \in [1 .. n -> Nat], NEW v \in [1 .. n -> Nat],
         NEW s \in 1 .. n, \A k \in 1 .. n : k # s => v[k] = w[k]
  PROVE  SumOf(w) \in Nat /\ SumOf(v) \in Nat /\ SumOf(v) + w[s] = SumOf(w) + v[s]
<1>1. PICK f \in [0 .. n -> Nat] :
        f[0] = 0 /\ (\A k \in 1 .. n : f[k] = f[k - 1] + w[k]) /\ SumOf(w) = f[n]
  BY PartialSums
<1>2. PICK g \in [0 .. n -> Nat] :
        g[0] = 0 /\ (\A k \in 1 .. n : g[k] = g[k - 1] + v[k]) /\ SumOf(v) = g[n]
  BY PartialSums
<1> DEFINE Off(k) == IF k < s THEN g[k] # f[k] ELSE g[k] + w[s] # f[k] + v[s]
           S == {k \in 0 .. n : Off(k)}
<1>3. ASSUME NEW k \in S
      PROVE  k - 1 \in S /\ k - 1 < k
  <2>1. k # 0
    BY <1>1, <1>2
  <2>2. k \in 1 .. n /\ k - 1 \in 0 .. n /\ k \in Nat /\ s \in Nat
    BY <2>1
  <2>6. f[k] = f[k - 1] + w[k] /\ g[k] = g[k - 1] + v[k]
    BY <1>1, <1>2, <2>2
  <2>7. /\ f[k - 1] \in Nat /\ g[k - 1] \in Nat /\ w[k] \in Nat /\ v[k] \in Nat
        /\ w[s] \in Nat /\ v[s] \in Nat
    BY <1>1, <1>2, <2>2
  <2>8. Off(k)
    OBVIOUS
  <2>9. Off(k - 1)
    <3>1. CASE k < s
      <4>1. v[k] = w[k] /\ g[k] # f[k] /\ k - 1 < s
        BY <2>2, <2>8, <3>1
      <4>2. g[k - 1] # f[k - 1]
        BY <2>6, <2>7, <4>1
      <4> QED
        BY <4>1, <4>2
    <3>2. CASE k = s
      <4>1. g[k] + w[k] # f[k] + v[k] /\ k - 1 < s
        BY <2>2, <2>8, <3>2
      <4>2. g[k - 1] # f[k - 1]
        <5>1. (g[k - 1] + v[k]) + w[k] # (f[k - 1] + w[k]) + v[k]
          BY <2>6, <4>1
        <5>2. \A a, b, c, d \in Nat : a = b => (a + c) + d = (b + d) + c
          OBVIOUS
        <5> QED
          BY <2>7, <5>1, <5>2
      <4> QED
        BY <4>1, <4>2
    <3>3. CASE k > s
      <4>1. v[k] = w[k] /\ g[k] + w[s] # f[k] + v[s] /\ ~(k - 1 < s)
        BY <2>2, <2>8, <3>3
      <4>2. g[k - 1] + w[s] # f[k - 1] + v[s]
        <5> DEFINE a == g[k - 1]
                   b == f[k - 1]
                   x == w[k]
                   y == w[s]
                   z == v[s]
        <5>1. /\ a \in Nat /\ b \in Nat /\ x \in Nat /\ y \in Nat /\ z \in Nat
              /\ (a + x) + y # (b + x) + z
          BY <2>6, <2>7, <4>1
        <5> HIDE DEF a, b, x, y, z
        <5>2. a + y # b + z
          BY <5>1
        <5> QED
          BY <5>2 DEF a, b, y, z
      <4> QED
        BY <4>1, <4>2
    <3> QED
      BY <2>2, <3>1, <3>2, <3>3
  <2> QED
    BY <2>2, <2>9
<1>4. S \in SUBSET Nat
  OBVIOUS
<1> HIDE DEF S
<1>5. S = {}
  BY <1>3, <1>4, NoneLeft
<1>6. n \notin S
  BY <1>5
<1>7. ~Off(n)
  <2>1. n \in 0 .. n
    OBVIOUS
  <2> HIDE DEF Off
  <2> QED
    BY <1>6, <2>1 DEF S
<1>8. f[n] \in Nat /\ g[n] \in Nat /\ ~(n < s)
  BY <1>1, <1>2
<1> QED
  BY <1>1, <1>2, <1>7, <1>8

LEMMA SumIsNat ==
  ASSUME NEW n \in Nat, NEW w \in [1 .. n -> Nat]
  PROVE  SumOf(w) \in Nat
BY PartialSums

LEMMA SumOfZeros ==
  ASSUME NEW n \in Nat, NEW w \in [1 .. n -> Nat], \A k \in 1 .. n : w[k] = 0
  PROVE  SumOf(w) = 0
<1>1. PICK f \in [0 .. n -> Nat] :
        f[0] = 0 /\ (\A k \in 1 .. n : f[k] = f[k - 1] + w[k]) /\ SumOf(w) = f[n]
  BY PartialSums
<1> DEFINE S == {k \in 0 .. n : f[k] # 0}
<1>2. \A k \in S : \E m \in S : m < k
  <2> SUFFICES ASSUME NEW k \in S PROVE k - 1 \in S /\ k - 1 < k
    OBVIOUS
  <2>1. k \in 1 .. n /\ k - 1 \in 0 .. n /\ k - 1 < k
    BY <1>1
  <2>2. f[k] = f[k - 1] + 0 /\ f[k - 1] \in Nat
    BY <1>1, <2>1
  <2> QED
    BY <2>1, <2>2
<1>3. S \in SUBSET Nat
  OBVIOUS
<1>4. S = {}
  <2> HIDE DEF S
  <2> QED
    BY <1>2, <1>3, NoneLeft
<1>5. n \in 0 .. n
  OBVIOUS
<1> QED
  BY <1>1, <1>4, <1>5

LEMMA SumOfNothing == SumOf(<<>>) = 0
<1>1. PICK n \in Nat : n = 0
  OBVIOUS
<1>2. PICK w \in [1 .. n -> Nat] : w = <<>>
  <2>1. <<>> \in [1 .. 0 -> Nat]
    OBVIOUS
  <2> QED
    BY <1>1, <2>1
<1>3. PICK f \in [0 .. n -> Nat] : f[0] = 0 /\ SumOf(w) = f[n]
  BY PartialSums
<1> QED
  BY <1>1, <1>2, <1>3

\* One more number adds to the sum.
LEMMA SumOfOneMore ==
  ASSUME NEW n \in Nat, NEW w \in [1 .. n -> Nat], NEW v \in [1 .. n + 1 -> Nat],
         \A k \in 1 .. n : v[k] = w[k]
  PROVE  SumOf(v) = SumOf(w) + v[n + 1]
<1>1. PICK f \in [0 .. n -> Nat] :
        f[0] = 0 /\ (\A k \in 1 .. n : f[k] = f[k - 1] + w[k]) /\ SumOf(w) = f[n]
  BY PartialSums
<1> DEFINE m == n + 1
<1>0. m \in Nat /\ v \in [1 .. m -> Nat]
  OBVIOUS
<1> HIDE DEF m
<1>8. PICK g \in [0 .. m -> Nat] :
        g[0] = 0 /\ (\A k \in 1 .. m : g[k] = g[k - 1] + v[k]) /\ SumOf(v) = g[m]
  BY <1>0, PartialSums
<1>2. /\ g \in [0 .. n + 1 -> Nat]
      /\ g[0] = 0 /\ (\A k \in 1 .. n + 1 : g[k] = g[k - 1] + v[k]) /\ SumOf(v) = g[n + 1]
  BY <1>8 DEF m
<1> DEFINE S == {k \in 0 .. n : f[k] # g[k]}
<1>3. ASSUME NEW k \in S
      PROVE  k - 1 \in S /\ k - 1 < k
  <2>1. k # 0
    BY <1>1, <1>2
  <2>2. k \in 1 .. n /\ k \in 1 .. n + 1 /\ k - 1 \in 0 .. n
    BY <2>1
  <2>3. f[k] = f[k - 1] + w[k] /\ g[k] = g[k - 1] + v[k] /\ v[k] = w[k]
    BY <1>1, <1>2, <2>2
  <2> QED
    BY <2>2, <2>3
<1>4. S \in SUBSET Nat
  OBVIOUS
<1> HIDE DEF S
<1>5. S = {}
  BY <1>3, <1>4, NoneLeft
<1>6. f[n] = g[n]
  <2>1. n \notin S /\ n \in 0 .. n
    BY <1>5
  <2> QED
    BY <2>1 DEF S
<1>7. g[n + 1] = g[n] + v[n + 1]
  <2>1. n + 1 \in 1 .. n + 1 /\ n + 1 - 1 = n
    OBVIOUS
  <2> QED
    BY <1>2, <2>1
<1> QED
  BY <1>1, <1>2, <1>6, <1>7
=============================================================================
