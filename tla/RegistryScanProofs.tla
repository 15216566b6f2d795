------------------------- MODULE RegistryScanProofs -------------------------
(***************************************************************************)
(* The registry startup collector of RegistryScan, proved for every number *)
(* of scopes, every set of names and data, every limit and any stream of   *)
(* writes: the evidence stays within its budget, a complete scope is a     *)
(* snapshot of its key, the scan implements ScopeCapture, and its outcome  *)
(* is a valid Snapshot.                                                    *)
(***************************************************************************)
EXTENDS ScanRefinement, SequenceProofs

(***************************************************************************)
(* Records and bytes                                                       *)
(***************************************************************************)

LEMMA RecordFields ==
  ASSUME NEW r \in Records
  PROVE  /\ r.name \in Names /\ r.name \in Nat /\ r.datum \in Data
         /\ NameUnits[r.name] \in Nat /\ DataBytes[r.datum] \in Nat
BY ScanAssumption DEF Records

LEMMA BytesAreNat ==
  ASSUME NEW r \in Records
  PROVE  Bytes(r) \in Nat
BY RecordFields DEF Bytes

LEMMA TotalOfNothing == Total(<<>>) = 0
<1>1. Total(<<>>) = SumOf(<<>>)
  BY DEF Total
<1> QED
  BY <1>1, SumOfNothing

LEMMA TotalGrows ==
  ASSUME NEW rs \in Seq(Records), NEW r \in Records
  PROVE  Total(rs) \in Nat /\ Total(Append(rs, r)) = Total(rs) + Bytes(r)
<1> DEFINE n == Len(rs)
           w == [k \in 1 .. n |-> Bytes(rs[k])]
           more == Append(rs, r)
           v == [k \in 1 .. n + 1 |-> Bytes(more[k])]
<1>1. n \in Nat /\ DOMAIN rs = 1 .. n /\ DOMAIN more = 1 .. n + 1
  OBVIOUS
<1>2. Total(rs) = SumOf(w) /\ Total(more) = SumOf(v)
  BY <1>1 DEF Total
<1>3. \A k \in 1 .. n : more[k] = rs[k] /\ rs[k] \in Records
  OBVIOUS
<1>4. more[n + 1] = r
  OBVIOUS
<1>5. \A q \in Records : Bytes(q) \in Nat
  BY BytesAreNat
<1> HIDE DEF n, more
<1>6. w \in [1 .. n -> Nat]
  BY <1>3, <1>5
<1>7. \A k \in 1 .. n + 1 : more[k] \in Records
  <2>1. \A k \in 1 .. n + 1 : k \in 1 .. n \/ k = n + 1
    BY <1>1
  <2> QED
    BY <1>3, <1>4, <2>1
<1>8. v \in [1 .. n + 1 -> Nat]
  BY <1>5, <1>7
<1>9. \A k \in 1 .. n : v[k] = w[k]
  BY <1>1, <1>3
<1>10. v[n + 1] = Bytes(r)
  BY <1>1, <1>4
<1> HIDE DEF w, v
<1>11. SumOf(v) = SumOf(w) + v[n + 1] /\ SumOf(w) \in Nat
  BY <1>1, <1>6, <1>8, <1>9, SumOfOneMore, SumIsNat
<1> QED
  BY <1>2, <1>10, <1>11 DEF more

LEMMA TotalIsNat ==
  ASSUME NEW rs \in Seq(Records)
  PROVE  Total(rs) \in Nat
<1>1. CASE Records = {}
  <2>1. rs = <<>>
    BY <1>1
  <2> QED
    BY <2>1, TotalOfNothing
<1>2. CASE Records # {}
  BY <1>2, TotalGrows
<1> QED
  BY <1>1, <1>2

-----------------------------------------------------------------------------
(***************************************************************************)
(* One more element in a sequence, and one less                            *)
(***************************************************************************)

\* more is seq with e put in at position i.
IsInsertion(more, X, seq, i, e) ==
    /\ more \in Seq(X)
    /\ Len(more) = Len(seq) + 1
    /\ \A k \in 1 .. Len(seq) + 1 :
          more[k] = IF k < i THEN seq[k] ELSE IF k = i THEN e ELSE seq[k - 1]

LEMMA Inserted ==
  ASSUME NEW X, NEW seq \in Seq(X), NEW i \in 1 .. Len(seq) + 1, NEW e \in X
  PROVE  IsInsertion(InsertAt(seq, i, e), X, seq, i, e)
<1> DEFINE n == Len(seq)
           front == SubSeq(seq, 1, i - 1)
           back == SubSeq(seq, i, n)
           more == InsertAt(seq, i, e)
<1>1. n \in Nat /\ i \in Nat /\ i >= 1 /\ i <= n + 1 /\ \A k \in 1 .. n : seq[k] \in X
  BY LenProperties
<1>2. more = (front \o <<e>>) \o back
  BY DEF InsertAt
<1>3. /\ front \in Seq(X) /\ Len(front) = i - 1
      /\ \A k \in 1 .. i - 1 : front[k] = seq[k]
  BY <1>1, SubSeqProperties
<1>4. /\ back \in Seq(X) /\ Len(back) = n + 1 - i
      /\ \A k \in 1 .. n + 1 - i : back[k] = seq[i + k - 1]
  BY <1>1, SubSeqProperties
<1>5. <<e>> \in Seq(X) /\ Len(<<e>>) = 1 /\ <<e>>[1] = e
  OBVIOUS
<1> HIDE DEF n, front, back, more
<1> DEFINE head == front \o <<e>>
<1>6. /\ head \in Seq(X) /\ Len(head) = i
      /\ \A k \in 1 .. i : head[k] = IF k < i THEN seq[k] ELSE e
  <2>1. /\ head \in Seq(X) /\ Len(head) = Len(front) + Len(<<e>>)
        /\ \A k \in 1 .. Len(front) + Len(<<e>>) : head[k] =
              IF k <= Len(front) THEN front[k] ELSE <<e>>[k - Len(front)]
    BY <1>3, <1>5, ConcatProperties
  <2> HIDE DEF head
  <2> QED
    BY <1>1, <1>3, <1>5, <2>1
<1> HIDE DEF head
<1>7. /\ more \in Seq(X) /\ Len(more) = i + (n + 1 - i)
      /\ \A k \in 1 .. i + (n + 1 - i) : more[k] = IF k <= i THEN head[k] ELSE back[k - i]
  <2>1. /\ head \o back \in Seq(X) /\ Len(head \o back) = Len(head) + Len(back)
        /\ \A k \in 1 .. Len(head) + Len(back) : (head \o back)[k] =
              IF k <= Len(head) THEN head[k] ELSE back[k - Len(head)]
    BY <1>4, <1>6, ConcatProperties
  <2>2. more = head \o back
    BY <1>2 DEF head
  <2> QED
    BY <1>4, <1>6, <2>1, <2>2
<1>8. \A k \in 1 .. n + 1 :
          more[k] = IF k < i THEN seq[k] ELSE IF k = i THEN e ELSE seq[k - 1]
  <2> SUFFICES ASSUME NEW k \in 1 .. n + 1
               PROVE  more[k] = IF k < i THEN seq[k] ELSE IF k = i THEN e ELSE seq[k - 1]
    OBVIOUS
  <2>1. more[k] = IF k <= i THEN head[k] ELSE back[k - i]
    BY <1>1, <1>7
  <2>2. CASE k <= i
    BY <1>1, <1>6, <2>1, <2>2
  <2>3. CASE k > i
    <3>1. k - i \in 1 .. n + 1 - i /\ i + (k - i) - 1 = k - 1
      BY <1>1, <2>3
    <3> QED
      BY <1>1, <1>4, <2>1, <2>3, <3>1
  <2> QED
    BY <1>1, <2>2, <2>3
<1> QED
  BY <1>1, <1>7, <1>8 DEF n, more, IsInsertion

LEMMA InsertedElements ==
  ASSUME NEW X, NEW seq \in Seq(X), NEW i \in 1 .. Len(seq) + 1, NEW e \in X
  PROVE  Range(InsertAt(seq, i, e)) = Range(seq) \union {e}
<1> DEFINE n == Len(seq)
           more == InsertAt(seq, i, e)
<1>1. /\ more \in Seq(X) /\ Len(more) = n + 1 /\ n \in Nat
      /\ \A k \in 1 .. n + 1 :
            more[k] = IF k < i THEN seq[k] ELSE IF k = i THEN e ELSE seq[k - 1]
  <2>1. n \in Nat
    OBVIOUS
  <2>2. IsInsertion(InsertAt(seq, i, e), X, seq, i, e)
    <3> HIDE DEF n, more
    <3> QED
      BY Inserted, Zenon
  <2> QED
    BY <2>1, <2>2 DEF IsInsertion
<1>2. DOMAIN more = 1 .. n + 1 /\ DOMAIN seq = 1 .. n
  BY <1>1
<1> HIDE DEF more, n
<1>3. \A x \in Range(more) : x \in Range(seq) \union {e}
  <2> SUFFICES ASSUME NEW k \in 1 .. n + 1 PROVE more[k] \in Range(seq) \union {e}
    BY <1>2 DEF Range
  <2>1. k < i => k \in 1 .. n
    BY <1>1 DEF n
  <2>2. k > i => k - 1 \in 1 .. n
    BY <1>1 DEF n
  <2>3. \A j \in 1 .. n : seq[j] \in Range(seq)
    BY <1>2 DEF Range
  <2>4. more[k] = IF k < i THEN seq[k] ELSE IF k = i THEN e ELSE seq[k - 1]
    BY <1>1
  <2>5. k < i \/ k = i \/ k > i
    BY <1>1 DEF n
  <2> QED
    BY <1>1, <2>1, <2>2, <2>3, <2>4, <2>5
<1>4. \A x \in Range(seq) \union {e} : x \in Range(more)
  <2>1. i \in 1 .. n + 1 /\ more[i] = e
    BY <1>1 DEF n
  <2>2. ASSUME NEW k \in 1 .. n
        PROVE  seq[k] \in Range(more)
    <3>1. k < i => k \in 1 .. n + 1 /\ more[k] = seq[k]
      BY <1>1
    <3>2. ~(k < i) => k + 1 \in 1 .. n + 1 /\ more[k + 1] = seq[k]
      BY <1>1, <2>1
    <3> QED
      BY <1>2, <3>1, <3>2 DEF Range
  <2> QED
    BY <1>2, <2>1, <2>2 DEF Range
<1> QED
  BY <1>3, <1>4 DEF more

LEMMA Removed ==
  ASSUME NEW X, NEW seq \in Seq(X), NEW i \in 1 .. Len(seq)
  PROVE  LET less == RemoveAt(seq, i)
         IN  /\ less \in Seq(X) /\ Len(less) = Len(seq) - 1
             /\ \A k \in 1 .. Len(seq) - 1 : less[k] = IF k < i THEN seq[k] ELSE seq[k + 1]
<1> DEFINE n == Len(seq)
           front == SubSeq(seq, 1, i - 1)
           back == SubSeq(seq, i + 1, n)
           less == RemoveAt(seq, i)
<1>1. n \in Nat /\ i \in Nat /\ i >= 1 /\ i <= n /\ \A k \in 1 .. n : seq[k] \in X
  BY LenProperties
<1>2. less = front \o back
  BY DEF RemoveAt
<1>3. /\ front \in Seq(X) /\ Len(front) = i - 1
      /\ \A k \in 1 .. i - 1 : front[k] = seq[k]
  BY <1>1, SubSeqProperties
<1>4. /\ back \in Seq(X) /\ Len(back) = n - i
      /\ \A k \in 1 .. n - i : back[k] = seq[i + k]
  <2>1. i + 1 \in Int /\ n \in Int /\ \A k \in i + 1 .. n : seq[k] \in X
    BY <1>1
  <2>2. /\ back \in Seq(X) /\ Len(back) = IF i + 1 <= n THEN n - (i + 1) + 1 ELSE 0
        /\ \A k \in 1 .. n - (i + 1) + 1 : back[k] = seq[(i + 1) + k - 1]
    BY <2>1, SubSeqProperties
  <2> HIDE DEF back, n
  <2>3. n - (i + 1) + 1 = n - i /\ \A k \in 1 .. n - i : (i + 1) + k - 1 = i + k
    BY <1>1
  <2> QED
    BY <1>1, <2>2, <2>3
<1> HIDE DEF n, front, back, less
<1>5. /\ less \in Seq(X) /\ Len(less) = (i - 1) + (n - i)
      /\ \A k \in 1 .. (i - 1) + (n - i) :
            less[k] = IF k <= i - 1 THEN front[k] ELSE back[k - (i - 1)]
  <2>1. /\ front \o back \in Seq(X) /\ Len(front \o back) = Len(front) + Len(back)
        /\ \A k \in 1 .. Len(front) + Len(back) : (front \o back)[k] =
              IF k <= Len(front) THEN front[k] ELSE back[k - Len(front)]
    BY <1>3, <1>4, ConcatProperties
  <2> QED
    BY <1>2, <1>3, <1>4, <2>1
<1>6. \A k \in 1 .. n - 1 : less[k] = IF k < i THEN seq[k] ELSE seq[k + 1]
  <2> SUFFICES ASSUME NEW k \in 1 .. n - 1
               PROVE  less[k] = IF k < i THEN seq[k] ELSE seq[k + 1]
    OBVIOUS
  <2>1. less[k] = IF k <= i - 1 THEN front[k] ELSE back[k - (i - 1)]
    BY <1>1, <1>5
  <2>2. CASE k < i
    BY <1>1, <1>3, <2>1, <2>2
  <2>3. CASE ~(k < i)
    <3>1. k - (i - 1) \in 1 .. n - i /\ i + (k - (i - 1)) = k + 1 /\ ~(k <= i - 1)
      BY <1>1, <2>3
    <3> QED
      BY <1>4, <2>1, <2>3, <3>1
  <2> QED
    BY <2>2, <2>3
<1> QED
  BY <1>1, <1>5, <1>6 DEF n, less

-----------------------------------------------------------------------------
(***************************************************************************)
(* What an attempt keeps, and what becomes an observation                  *)
(***************************************************************************)

LEMMA PlacedElements ==
  ASSUME NEW rs \in Seq(Records), NEW r \in Records
  PROVE  /\ Placed(rs, r) \in Seq(Records) /\ Len(Placed(rs, r)) = Len(rs) + 1
         /\ Range(Placed(rs, r)) = Range(rs) \union {r}
<1> DEFINE n == Len(rs)
           K == {k \in DOMAIN rs : rs[k].name <= r.name}
           c == Cardinality(K)
<1>1. n \in Nat /\ DOMAIN rs = 1 .. n /\ K \in SUBSET (1 .. n)
  OBVIOUS
<1>2. c \in 0 .. n
  <2>1. IsFiniteSet(1 .. n) /\ Cardinality(1 .. n) = n
    BY <1>1, FS_Interval
  <2>2. IsFiniteSet(K) /\ c <= n
    BY <1>1, <2>1, FS_Subset
  <2>3. c \in Nat
    BY <2>2, FS_CardinalityType
  <2> QED
    BY <1>1, <2>2, <2>3
<1> HIDE DEF c
<1>3. c + 1 \in 1 .. n + 1
  BY <1>1, <1>2
<1>4. Placed(rs, r) = InsertAt(rs, c + 1, r)
  BY DEF Placed, c
<1> QED
  <2>1. IsInsertion(InsertAt(rs, c + 1, r), Records, rs, c + 1, r)
    BY <1>3, Inserted, Zenon
  <2>2. Range(InsertAt(rs, c + 1, r)) = Range(rs) \union {r}
    BY <1>3, InsertedElements
  <2> QED
    BY <1>4, <2>1, <2>2 DEF IsInsertion

LEMMA TrimmedElements ==
  ASSUME NEW rs \in Seq(Records), NEW budget \in Nat
  PROVE  /\ Trimmed(rs, budget) \in Seq(Records)
         /\ Range(Trimmed(rs, budget)) \subseteq Range(rs)
         /\ Total(Trimmed(rs, budget)) <= budget
<1> DEFINE n == Len(rs)
           F == {k \in 0 .. n : Total(SubSeq(rs, 1, k)) <= budget}
           m == Max(F)
<1>1. n \in Nat /\ DOMAIN rs = 1 .. n /\ \A k \in 1 .. n : rs[k] \in Records
  BY LenProperties
<1>2. 0 \in F
  <2>1. SubSeq(rs, 1, 0) = <<>>
    BY SubSeqEmpty
  <2>2. Total(SubSeq(rs, 1, 0)) <= budget
    <3>1. Total(SubSeq(rs, 1, 0)) = 0
      BY <2>1, TotalOfNothing
    <3> QED
      BY <3>1
  <2>3. 0 \in 0 .. n
    BY <1>1
  <2> QED
    BY <2>2, <2>3
<1>3. F \in SUBSET (0 .. n)
  OBVIOUS
<1>4. m \in F
  <2> HIDE DEF F, n
  <2> QED
    BY <1>1, <1>2, <1>3, MaxIsGreatest
<1>5. m \in 0 .. n /\ Total(SubSeq(rs, 1, m)) <= budget
  <2> HIDE DEF m
  <2> QED
    BY <1>4
<1>6. Trimmed(rs, budget) = SubSeq(rs, 1, m)
  BY DEF Trimmed
<1> HIDE DEF m, n
<1>7. /\ SubSeq(rs, 1, m) \in Seq(Records) /\ DOMAIN SubSeq(rs, 1, m) = 1 .. m
      /\ \A k \in 1 .. m : SubSeq(rs, 1, m)[k] = rs[k] /\ k \in 1 .. n
  BY <1>1, <1>5 DEF n
<1> QED
  BY <1>1, <1>5, <1>6, <1>7 DEF Range

\* The loop over the records is well defined.
AfterRecord(rs, budget, kept, k) ==
    IF Sole(rs, k) /\ Total(kept) + Bytes(rs[k]) <= budget
    THEN Append(kept, rs[k])
    ELSE kept

Loop(rs, budget, n, f) ==
    [k \in 0 .. n |-> IF k = 0 THEN <<>> ELSE AfterRecord(rs, budget, f[k - 1], k)]

LEMMA AffordableDefined ==
  ASSUME NEW rs, NEW budget, NEW n \in Nat
  PROVE  \E f : f = Loop(rs, budget, n, f)
<1> DEFINE After(kept, k) == AfterRecord(rs, budget, kept, k)
           Rec(m, f) == [k \in 0 .. m |-> IF k = 0 THEN <<>> ELSE After(f[k - 1], k)]
           P(m) == \E f : f = Rec(m, f)
           S == {m \in Nat : ~P(m)}
<1>1. ASSUME NEW m \in Nat, m = 0 \/ P(m - 1)
      PROVE  P(m)
  <2> HIDE DEF After
  <2>1. CASE m = 0
    <3> DEFINE f == [k \in {0} |-> <<>>]
    <3>1. f = Rec(m, f)
      BY <2>1
    <3> QED
      BY <3>1
  <2>2. CASE m # 0
    <3>1. PICK f : f = Rec(m - 1, f)
      BY <1>1, <2>2
    <3> DEFINE g == Rec(m, f)
    <3>2. \A k \in 0 .. m - 1 : g[k] = f[k]
      <4>1. \A k \in 0 .. m - 1 : g[k] = IF k = 0 THEN <<>> ELSE After(f[k - 1], k)
        BY <2>2
      <4>2. \A k \in 0 .. m - 1 : f[k] = IF k = 0 THEN <<>> ELSE After(f[k - 1], k)
        BY <3>1
      <4> QED
        BY <4>1, <4>2
    <3>3. \A k \in 0 .. m : k = 0 \/ k - 1 \in 0 .. m - 1
      OBVIOUS
    <3>4. g = Rec(m, g)
      BY <3>2, <3>3
    <3> QED
      BY <3>4
  <2> QED
    BY <2>1, <2>2
<1>2. \A m \in S : \E l \in S : l < m
  <2> HIDE DEF P
  <2>1. \A m \in S : m # 0 /\ m - 1 \in Nat /\ m - 1 < m /\ ~P(m - 1)
    BY <1>1
  <2> QED
    BY <2>1
<1>3. S = {}
  <2> HIDE DEF P
  <2> QED
    BY <1>2, NoneLeft
<1>4. P(n)
  <2> HIDE DEF P
  <2> QED
    BY <1>3
<1> QED
  BY <1>4 DEF Loop

\* What becomes an observation was read, is the only one of its name, and fits.
LEMMA AffordableElements ==
  ASSUME NEW rs \in Seq(Records), NEW budget \in Nat
  PROVE  LET found == Affordable(rs, budget)
         IN  /\ found \in Seq(Records) /\ Range(found) \subseteq Range(rs)
             /\ Total(found) <= budget
             /\ \A i, j \in DOMAIN found : found[i].name = found[j].name => i = j
<1> DEFINE n == Len(rs)
           After(kept, k) == AfterRecord(rs, budget, kept, k)
           f == CHOOSE f : f = Loop(rs, budget, n, f)
           Good(s, k) == /\ s \in Seq(Records) /\ Total(s) <= budget
                         /\ \A i \in DOMAIN s : \E m \in 1 .. k : s[i] = rs[m] /\ Sole(rs, m)
                         /\ \A i, j \in DOMAIN s : s[i].name = s[j].name => i = j
<1>1. n \in Nat /\ DOMAIN rs = 1 .. n /\ \A k \in 1 .. n : rs[k] \in Records
  BY LenProperties
<1>2. f = Loop(rs, budget, n, f)
  BY <1>1, AffordableDefined
<1>3. Affordable(rs, budget) = f[n]
  BY DEF Affordable, Loop, AfterRecord
<1> HIDE DEF f, After
<1>4. f[0] = <<>> /\ \A k \in 1 .. n : f[k] = After(f[k - 1], k)
  BY <1>1, <1>2 DEF Loop, After
<1> HIDE DEF n
<1>5. ASSUME NEW k \in 1 .. n, NEW s, Good(s, k - 1)
      PROVE  Good(After(s, k), k)
  <2>1. \A m \in 1 .. k - 1 : m \in 1 .. k /\ m \in 1 .. n /\ m # k
    BY <1>1
  <2>2. CASE After(s, k) = s
    <3>1. Good(s, k)
      BY <1>5, <2>1
    <3> HIDE DEF Good
    <3> QED
      BY <2>2, <3>1
  <2>3. CASE /\ After(s, k) = Append(s, rs[k]) /\ Sole(rs, k)
             /\ Total(s) + Bytes(rs[k]) <= budget
    <3> DEFINE r == rs[k]
               t == Append(s, r)
    <3>1. r \in Records /\ s \in Seq(Records) /\ r = rs[k]
      BY <1>1, <1>5
    <3>2. Total(t) = Total(s) + Bytes(r)
      BY <3>1, TotalGrows
    <3> HIDE DEF r
    <3>3. /\ t \in Seq(Records) /\ Len(s) \in Nat /\ DOMAIN s = 1 .. Len(s)
          /\ DOMAIN t = 1 .. Len(s) + 1 /\ t[Len(s) + 1] = r
          /\ \A i \in 1 .. Len(s) : t[i] = s[i]
      BY <3>1
    <3>4. \A i \in DOMAIN t : i \in DOMAIN s \/ i = Len(s) + 1
      BY <3>3
    <3> HIDE DEF t
    <3>5. \A i \in DOMAIN t : \E m \in 1 .. k : t[i] = rs[m] /\ Sole(rs, m)
      <4>1. k \in 1 .. k
        BY <1>1
      <4>2. \A i \in DOMAIN s : \E m \in 1 .. k : t[i] = rs[m] /\ Sole(rs, m)
        BY <1>5, <2>1, <3>3
      <4> QED
        BY <2>3, <3>1, <3>3, <3>4, <4>1, <4>2
    <3>6. \A i \in DOMAIN s : s[i].name # r.name
      <4> SUFFICES ASSUME NEW i \in DOMAIN s PROVE s[i].name # r.name
        OBVIOUS
      <4>1. PICK m \in 1 .. k - 1 : s[i] = rs[m]
        BY <1>5
      <4>2. m \in 1 .. n /\ m # k
        BY <2>1
      <4>3. m \notin Named(rs, r.name)
        BY <2>3, <3>1, <4>2 DEF Sole
      <4> QED
        BY <1>1, <4>1, <4>2, <4>3 DEF Named
    <3>7. ASSUME NEW i \in DOMAIN t, NEW j \in DOMAIN t, t[i].name = t[j].name
          PROVE  i = j
      <4>1. CASE i \in DOMAIN s /\ j \in DOMAIN s
        BY <1>5, <3>3, <3>7, <4>1
      <4>2. CASE i \in DOMAIN s /\ j = Len(s) + 1
        BY <3>3, <3>6, <3>7, <4>2
      <4>3. CASE j \in DOMAIN s /\ i = Len(s) + 1
        BY <3>3, <3>6, <3>7, <4>3
      <4> QED
        BY <3>4, <4>1, <4>2, <4>3
    <3>8. Good(t, k)
      BY <2>3, <3>1, <3>2, <3>3, <3>5, <3>7
    <3>9. After(s, k) = t
      BY <2>3 DEF r, t
    <3> HIDE DEF Good
    <3> QED
      BY <3>8, <3>9
  <2> QED
    BY <2>2, <2>3 DEF After, AfterRecord
<1>6. Good(<<>>, 0)
  BY TotalOfNothing
<1> DEFINE S == {k \in 0 .. n : ~Good(f[k], k)}
<1>7. \A k \in S : \E m \in S : m < k
  <2> HIDE DEF Good
  <2> SUFFICES ASSUME NEW k \in S PROVE k - 1 \in S /\ k - 1 < k
    OBVIOUS
  <2>1. k # 0
    BY <1>4, <1>6
  <2>2. k \in 1 .. n /\ k - 1 \in 0 .. n /\ k - 1 < k
    BY <1>1, <2>1
  <2>3. ~Good(f[k - 1], k - 1)
    BY <1>4, <1>5, <2>2
  <2> QED
    BY <2>2, <2>3
<1>8. S = {}
  <2>1. S \in SUBSET Nat
    BY <1>1
  <2> HIDE DEF S
  <2> QED
    BY <1>7, <2>1, NoneLeft
<1>9. Good(f[n], n)
  <2>1. n \in 0 .. n
    BY <1>1
  <2> HIDE DEF Good
  <2> QED
    BY <1>8, <2>1
<1>10. Range(f[n]) \subseteq Range(rs)
  BY <1>1, <1>9 DEF Range
<1> QED
  BY <1>3, <1>9, <1>10

LEMMA NameCapacityBounds ==
  ASSUME NEW rs \in Seq(Records)
  PROVE  NameCapacity(rs) \in 1 .. MaxNameUnits + 1
<1> DEFINE U == {0} \union {Smaller(NameUnits[r.name], MaxNameUnits) : r \in Range(rs)}
           m == Max(U)
<1>1. MaxNameUnits \in Nat
  BY ScanAssumption
<1>2. \A r \in Range(rs) : r \in Records
  BY LenProperties DEF Range
<1>3. \A r \in Range(rs) : Smaller(NameUnits[r.name], MaxNameUnits) \in 0 .. MaxNameUnits
  BY <1>1, <1>2, RecordFields DEF Smaller
<1>4. U \in SUBSET (0 .. MaxNameUnits) /\ U # {}
  BY <1>1, <1>3
<1> HIDE DEF U
<1>5. m \in 0 .. MaxNameUnits
  BY <1>1, <1>4, MaxIsGreatest
<1>6. NameCapacity(rs) = m + 1
  BY DEF NameCapacity, U
<1> QED
  BY <1>1, <1>5, <1>6

-----------------------------------------------------------------------------
(***************************************************************************)
(* What a key holds                                                        *)
(***************************************************************************)

DistinctNames(rs) == \A i, j \in DOMAIN rs : rs[i].name = rs[j].name => i = j

LEMMA ContentsAre ==
  ASSUME NEW rs
  PROVE  rs \in Contents <=> /\ rs \in Seq(Records) /\ Len(rs) <= MaxKeyValues
                             /\ DistinctNames(rs)
<1>1. MaxKeyValues \in Nat
  BY ScanAssumption
<1>2. rs \in Contents <=> rs \in BoundedSeq(Records, MaxKeyValues) /\ DistinctNames(rs)
  BY DEF Contents, NoRepeats, IsInjective, DistinctNames
<1>3. ASSUME rs \in Seq(Records), Len(rs) <= MaxKeyValues
      PROVE  rs \in BoundedSeq(Records, MaxKeyValues)
  <2>1. Len(rs) \in 0 .. MaxKeyValues /\ rs \in [1 .. Len(rs) -> Records]
    BY <1>1, <1>3
  <2> QED
    BY <2>1 DEF BoundedSeq, SeqOf
<1> QED
  BY <1>1, <1>2, <1>3, BoundedAreSeqs

LEMMA EmptyContents == <<>> \in Contents
<1>1. <<>> \in Seq(Records) /\ Len(<<>>) = 0 /\ DOMAIN <<>> = {} /\ MaxKeyValues \in Nat
  BY ScanAssumption
<1>2. DistinctNames(<<>>)
  BY <1>1 DEF DistinctNames
<1>3. PICK rs : rs = <<>>
  OBVIOUS
<1>4. rs \in Seq(Records) /\ Len(rs) <= MaxKeyValues /\ DistinctNames(rs)
  BY <1>1, <1>2, <1>3
<1>5. rs \in Contents
  BY <1>4, ContentsAre
<1> QED
  BY <1>3, <1>5

LEMMA ValueReplaced ==
  ASSUME NEW rs \in Contents, NEW r \in Records, NEW k \in Named(rs, r.name)
  PROVE  ReplaceAt(rs, k, r) \in Contents
<1> DEFINE n == Len(rs)
           new == ReplaceAt(rs, k, r)
<1>1. rs \in Seq(Records) /\ n <= MaxKeyValues /\ DistinctNames(rs)
  BY ContentsAre
<1>2. n \in Nat /\ DOMAIN rs = 1 .. n /\ \A i \in 1 .. n : rs[i] \in Records
  BY <1>1, LenProperties
<1>3. k \in 1 .. n /\ rs[k].name = r.name
  BY <1>2 DEF Named
<1>4. new = [rs EXCEPT ![k] = r]
  BY DEF ReplaceAt
<1> HIDE DEF new
<1>5. /\ DOMAIN new = 1 .. n /\ new[k] = r /\ \A i \in 1 .. n : i # k => new[i] = rs[i]
      /\ new = [i \in 1 .. n |-> new[i]]
  BY <1>1, <1>2, <1>3, <1>4
<1>6. \A i \in 1 .. n : new[i] \in Records /\ new[i].name = rs[i].name
  BY <1>2, <1>3, <1>5
<1>7. new \in Seq(Records) /\ Len(new) = n
  <2>1. new \in [1 .. n -> Records]
    BY <1>5, <1>6
  <2> HIDE DEF n
  <2> QED
    BY <1>2, <2>1
<1>8. DistinctNames(new)
  BY <1>1, <1>2, <1>5, <1>6 DEF DistinctNames
<1> QED
  BY <1>1, <1>7, <1>8, ContentsAre DEF new

LEMMA ValueInserted ==
  ASSUME NEW rs \in Contents, NEW r \in Records, Named(rs, r.name) = {},
         Len(rs) < MaxKeyValues, NEW k \in 1 .. Len(rs) + 1
  PROVE  InsertAt(rs, k, r) \in Contents
<1> DEFINE n == Len(rs)
           new == InsertAt(rs, k, r)
<1>1. rs \in Seq(Records) /\ DistinctNames(rs)
  BY ContentsAre
<1>2. n \in Nat /\ DOMAIN rs = 1 .. n /\ MaxKeyValues \in Nat
  BY <1>1, ScanAssumption
<1>3. /\ new \in Seq(Records) /\ Len(new) = n + 1
      /\ \A i \in 1 .. n + 1 : new[i] = IF i < k THEN rs[i] ELSE IF i = k THEN r ELSE rs[i - 1]
  <2>1. IsInsertion(InsertAt(rs, k, r), Records, rs, k, r)
    <3> HIDE DEF n, new
    <3> QED
      BY <1>1, Inserted, Zenon
  <2> QED
    BY <1>2, <2>1 DEF IsInsertion
<1>4. \A i \in 1 .. n : rs[i].name # r.name
  BY <1>2 DEF Named
<1> DEFINE old(i) == IF i < k THEN i ELSE i - 1
<1>5. \A i \in 1 .. n + 1 : i # k => old(i) \in 1 .. n /\ new[i] = rs[old(i)]
  <2> SUFFICES ASSUME NEW i \in 1 .. n + 1, i # k
               PROVE  old(i) \in 1 .. n /\ new[i] = rs[old(i)]
    OBVIOUS
  <2>1. new[i] = IF i < k THEN rs[i] ELSE rs[i - 1]
    BY <1>3
  <2> HIDE DEF new
  <2>2. CASE i < k
    BY <1>2, <2>1, <2>2
  <2>3. CASE i > k
    BY <1>2, <2>1, <2>3
  <2> QED
    BY <1>2, <2>2, <2>3
<1>6. new[k] = r /\ k \in 1 .. n + 1
  BY <1>3
<1>7. DOMAIN new = 1 .. n + 1
  BY <1>2, <1>3
<1>8. \A i, j \in 1 .. n + 1 : i # k /\ j # k /\ old(i) = old(j) => i = j
  BY <1>2
<1> HIDE DEF new, n, old
<1>9. DistinctNames(new)
  <2> SUFFICES ASSUME NEW i \in 1 .. n + 1, NEW j \in 1 .. n + 1, new[i].name = new[j].name
               PROVE  i = j
    BY <1>7 DEF DistinctNames
  <2>1. CASE i # k /\ j # k
    <3>1. old(i) \in 1 .. n /\ old(j) \in 1 .. n /\ rs[old(i)].name = rs[old(j)].name
      BY <1>5, <2>1
    <3>2. old(i) = old(j)
      BY <1>1, <1>2, <3>1 DEF DistinctNames
    <3> QED
      BY <1>8, <2>1, <3>2
  <2>2. CASE i = k /\ j # k
    BY <1>4, <1>5, <1>6, <2>2
  <2>3. CASE j = k /\ i # k
    BY <1>4, <1>5, <1>6, <2>3
  <2> QED
    BY <2>1, <2>2, <2>3
<1>10. Len(new) <= MaxKeyValues
  BY <1>2, <1>3 DEF n
<1> QED
  BY <1>3, <1>9, <1>10, ContentsAre DEF new

LEMMA ValueRemoved ==
  ASSUME NEW rs \in Contents, NEW k \in DOMAIN rs
  PROVE  RemoveAt(rs, k) \in Contents
<1> DEFINE n == Len(rs)
           new == RemoveAt(rs, k)
<1>1. rs \in Seq(Records) /\ DistinctNames(rs) /\ n <= MaxKeyValues
  BY ContentsAre
<1>2. n \in Nat /\ DOMAIN rs = 1 .. n /\ MaxKeyValues \in Nat
  BY <1>1, ScanAssumption
<1>3. /\ new \in Seq(Records) /\ Len(new) = n - 1
      /\ \A i \in 1 .. n - 1 : new[i] = IF i < k THEN rs[i] ELSE rs[i + 1]
  BY <1>1, <1>2, Removed
<1> DEFINE old(i) == IF i < k THEN i ELSE i + 1
<1>4. k \in 1 .. n /\ DOMAIN new = 1 .. n - 1
  BY <1>2, <1>3
<1> HIDE DEF new
<1>5. \A i \in 1 .. n - 1 : old(i) \in 1 .. n /\ new[i] = rs[old(i)]
  BY <1>2, <1>3, <1>4
<1>6. \A i, j \in 1 .. n - 1 : old(i) = old(j) => i = j
  BY <1>2, <1>4
<1> HIDE DEF n, old
<1>7. DistinctNames(new)
  <2> SUFFICES ASSUME NEW i \in 1 .. n - 1, NEW j \in 1 .. n - 1, new[i].name = new[j].name
               PROVE  i = j
    BY <1>4 DEF DistinctNames
  <2>1. old(i) \in 1 .. n /\ old(j) \in 1 .. n /\ rs[old(i)].name = rs[old(j)].name
    BY <1>5
  <2>2. old(i) = old(j)
    BY <1>1, <1>2, <2>1 DEF DistinctNames
  <2> QED
    BY <1>6, <2>2
<1>8. Len(new) <= MaxKeyValues
  BY <1>1, <1>2, <1>3
<1> QED
  BY <1>3, <1>7, <1>8, ContentsAre DEF new

-----------------------------------------------------------------------------
(***************************************************************************)
(* The invariant                                                           *)
(***************************************************************************)
TypeIds == {TypeOf[d] : d \in Data} \union {None}

Scans == [count : Nat, units : 0 .. MaxNameUnits + 1, changed : BOOLEAN,
          index : 0 .. MaxValues, records : Seq(Records), repeated : BOOLEAN,
          flawed : BOOLEAN]

Calls == [tries : 0 .. MaxGrowth - 1, units : 0 .. MaxNameUnits + 1,
          bytes : 0 .. MaxValueBytes, name : Names \union {None}, type : TypeIds]

Results == [status : Statuses \union {"pending"}, found : Seq(Records)]

\* The declared types, with lists that are lists.
KeyInv ==
    /\ exists \in BOOLEAN /\ values \in Contents /\ seen \subseteq Records
    /\ ~exists => values = <<>>
    /\ live \in BOOLEAN /\ (live => exists)

ScanInv ==
    /\ pc \in {"open", "query", "probe", "read", "requery", "done"}
    /\ scan \in Scans /\ call \in Calls
    /\ last \in Seq(Records) \union {None}
    /\ pc = "open" => ~live
    /\ pc \in {"probe", "read"} => scan.index < MaxValues
    /\ pc = "read" => call.name # None

\* What has been read was there.
SeenInv ==
    /\ Range(values) \subseteq seen
    /\ Range(scan.records) \subseteq seen
    /\ last # None => Range(last) \subseteq seen

\* As long as nothing was written and nothing skipped, an attempt has read the
\* values before its index.
SnapshotInv ==
    live /\ ~scan.changed /\ ~scan.flawed /\ pc \in {"probe", "read", "requery"} =>
        /\ scan.index <= Len(values)
        /\ Len(scan.records) = scan.index
        /\ Range(scan.records) = {values[k] : k \in 1 .. scan.index}

\* Scopes before the current one have their results, the others none.
Ended(outcome) ==
    /\ outcome.status \in Statuses
    /\ outcome.status \notin Readable => outcome.found = <<>>
    /\ DistinctNames(outcome.found)

ResultInv ==
    /\ layout \in Layouts /\ scope \in 1 .. Scopes + 1 /\ attempt \in 1 .. MaxAttempts
    /\ (pc = "done") = (scope = Scopes + 1)
    /\ result \in [1 .. Scopes -> Results]
    /\ \A s \in 1 .. Scopes : IF s < scope THEN Ended(result[s]) ELSE result[s] = Pending

BudgetInv ==
    /\ remaining \in 0 .. Budget
    /\ SumOf([s \in 1 .. Scopes |-> Total(result[s].found)]) + remaining = Budget

RegistryInv == KeyInv /\ ScanInv /\ SeenInv /\ SnapshotInv /\ ResultInv /\ BudgetInv

LEMMA InvImpliesTypes == RegistryInv => TypeOK
<1> SUFFICES ASSUME RegistryInv PROVE TypeOK
  OBVIOUS
<1>1. /\ scan.index \in 0 .. MaxValues /\ scan.records \in Seq(Records)
      /\ call.tries \in 0 .. MaxGrowth - 1 /\ call.units \in 0 .. MaxNameUnits + 1
      /\ call.bytes \in 0 .. MaxValueBytes /\ call.name \in Names \union {None}
  BY DEF RegistryInv, ScanInv, Scans, Calls
<1>2. \A rs \in Seq(Records) : Range(rs) \subseteq Records
  <2> SUFFICES ASSUME NEW rs \in Seq(Records) PROVE Range(rs) \subseteq Records
    OBVIOUS
  <2> QED
    BY LenProperties DEF Range
<1>3. \A s \in 1 .. Scopes : result[s].status \in Statuses \union {"pending"}
                             /\ result[s].found \in Seq(Records)
  BY DEF RegistryInv, ResultInv, Results
<1>4. last = None \/ Range(last) \subseteq Records
  BY <1>2 DEF RegistryInv, ScanInv
<1> QED
  BY <1>1, <1>2, <1>3, <1>4
     DEF RegistryInv, KeyInv, ScanInv, ResultInv, BudgetInv, TypeOK

LEMMA NoScanIsScan == NoScan \in Scans /\ NoScan.records = <<>> /\ Range(<<>>) = {}
<1>1. 0 \in 0 .. MaxNameUnits + 1 /\ 0 \in 0 .. MaxValues /\ <<>> \in Seq(Records)
  BY ScanAssumption
<1> QED
  BY <1>1 DEF NoScan, Scans, Range

LEMMA NoCallIsCall ==
  /\ NoCall \in Calls
  /\ \A u \in 0 .. MaxNameUnits + 1 : [NoCall EXCEPT !.units = u] \in Calls
<1>1. /\ 0 \in 0 .. MaxGrowth - 1 /\ 0 \in 0 .. MaxNameUnits + 1 /\ 0 \in 0 .. MaxValueBytes
  BY ScanAssumption
<1> QED
  BY <1>1 DEF NoCall, Calls, TypeIds

LEMMA RegistryInitially == Init => RegistryInv
<1> SUFFICES ASSUME Init PROVE RegistryInv
  OBVIOUS
<1>1. values \in Contents /\ (~exists => values = <<>>)
  BY EmptyContents DEF Init
<1>2. values \in Seq(Records)
  BY <1>1, ContentsAre
<1>3. Range(values) \subseteq Records
  BY <1>2, LenProperties DEF Range
<1>4. KeyInv
  BY <1>1, <1>3 DEF Init, KeyInv
<1>5. ScanInv
  BY NoScanIsScan, NoCallIsCall DEF Init, ScanInv
<1>6. SeenInv
  BY NoScanIsScan DEF Init, SeenInv
<1>7. SnapshotInv
  BY DEF Init, SnapshotInv
<1>8. Pending \in Results
  <2>1. <<>> \in Seq(Records)
    OBVIOUS
  <2> QED
    BY <2>1 DEF Pending, Outcome, Results
<1>9. ResultInv
  BY <1>8, ScanAssumption DEF Init, ResultInv
<1>10. BudgetInv
  <2> DEFINE w == [s \in 1 .. Scopes |-> Total(result[s].found)]
  <2>1. \A s \in 1 .. Scopes : Total(result[s].found) = 0
    BY TotalOfNothing DEF Init, Pending, Outcome
  <2>2. w \in [1 .. Scopes -> Nat] /\ \A k \in 1 .. Scopes : w[k] = 0
    BY <2>1
  <2>3. Scopes \in Nat /\ Budget \in Nat /\ remaining = Budget
    BY ScanAssumption DEF Init
  <2> HIDE DEF w
  <2>4. SumOf(w) = 0
    BY <2>2, <2>3, SumOfZeros
  <2> QED
    BY <2>3, <2>4 DEF BudgetInv, w
<1> QED
  BY <1>4, <1>5, <1>6, <1>7, <1>9, <1>10 DEF RegistryInv

-----------------------------------------------------------------------------
(***************************************************************************)
(* Writes                                                                  *)
(***************************************************************************)

\* What a step of the environment does to the key.
KeyMoves ==
    /\ RegistryInv'
    /\ values' \in Contents /\ seen' = seen \union Range(values')
    /\ UNCHANGED <<scope, result>>
    /\ pc # "done"

LEMMA ContentsElements ==
  ASSUME NEW rs \in Contents
  PROVE  rs \in Seq(Records) /\ Range(rs) \subseteq Records
<1>1. rs \in Seq(Records)
  BY ContentsAre
<1> QED
  BY <1>1, LenProperties DEF Range

LEMMA WriteStep ==
  ASSUME RegistryInv, NEW rs \in Contents, exists, exists' = exists, Write(rs)
  PROVE  KeyMoves
<1>1. /\ pc # "done" /\ values' = rs /\ seen' = seen \union Range(rs)
      /\ scan' = IF pc \in {"probe", "read", "requery"} THEN [scan EXCEPT !.changed = TRUE]
                 ELSE scan
      /\ pc' = pc /\ call' = call /\ layout' = layout /\ scope' = scope /\ attempt' = attempt
      /\ live' = live /\ last' = last /\ remaining' = remaining /\ result' = result
  BY DEF Write, scopeVars
<1>2. Range(rs) \subseteq Records
  BY ContentsElements
<1>3. scan \in Scans
  BY DEF RegistryInv, ScanInv
<1>4. /\ scan' \in Scans /\ scan'.index = scan.index /\ scan'.records = scan.records
      /\ pc \in {"probe", "read", "requery"} => scan'.changed
  BY <1>1, <1>3 DEF Scans
<1>5. KeyInv'
  BY <1>1, <1>2 DEF RegistryInv, KeyInv
<1>6. ScanInv'
  BY <1>1, <1>4 DEF RegistryInv, ScanInv
<1>7. SeenInv'
  BY <1>1, <1>4 DEF RegistryInv, SeenInv
<1>8. SnapshotInv'
  BY <1>1, <1>4 DEF SnapshotInv
<1>9. ResultInv' /\ BudgetInv'
  BY <1>1 DEF RegistryInv, ResultInv, BudgetInv
<1> QED
  BY <1>1, <1>5, <1>6, <1>7, <1>8, <1>9 DEF KeyMoves, RegistryInv

LEMMA EnvironmentStep == RegistryInv /\ Environment => KeyMoves
<1> SUFFICES ASSUME RegistryInv, Environment PROVE KeyMoves
  OBVIOUS
<1>1. values \in Contents
  BY DEF RegistryInv, KeyInv
<1>2. CASE SetValue
  <2>1. exists /\ exists' = exists
    BY <1>2 DEF SetValue
  <2>2. PICK r \in Records :
            \/ \E k \in Named(values, r.name) : Write(ReplaceAt(values, k, r))
            \/ /\ Named(values, r.name) = {} /\ Len(values) < MaxKeyValues
               /\ \E k \in 1 .. Len(values) + 1 : Write(InsertAt(values, k, r))
    BY <1>2 DEF SetValue
  <2>3. ASSUME NEW k \in Named(values, r.name), Write(ReplaceAt(values, k, r))
        PROVE  KeyMoves
    BY <1>1, <2>1, <2>3, ValueReplaced, WriteStep
  <2>4. ASSUME Named(values, r.name) = {}, Len(values) < MaxKeyValues,
               NEW k \in 1 .. Len(values) + 1, Write(InsertAt(values, k, r))
        PROVE  KeyMoves
    BY <1>1, <2>1, <2>4, ValueInserted, WriteStep
  <2> QED
    BY <2>2, <2>3, <2>4
<1>3. CASE DeleteValue
  <2>1. PICK k \in DOMAIN values : Write(RemoveAt(values, k))
    BY <1>3 DEF DeleteValue
  <2>2. exists' = exists
    BY <1>3 DEF DeleteValue
  <2>3. exists
    BY <2>1 DEF RegistryInv, KeyInv
  <2> QED
    BY <1>1, <2>1, <2>2, <2>3, ValueRemoved, WriteStep
<1>4. CASE DeleteKey
  <2>1. /\ pc # "done" /\ exists' = FALSE /\ values' = <<>> /\ live' = FALSE
        /\ UNCHANGED <<seen, layout, scope, attempt, pc, scan, call, last, remaining, result>>
    BY <1>4 DEF DeleteKey
  <2>2. <<>> \in Contents /\ Range(<<>>) = {}
    BY EmptyContents, NoScanIsScan
  <2>3. KeyInv' /\ ScanInv' /\ SeenInv' /\ SnapshotInv'
    BY <2>1, <2>2 DEF RegistryInv, KeyInv, ScanInv, SeenInv, SnapshotInv
  <2>4. ResultInv' /\ BudgetInv'
    BY <2>1 DEF RegistryInv, ResultInv, BudgetInv
  <2> QED
    BY <2>1, <2>2, <2>3, <2>4 DEF KeyMoves, RegistryInv
<1>5. CASE CreateKey
  <2>1. /\ pc # "done" /\ exists' = TRUE /\ ~exists
        /\ values' = values /\ seen' = seen /\ pc' = pc /\ scan' = scan /\ call' = call
        /\ layout' = layout /\ scope' = scope /\ attempt' = attempt
        /\ live' = live /\ last' = last /\ remaining' = remaining /\ result' = result
    BY <1>5 DEF CreateKey, scopeVars
  <2>2. KeyInv' /\ ScanInv' /\ SeenInv' /\ SnapshotInv'
    BY <2>1 DEF RegistryInv, KeyInv, ScanInv, SeenInv, SnapshotInv
  <2>3. ResultInv' /\ BudgetInv'
    BY <2>1 DEF RegistryInv, ResultInv, BudgetInv
  <2>4. seen = seen \union Range(values)
    BY DEF RegistryInv, SeenInv
  <2> QED
    BY <1>1, <2>1, <2>2, <2>3, <2>4 DEF KeyMoves, RegistryInv
<1> QED
  BY <1>2, <1>3, <1>4, <1>5 DEF Environment

-----------------------------------------------------------------------------
(***************************************************************************)
(* The end of a scope                                                      *)
(***************************************************************************)

\* The outcomes with which a scope may end.
Ends(outcome) ==
    /\ outcome \in Results
    /\ Total(outcome.found) <= remaining
    /\ DistinctNames(outcome.found)
    /\ \/ /\ outcome.status = "complete"
          /\ Range(outcome.found) = Range(values) /\ Len(outcome.found) = Len(values)
       \/ outcome.status = "partial" /\ Range(outcome.found) \subseteq seen
       \/ outcome.status \in {"permission_denied", "failed"} /\ outcome.found = <<>>

LEMMA EndScopeStep ==
  ASSUME RegistryInv, pc # "done", NEW outcome, Ends(outcome), EndScope(outcome)
  PROVE  RegistryInv'
<1>1. /\ result' = [result EXCEPT ![scope] = outcome]
      /\ remaining' = remaining - Total(outcome.found) /\ scope' = scope + 1
      /\ seen' = Range(values') /\ attempt' = 1 /\ live' = FALSE
      /\ scan' = NoScan /\ call' = NoCall /\ last' = None /\ layout' = layout
  BY DEF EndScope, Left
<1>2. \/ /\ scope < Scopes /\ pc' = "open" /\ exists' \in BOOLEAN
         /\ values' \in IF exists' THEN Contents ELSE {<<>>}
      \/ scope = Scopes /\ pc' = "done" /\ exists' = FALSE /\ values' = <<>>
  BY DEF EndScope
<1>3. /\ exists' \in BOOLEAN /\ values' \in Contents /\ (~exists' => values' = <<>>)
  BY <1>2, EmptyContents
<1>4. Range(values') \subseteq Records
  BY <1>3, ContentsElements
<1>5. KeyInv'
  BY <1>1, <1>3, <1>4 DEF KeyInv
<1>6. ScanInv'
  BY <1>1, <1>2, NoScanIsScan, NoCallIsCall DEF ScanInv
<1>7. SeenInv'
  BY <1>1, NoScanIsScan DEF SeenInv
<1>8. SnapshotInv'
  BY <1>1 DEF SnapshotInv
<1>9. /\ Scopes \in Nat \ {0} /\ scope \in 1 .. Scopes /\ scope' \in 1 .. Scopes + 1
      /\ (pc' = "done") = (scope' = Scopes + 1)
  BY <1>1, <1>2, ScanAssumption DEF RegistryInv, ResultInv
<1>10. outcome \in Results /\ Ended(outcome)
  BY DEF Ends, Ended, Statuses, Readable
<1>11. /\ result' \in [1 .. Scopes -> Results] /\ result'[scope] = outcome
       /\ \A s \in 1 .. Scopes : s # scope => result'[s] = result[s]
  BY <1>1, <1>9, <1>10 DEF RegistryInv, ResultInv
<1>12. ResultInv'
  <2>1. \A s \in 1 .. Scopes : IF s < scope' THEN Ended(result'[s]) ELSE result'[s] = Pending
    <3> SUFFICES ASSUME NEW s \in 1 .. Scopes
                 PROVE  IF s < scope' THEN Ended(result'[s]) ELSE result'[s] = Pending
      OBVIOUS
    <3>1. IF s < scope THEN Ended(result[s]) ELSE result[s] = Pending
      BY DEF RegistryInv, ResultInv
    <3>2. s < scope' <=> s < scope \/ s = scope
      BY <1>1, <1>9
    <3> QED
      BY <1>9, <1>10, <1>11, <3>1, <3>2
  <2>2. attempt' \in 1 .. MaxAttempts /\ layout' \in Layouts
    BY <1>1, ScanAssumption DEF RegistryInv, ResultInv
  <2> QED
    BY <1>9, <1>11, <2>1, <2>2 DEF ResultInv
<1>13. BudgetInv'
  <2> DEFINE w == [s \in 1 .. Scopes |-> Total(result[s].found)]
             v == [s \in 1 .. Scopes |-> Total(result'[s].found)]
             t == Total(outcome.found)
  <2>1. \A r \in Results : Total(r.found) \in Nat
    <3> SUFFICES ASSUME NEW r \in Results PROVE Total(r.found) \in Nat
      OBVIOUS
    <3>1. r.found \in Seq(Records)
      BY DEF Results
    <3> QED
      BY <3>1, TotalIsNat
  <2>2. w \in [1 .. Scopes -> Nat] /\ v \in [1 .. Scopes -> Nat]
    BY <1>11, <2>1 DEF RegistryInv, ResultInv
  <2>3. result[scope] = Pending
    BY <1>9 DEF RegistryInv, ResultInv
  <2>4. w[scope] = 0 /\ v[scope] = t
    BY <1>9, <1>11, <2>3, TotalOfNothing DEF Pending, Outcome
  <2>5. \A k \in 1 .. Scopes : k # scope => v[k] = w[k]
    BY <1>11
  <2>6. remaining \in 0 .. Budget /\ SumOf(w) + remaining = Budget /\ Budget \in Nat
    BY ScanAssumption DEF RegistryInv, BudgetInv
  <2>7. t \in Nat /\ t <= remaining
    BY <1>10, <2>1 DEF Ends
  <2>8. remaining' = remaining - t
    BY <1>1
  <2> HIDE DEF w, v, t
  <2>9. SumOf(w) \in Nat /\ SumOf(v) \in Nat /\ SumOf(v) + w[scope] = SumOf(w) + v[scope]
    BY <1>9, <2>2, <2>5, SumOfChanged
  <2>10. SumOf(v) = SumOf(w) + t
    BY <2>4, <2>7, <2>9
  <2>11. remaining' \in 0 .. Budget /\ SumOf(v) + remaining' = Budget
    BY <2>6, <2>7, <2>8, <2>9, <2>10
  <2> QED
    BY <2>11 DEF BudgetInv, v
<1> QED
  BY <1>5, <1>6, <1>7, <1>8, <1>12, <1>13 DEF RegistryInv

\* Records of the key, with everything that was skipped in the flaw.
LEMMA CollectionEnds ==
  ASSUME RegistryInv, NEW rs \in Seq(Records), Range(rs) \subseteq seen,
         NEW flawed \in BOOLEAN,
         ~flawed => Range(rs) = Range(values) /\ Len(rs) = Len(values)
  PROVE  Ends(Collection(rs, flawed, remaining))
<1> DEFINE found == Affordable(rs, remaining)
           outcome == Collection(rs, flawed, remaining)
<1>1. remaining \in Nat
  BY ScanAssumption DEF RegistryInv, BudgetInv
<1>2. /\ found \in Seq(Records) /\ Range(found) \subseteq Range(rs)
      /\ Total(found) <= remaining /\ DistinctNames(found)
  BY <1>1, AffordableElements DEF DistinctNames
<1>3. /\ outcome.found = found
      /\ outcome = Outcome(outcome.status, found)
      /\ \/ outcome.status = "partial"
         \/ outcome.status = "complete" /\ ~flawed /\ found = rs
  BY DEF Collection, Outcome
<1> HIDE DEF outcome, found
<1>4. outcome \in Results
  BY <1>2, <1>3 DEF Outcome, Results, Statuses
<1>5. Ends(outcome)
  BY <1>2, <1>3, <1>4 DEF Ends
<1> QED
  BY <1>5 DEF outcome

LEMMA EmptyEnds ==
  ASSUME RegistryInv, NEW st,
         \/ st \in {"partial", "permission_denied", "failed"}
         \/ st = "complete" /\ values = <<>>
  PROVE  Ends(Outcome(st, <<>>))
<1>1. /\ Total(<<>>) = 0 /\ 0 <= remaining /\ <<>> \in Seq(Records) /\ Range(<<>>) = {}
      /\ DOMAIN <<>> = {}
  BY TotalOfNothing, NoScanIsScan, ScanAssumption DEF RegistryInv, BudgetInv
<1>2. PICK none : none = <<>>
  OBVIOUS
<1>3. /\ Total(none) <= remaining /\ none \in Seq(Records) /\ Range(none) = {}
      /\ DistinctNames(none)
  BY <1>1, <1>2 DEF DistinctNames
<1> DEFINE outcome == Outcome(st, none)
<1>4. outcome.status = st /\ outcome.found = none /\ outcome \in Results
  BY <1>3 DEF Outcome, Results, Statuses
<1>5. Ends(outcome)
  <2> HIDE DEF outcome
  <2> QED
    BY <1>2, <1>3, <1>4 DEF Ends
<1> QED
  BY <1>2, <1>5

-----------------------------------------------------------------------------
(***************************************************************************)
(* The steps of the collector                                              *)
(***************************************************************************)

\* A step ends the scope, or keeps the key and the results as they are.
Goes ==
    \/ \E outcome : Ends(outcome) /\ EndScope(outcome)
    \/ RegistryInv' /\ UNCHANGED <<values, seen, scope, result>>

LEMMA SeqElements ==
  ASSUME NEW rs \in Seq(Records)
  PROVE  Range(rs) \subseteq Records /\ DOMAIN rs = 1 .. Len(rs) /\ Len(rs) \in Nat
BY LenProperties DEF Range

LEMMA EndAttemptStep ==
  ASSUME RegistryInv, pc # "done", NEW latest \in Seq(Records) \union {None},
         latest # None => Range(latest) \subseteq seen, EndAttempt(latest)
  PROVE  Goes
<1>1. CASE /\ attempt < MaxAttempts /\ attempt' = attempt + 1
           /\ pc' = "open" /\ live' = FALSE /\ scan' = NoScan /\ call' = NoCall
           /\ last' = latest
           /\ UNCHANGED <<keyVars, layout, scope, remaining, result>>
  <2>1. /\ exists' = exists /\ values' = values /\ seen' = seen /\ layout' = layout
        /\ scope' = scope /\ remaining' = remaining /\ result' = result
    BY <1>1 DEF keyVars
  <2>2. KeyInv'
    BY <1>1, <2>1 DEF RegistryInv, KeyInv
  <2>3. ScanInv'
    BY <1>1, NoScanIsScan, NoCallIsCall DEF ScanInv
  <2>4. SeenInv'
    BY <1>1, <2>1, NoScanIsScan DEF RegistryInv, SeenInv
  <2>5. SnapshotInv'
    BY <1>1 DEF SnapshotInv
  <2>6. attempt' \in 1 .. MaxAttempts
    BY <1>1, ScanAssumption DEF RegistryInv, ResultInv
  <2>7. ResultInv'
    BY <1>1, <2>1, <2>6 DEF RegistryInv, ResultInv
  <2>8. BudgetInv'
    BY <2>1 DEF RegistryInv, BudgetInv
  <2> QED
    BY <2>1, <2>2, <2>3, <2>4, <2>5, <2>7, <2>8 DEF Goes, RegistryInv
<1>2. CASE latest = None /\ EndScope(Outcome("partial", <<>>))
  BY <1>2, EmptyEnds DEF Goes
<1>3. CASE latest # None /\ EndScope(Collection(latest, TRUE, remaining))
  <2>1. latest \in Seq(Records) /\ Range(latest) \subseteq seen
    BY <1>3
  <2>2. Ends(Collection(latest, TRUE, remaining))
    BY <2>1, CollectionEnds
  <2> QED
    BY <1>3, <2>2 DEF Goes
<1> QED
  BY <1>1, <1>2, <1>3 DEF EndAttempt

LEMMA UnstableStep == ASSUME RegistryInv, pc # "done", Unstable PROVE Goes
<1>1. scan.records \in Seq(Records) /\ Range(scan.records) \subseteq seen
  BY DEF RegistryInv, ScanInv, SeenInv, Scans
<1> QED
  BY <1>1, EndAttemptStep DEF Unstable

LEMMA KeyDeletedStep == ASSUME RegistryInv, pc # "done", KeyDeleted PROVE Goes
<1>1. last \in Seq(Records) \union {None} /\ (last # None => Range(last) \subseteq seen)
  BY DEF RegistryInv, ScanInv, SeenInv
<1> QED
  BY <1>1, EndAttemptStep DEF KeyDeleted

LEMMA RefusedStep == ASSUME RegistryInv, Refused PROVE Goes
<1>1. PICK st \in {"permission_denied", "failed"} : EndScope(Outcome(st, <<>>))
  BY DEF Refused
<1>2. Ends(Outcome(st, <<>>))
  BY EmptyEnds
<1> QED
  BY <1>1, <1>2 DEF Goes

\* A step that concerns the scan alone.
LEMMA ScanStep ==
  ASSUME RegistryInv, pc # "done", pc' # "done",
         UNCHANGED <<keyVars, scopeVars>>,
         ScanInv', SnapshotInv', Range(scan'.records) \subseteq seen
  PROVE  Goes
<1>1. /\ exists' = exists /\ values' = values /\ seen' = seen /\ layout' = layout
      /\ scope' = scope /\ attempt' = attempt /\ live' = live /\ last' = last
      /\ remaining' = remaining /\ result' = result
  BY DEF keyVars, scopeVars
<1>2. KeyInv'
  BY <1>1 DEF RegistryInv, KeyInv
<1>3. SeenInv'
  BY <1>1 DEF RegistryInv, SeenInv
<1>4. ResultInv'
  BY <1>1 DEF RegistryInv, ResultInv
<1>5. BudgetInv'
  BY <1>1 DEF RegistryInv, BudgetInv
<1> QED
  BY <1>1, <1>2, <1>3, <1>4, <1>5 DEF Goes, RegistryInv

LEMMA AdvanceStep ==
  ASSUME RegistryInv, pc \in {"probe", "read"},
         NEW records \in Seq(Records), Range(records) \subseteq seen,
         NEW repeated \in BOOLEAN, NEW flawed \in BOOLEAN,
         live /\ ~scan.changed /\ ~flawed =>
            /\ scan.index + 1 <= Len(values) /\ Len(records) = scan.index + 1
            /\ Range(records) = {values[k] : k \in 1 .. scan.index + 1},
         Advance(records, repeated, flawed)
  PROVE  Goes
<1>1. /\ scan' = [scan EXCEPT !.index = @ + 1, !.records = records,
                              !.repeated = repeated, !.flawed = flawed]
      /\ call' = [NoCall EXCEPT !.units = scan.units]
      /\ pc' = IF scan.index + 1 < MaxValues THEN "probe" ELSE "requery"
      /\ live' = live /\ last' = last /\ values' = values
      /\ UNCHANGED <<keyVars, scopeVars>>
  BY DEF Advance, keyVars, scopeVars
<1>2. scan \in Scans /\ scan.index < MaxValues /\ MaxValues \in Nat
  BY ScanAssumption DEF RegistryInv, ScanInv
<1>3. scan.index \in Nat /\ scan.index + 1 \in 0 .. MaxValues
  BY <1>2 DEF Scans
<1>4. /\ scan' \in Scans /\ scan'.index = scan.index + 1 /\ scan'.records = records
      /\ scan'.flawed = flawed /\ scan'.changed = scan.changed
  BY <1>1, <1>2, <1>3 DEF Scans
<1>5. scan.units \in 0 .. MaxNameUnits + 1
  BY <1>2 DEF Scans
<1>6. call' \in Calls
  BY <1>1, <1>5, NoCallIsCall
<1>7. ScanInv'
  BY <1>1, <1>2, <1>4, <1>6 DEF RegistryInv, ScanInv
<1>8. SnapshotInv'
  BY <1>1, <1>4 DEF SnapshotInv
<1>9. pc # "done" /\ pc' # "done" /\ Range(scan'.records) \subseteq seen
  BY <1>1, <1>4
<1> QED
  BY <1>1, <1>7, <1>8, <1>9, ScanStep

LEMMA SkipStep ==
  ASSUME RegistryInv, pc \in {"probe", "read"}, Skip
  PROVE  Goes
<1>1. /\ scan.records \in Seq(Records) /\ Range(scan.records) \subseteq seen
      /\ scan.repeated \in BOOLEAN
  BY DEF RegistryInv, ScanInv, SeenInv, Scans
<1> QED
  BY <1>1, AdvanceStep DEF Skip

\* What the index refers to, when there is such an index.
LEMMA CurrentValue ==
  ASSUME RegistryInv, pc \in {"probe", "read"}, InRange
  PROVE  /\ Current \in Records /\ Current \in Range(values)
         /\ scan.index + 1 \in 1 .. Len(values)
<1>1. values \in Seq(Records)
  BY ContentsElements DEF RegistryInv, KeyInv
<1>2. scan.index \in Nat /\ scan.index < Len(values) /\ Len(values) \in Nat
  BY <1>1, ScanAssumption DEF RegistryInv, ScanInv, Scans, InRange
<1>3. scan.index + 1 \in 1 .. Len(values) /\ DOMAIN values = 1 .. Len(values)
  BY <1>1, <1>2
<1>4. values[scan.index + 1] \in Records /\ values[scan.index + 1] \in Range(values)
  BY <1>1, <1>3, LenProperties DEF Range
<1> QED
  BY <1>3, <1>4 DEF Current

LEMMA KeepStep ==
  ASSUME RegistryInv, pc \in {"probe", "read"}, InRange, Keep(Current)
  PROVE  Goes
<1> DEFINE i == scan.index
           placed == Placed(scan.records, Current)
           records == Trimmed(placed, remaining)
<1>1. /\ Current \in Records /\ Current \in Range(values) /\ i + 1 \in 1 .. Len(values)
  BY CurrentValue
<1>2. /\ scan.records \in Seq(Records) /\ Range(scan.records) \subseteq seen
      /\ scan.repeated \in BOOLEAN /\ scan.flawed \in BOOLEAN /\ Range(values) \subseteq seen
      /\ i \in Nat /\ remaining \in Nat
  BY ScanAssumption DEF RegistryInv, ScanInv, SeenInv, Scans, BudgetInv
<1>3. /\ placed \in Seq(Records) /\ Len(placed) = Len(scan.records) + 1
      /\ Range(placed) = Range(scan.records) \union {Current}
  BY <1>1, <1>2, PlacedElements
<1>4. records \in Seq(Records) /\ Range(records) \subseteq Range(placed)
  <2> HIDE DEF placed
  <2> QED
    BY <1>2, <1>3, TrimmedElements
<1>5. Advance(records, scan.repeated \/ Named(scan.records, Current.name) # {},
              scan.flawed \/ records # placed)
  BY DEF Keep
<1> HIDE DEF records, placed
<1>6. Range(records) \subseteq seen
  BY <1>1, <1>2, <1>3, <1>4
<1>7. ASSUME live, ~scan.changed, ~(scan.flawed \/ records # placed)
      PROVE  /\ i + 1 <= Len(values) /\ Len(records) = i + 1
             /\ Range(records) = {values[k] : k \in 1 .. i + 1}
  <2>1. Len(scan.records) = i /\ Range(scan.records) = {values[k] : k \in 1 .. i}
    BY <1>7 DEF RegistryInv, SnapshotInv
  <2>2. 1 .. i + 1 = (1 .. i) \union {i + 1}
    BY <1>2
  <2>3. Current = values[i + 1]
    BY DEF Current
  <2> HIDE DEF i
  <2>4. {values[k] : k \in 1 .. i + 1} = {values[k] : k \in 1 .. i} \union {values[i + 1]}
    BY <2>2
  <2>5. records = placed /\ i + 1 <= Len(values)
    BY <1>1, <1>2, <1>7
  <2> QED
    BY <1>3, <2>1, <2>3, <2>4, <2>5
<1>8. PICK repeated \in BOOLEAN :
          repeated = (scan.repeated \/ Named(scan.records, Current.name) # {})
  OBVIOUS
<1>9. PICK flawed \in BOOLEAN : flawed = (scan.flawed \/ records # placed)
  OBVIOUS
<1>10. live /\ ~scan.changed /\ ~flawed =>
          /\ scan.index + 1 <= Len(values) /\ Len(records) = scan.index + 1
          /\ Range(records) = {values[k] : k \in 1 .. scan.index + 1}
  BY <1>7, <1>9
<1>11. Advance(records, repeated, flawed)
  BY <1>5, <1>8, <1>9
<1> QED
  BY <1>4, <1>6, <1>10, <1>11, AdvanceStep

LEMMA RetryStep ==
  ASSUME RegistryInv, pc \in {"probe", "read"},
         NEW units \in 0 .. MaxNameUnits + 1, NEW bytes \in 0 .. MaxValueBytes,
         Retry(units, bytes)
  PROVE  Goes
<1>1. CASE /\ call.tries + 1 < MaxGrowth
           /\ call' = [call EXCEPT !.tries = @ + 1, !.units = units, !.bytes = bytes]
           /\ UNCHANGED <<pc, scan, keyVars, scopeVars>>
  <2>1. call \in Calls /\ call.tries + 1 \in 0 .. MaxGrowth - 1
    <3>1. call \in Calls /\ call.tries \in 0 .. MaxGrowth - 1
      BY DEF RegistryInv, ScanInv, Calls
    <3>2. MaxGrowth \in Nat
      BY ScanAssumption
    <3> QED
      BY <1>1, <3>1, <3>2
  <2>2. call' \in Calls /\ call'.name = call.name
    BY <1>1, <2>1 DEF Calls
  <2>3. pc' = pc /\ scan' = scan /\ live' = live /\ last' = last /\ values' = values
    BY <1>1 DEF keyVars, scopeVars
  <2>4. ScanInv'
    BY <2>2, <2>3 DEF RegistryInv, ScanInv
  <2>5. SnapshotInv'
    BY <2>3 DEF RegistryInv, SnapshotInv
  <2>6. Range(scan'.records) \subseteq seen
    BY <2>3 DEF RegistryInv, SeenInv
  <2> QED
    BY <1>1, <2>3, <2>4, <2>5, <2>6, ScanStep
<1>2. CASE Skip
  BY <1>2, SkipStep
<1> QED
  BY <1>1, <1>2 DEF Retry

LEMMA GrownName ==
  ASSUME RegistryInv
  PROVE  GrowName(call.units) \in 0 .. MaxNameUnits + 1
<1>1. call.units \in Nat /\ MaxNameUnits \in Nat
  BY ScanAssumption DEF RegistryInv, ScanInv, Calls
<1> QED
  BY <1>1 DEF GrowName, Smaller

LEMMA OpenStep == ASSUME RegistryInv, Open PROVE pc # "done" /\ Goes
<1>1. pc = "open"
  BY DEF Open
<1>2. CASE /\ exists /\ pc' = "query" /\ live' = TRUE
           /\ UNCHANGED <<keyVars, layout, scope, attempt, scan, call, last, remaining, result>>
  <2>1. /\ exists' = exists /\ values' = values /\ seen' = seen /\ layout' = layout
        /\ scope' = scope /\ attempt' = attempt /\ scan' = scan /\ call' = call
        /\ last' = last /\ remaining' = remaining /\ result' = result
    BY <1>2 DEF keyVars
  <2>2. KeyInv' /\ ScanInv' /\ SeenInv' /\ SnapshotInv'
    BY <1>2, <2>1 DEF RegistryInv, KeyInv, ScanInv, SeenInv, SnapshotInv
  <2>3. ResultInv' /\ BudgetInv'
    BY <1>1, <1>2, <2>1 DEF RegistryInv, ResultInv, BudgetInv
  <2> QED
    BY <1>1, <2>1, <2>2, <2>3 DEF Goes, RegistryInv
<1>3. CASE ~exists /\ EndScope(Outcome("complete", <<>>))
  <2>1. values = <<>>
    BY <1>3 DEF RegistryInv, KeyInv
  <2>2. Ends(Outcome("complete", <<>>))
    BY <2>1, EmptyEnds
  <2> QED
    BY <1>1, <1>3, <2>2 DEF Goes
<1>4. CASE KeyDeleted
  BY <1>1, <1>4, KeyDeletedStep
<1>5. CASE Refused
  BY <1>1, <1>5, RefusedStep
<1> QED
  BY <1>2, <1>3, <1>4, <1>5 DEF Open

LEMMA QueryBeforeStep == ASSUME RegistryInv, QueryBefore PROVE pc # "done" /\ Goes
<1>1. pc = "query"
  BY DEF QueryBefore
<1>2. CASE /\ live
           /\ scan' = [NoScan EXCEPT !.count = Len(values), !.units = NameCapacity(values)]
           /\ call' = [NoCall EXCEPT !.units = NameCapacity(values)]
           /\ pc' = "probe"
           /\ UNCHANGED <<keyVars, scopeVars>>
  <2>1. values \in Seq(Records) /\ Len(values) \in Nat
    BY ContentsElements DEF RegistryInv, KeyInv
  <2>2. NameCapacity(values) \in 0 .. MaxNameUnits + 1
    BY <2>1, NameCapacityBounds
  <2>3. /\ scan' \in Scans /\ scan'.index = 0 /\ scan'.records = <<>>
    BY <1>2, <2>1, <2>2, NoScanIsScan DEF Scans, NoScan
  <2>4. call' \in Calls
    BY <1>2, <2>2, NoCallIsCall
  <2>5. live' = live /\ last' = last /\ values' = values
    BY <1>2 DEF keyVars, scopeVars
  <2>6. 0 < MaxValues
    BY ScanAssumption
  <2>7. ScanInv'
    BY <1>2, <2>3, <2>4, <2>5, <2>6 DEF RegistryInv, ScanInv
  <2>8. Len(<<>>) = 0 /\ Range(<<>>) = {values[k] : k \in 1 .. 0}
    BY NoScanIsScan
  <2>9. SnapshotInv'
    BY <2>1, <2>3, <2>5, <2>8 DEF SnapshotInv
  <2>10. Range(scan'.records) \subseteq seen
    BY <2>3, NoScanIsScan
  <2> QED
    BY <1>1, <1>2, <2>7, <2>9, <2>10, ScanStep
<1>3. CASE KeyDeleted
  BY <1>1, <1>3, KeyDeletedStep
<1>4. CASE Refused
  BY <1>1, <1>4, RefusedStep
<1> QED
  BY <1>2, <1>3, <1>4 DEF QueryBefore

LEMMA ProbeStep == ASSUME RegistryInv, Probe PROVE pc # "done" /\ Goes
<1>1. pc = "probe"
  BY DEF Probe
<1>2. CASE Skip
  BY <1>1, <1>2, SkipStep
<1>3. CASE InRange /\ Keep(Current)
  BY <1>1, <1>3, KeepStep
<1>4. CASE /\ InRange /\ DataBytes[Current.datum] \in 1 .. MaxValueBytes /\ pc' = "read"
           /\ call' = [tries |-> 0, units |-> call.units, bytes |-> DataBytes[Current.datum],
                       name |-> Current.name, type |-> TypeOf[Current.datum]]
           /\ UNCHANGED <<scan, keyVars, scopeVars>>
  <2>1. Current \in Records
    BY <1>1, <1>4, CurrentValue
  <2>2. Current.name \in Names /\ Current.datum \in Data /\ None \notin Names
    BY <2>1, RecordFields, ScanAssumption
  <2>3. TypeOf[Current.datum] \in TypeIds
    BY <2>2 DEF TypeIds
  <2>4. call.units \in 0 .. MaxNameUnits + 1 /\ 0 \in 0 .. MaxGrowth - 1
    BY ScanAssumption DEF RegistryInv, ScanInv, Calls
  <2>5. DataBytes[Current.datum] \in 0 .. MaxValueBytes
    BY <1>4, ScanAssumption
  <2>6. call' \in Calls /\ call'.name # None
    BY <1>4, <2>2, <2>3, <2>4, <2>5 DEF Calls
  <2>7. scan' = scan /\ live' = live /\ last' = last /\ values' = values
    BY <1>4 DEF keyVars, scopeVars
  <2>8. ScanInv'
    BY <1>1, <1>4, <2>6, <2>7 DEF RegistryInv, ScanInv
  <2>9. SnapshotInv'
    BY <1>1, <1>4, <2>7 DEF RegistryInv, SnapshotInv
  <2>10. Range(scan'.records) \subseteq seen
    BY <2>7 DEF RegistryInv, SeenInv
  <2> QED
    BY <1>1, <1>4, <2>8, <2>9, <2>10, ScanStep
<1>5. CASE Retry(GrowName(call.units), 0)
  <2>1. 0 \in 0 .. MaxValueBytes
    BY ScanAssumption
  <2> QED
    BY <1>1, <1>5, <2>1, GrownName, RetryStep
<1>6. CASE /\ pc' = "requery" /\ call' = NoCall
           /\ UNCHANGED <<scan, keyVars, scopeVars>>
  <2>1. scan' = scan /\ live' = live /\ last' = last /\ values' = values
    BY <1>6 DEF keyVars, scopeVars
  <2>2. ScanInv'
    BY <1>6, <2>1, NoCallIsCall DEF RegistryInv, ScanInv
  <2>3. SnapshotInv'
    BY <1>1, <1>6, <2>1 DEF RegistryInv, SnapshotInv
  <2>4. Range(scan'.records) \subseteq seen
    BY <2>1 DEF RegistryInv, SeenInv
  <2> QED
    BY <1>1, <1>6, <2>2, <2>3, <2>4, ScanStep
<1>7. CASE Unstable
  BY <1>1, <1>7, UnstableStep
<1> QED
  BY <1>2, <1>3, <1>4, <1>5, <1>6, <1>7 DEF Probe

LEMMA ReadStep == ASSUME RegistryInv, Read PROVE pc # "done" /\ Goes
<1>1. pc = "read"
  BY DEF Read
<1>2. CASE InRange /\ Expected /\ Keep([name |-> call.name, datum |-> Current.datum])
  <2>1. Current \in Records
    BY <1>1, <1>2, CurrentValue
  <2>2. Current = [name |-> call.name, datum |-> Current.datum]
    BY <1>2, <2>1 DEF Expected, Records
  <2> QED
    BY <1>1, <1>2, <2>2, KeepStep
<1>3. CASE Skip
  BY <1>1, <1>3, SkipStep
<1>4. ASSUME NEW grown,
             InRange, grown = Larger(Larger(DataBytes[Current.datum], 2 * call.bytes), 1),
             grown <= MaxValueBytes, Retry(GrowName(call.units), grown)
      PROVE  Goes
  <2>1. DataBytes[Current.datum] \in Nat
    BY <1>1, <1>4, CurrentValue, RecordFields
  <2>2. call.bytes \in Nat /\ MaxValueBytes \in Nat
    BY ScanAssumption DEF RegistryInv, ScanInv, Calls
  <2>3. grown \in 0 .. MaxValueBytes
    BY <1>4, <2>1, <2>2 DEF Larger
  <2> QED
    BY <1>1, <1>4, <2>3, GrownName, RetryStep
<1>5. CASE Unstable
  BY <1>1, <1>5, UnstableStep
<1> QED
  BY <1>1, <1>2, <1>3, <1>4, <1>5 DEF Read

\* What a stable attempt has read, with nothing skipped, is what the key holds.
LEMMA StableIsSnapshot ==
  ASSUME RegistryInv, pc = "requery", live, Stable, ~Incomplete
  PROVE  Range(scan.records) = Range(values) /\ Len(scan.records) = Len(values)
<1>1. scan.index = Len(values) /\ ~scan.changed /\ ~scan.flawed
  BY DEF Stable, Incomplete
<1>2. /\ Len(scan.records) = scan.index
      /\ Range(scan.records) = {values[k] : k \in 1 .. scan.index}
  BY <1>1 DEF RegistryInv, SnapshotInv
<1>3. values \in Seq(Records)
  BY ContentsElements DEF RegistryInv, KeyInv
<1>4. Range(values) = {values[k] : k \in 1 .. Len(values)}
  BY <1>3 DEF Range
<1> QED
  BY <1>1, <1>2, <1>4

LEMMA QueryAfterStep == ASSUME RegistryInv, QueryAfter PROVE pc # "done" /\ Goes
<1>1. pc = "requery"
  BY DEF QueryAfter
<1>2. CASE live /\ Stable /\ EndScope(Collection(scan.records, Incomplete, remaining))
  <2>1. /\ scan.records \in Seq(Records) /\ Range(scan.records) \subseteq seen
        /\ scan.flawed \in BOOLEAN
    BY DEF RegistryInv, ScanInv, SeenInv, Scans
  <2>2. Incomplete \in BOOLEAN
    BY <2>1 DEF Incomplete, Exhausted
  <2>3. ~Incomplete => /\ Range(scan.records) = Range(values)
                       /\ Len(scan.records) = Len(values)
    BY <1>1, <1>2, StableIsSnapshot
  <2>4. Ends(Collection(scan.records, Incomplete, remaining))
    BY <2>1, <2>2, <2>3, CollectionEnds
  <2> QED
    BY <1>1, <1>2, <2>4 DEF Goes
<1>3. CASE Unstable
  BY <1>1, <1>3, UnstableStep
<1> QED
  BY <1>1, <1>2, <1>3 DEF QueryAfter

LEMMA CollectorStep == RegistryInv /\ Collector => pc # "done" /\ Goes
BY OpenStep, QueryBeforeStep, ProbeStep, ReadStep, QueryAfterStep DEF Collector

-----------------------------------------------------------------------------
(***************************************************************************)
(* The invariant holds                                                     *)
(***************************************************************************)

LEMMA RegistryStutter == RegistryInv /\ UNCHANGED vars => RegistryInv'
<1> SUFFICES ASSUME RegistryInv, UNCHANGED vars PROVE RegistryInv'
  OBVIOUS
<1>1. KeyInv' /\ ScanInv' /\ SeenInv' /\ SnapshotInv'
  BY DEF vars, RegistryInv, KeyInv, ScanInv, SeenInv, SnapshotInv
<1>2. ResultInv' /\ BudgetInv'
  BY DEF vars, RegistryInv, ResultInv, BudgetInv
<1> QED
  BY <1>1, <1>2 DEF RegistryInv

LEMMA RegistryNext == RegistryInv /\ [Next]_vars => RegistryInv'
<1> SUFFICES ASSUME RegistryInv, [Next]_vars PROVE RegistryInv'
  OBVIOUS
<1>1. CASE Environment
  BY <1>1, EnvironmentStep DEF KeyMoves
<1>2. CASE Collector
  <2>1. pc # "done" /\ Goes
    BY <1>2, CollectorStep
  <2> QED
    BY <2>1, EndScopeStep DEF Goes
<1>3. CASE UNCHANGED vars
  BY <1>3, RegistryStutter
<1> QED
  BY <1>1, <1>2, <1>3 DEF Next

LEMMA RegistryInvariant == Spec => []RegistryInv
<1> QED
  BY RegistryInitially, RegistryNext, PTL DEF Spec

\* Every variable stays within its type, whatever the writes and the calls do.
THEOREM RegistryTyped == Spec => []TypeOK
BY RegistryInvariant, InvImpliesTypes, PTL

\* MAX_REGISTRY_COLLECTOR_EVIDENCE_BYTES bounds the evidence of all scopes
\* together: what a scope uses is taken from what the next ones may use.
THEOREM EvidenceWithinBudget == Spec => []BudgetRespected
<1>1. RegistryInv => BudgetRespected
  <2> SUFFICES ASSUME RegistryInv PROVE BudgetRespected
    OBVIOUS
  <2> DEFINE w == [s \in 1 .. Scopes |-> Total(result[s].found)]
  <2>1. \A s \in 1 .. Scopes : Total(result[s].found) \in Nat
    <3> SUFFICES ASSUME NEW s \in 1 .. Scopes PROVE Total(result[s].found) \in Nat
      OBVIOUS
    <3>1. result[s].found \in Seq(Records)
      BY DEF RegistryInv, ResultInv, Results
    <3> QED
      BY <3>1, TotalIsNat
  <2>2. w \in [1 .. Scopes -> Nat] /\ Scopes \in Nat /\ Budget \in Nat
    BY <2>1, ScanAssumption
  <2>3. remaining \in 0 .. Budget /\ SumOf(w) + remaining = Budget
    BY DEF RegistryInv, BudgetInv
  <2> HIDE DEF w
  <2>4. SumOf(w) <= Budget
    BY <2>2, <2>3, SumIsNat
  <2> QED
    BY <2>4 DEF BudgetRespected, w
<1> QED
  BY <1>1, RegistryInvariant, PTL

-----------------------------------------------------------------------------
(***************************************************************************)
(* A scope that ends                                                       *)
(***************************************************************************)

LEMMA ElementsAre == \A rs : ToSet(rs) = Range(rs)
BY DEF ToSet, Range

\* How a scope ends, seen from its result.
LEMMA ScopeEnds ==
  ASSUME RegistryInv, pc # "done", NEW outcome, Ends(outcome), EndScope(outcome)
  PROVE  /\ scope \in 1 .. Scopes /\ result[scope] = Pending
         /\ result'[scope] = outcome
         /\ \A s \in 1 .. Scopes : s # scope => result'[s] = result[s]
<1>1. result' = [result EXCEPT ![scope] = outcome]
  BY DEF EndScope
<1>2. scope \in 1 .. Scopes
  BY ScanAssumption DEF RegistryInv, ResultInv
<1>3. result \in [1 .. Scopes -> Results] /\ result[scope] = Pending
  BY <1>2 DEF RegistryInv, ResultInv
<1> QED
  BY <1>1, <1>2, <1>3

\* A scope reported complete was read as it stood: the second query of the key
\* confirms the first, every index was read in between, and neither the limits
\* nor the changes of other programs hide a value or repeat one.
THEOREM CompleteIsASnapshot == Spec => CompleteIsSnapshot
<1> DEFINE Whole(s) ==
             result[s].status = "pending" /\ result'[s].status = "complete" =>
                /\ ToSet(result'[s].found) = ToSet(values)
                /\ Len(result'[s].found) = Len(values)
<1>1. RegistryInv /\ [Next]_vars => [\A s \in 1 .. Scopes : Whole(s)]_vars
  <2> SUFFICES ASSUME RegistryInv, Next, NEW s \in 1 .. Scopes PROVE Whole(s)
    OBVIOUS
  <2>1. CASE result' = result
    BY <2>1
  <2>2. ASSUME pc # "done", NEW outcome, Ends(outcome), EndScope(outcome)
        PROVE  Whole(s)
    <3>1. /\ scope \in 1 .. Scopes /\ result[scope] = Pending
          /\ result'[scope] = outcome
          /\ \A t \in 1 .. Scopes : t # scope => result'[t] = result[t]
      BY <2>2, ScopeEnds
    <3>2. CASE s # scope
      BY <3>1, <3>2
    <3>3. CASE s = scope
      BY <2>2, <3>1, <3>3, ElementsAre DEF Ends
    <3> QED
      BY <3>2, <3>3
  <2>3. CASE Environment
    BY <2>1, <2>3, EnvironmentStep DEF KeyMoves
  <2>4. CASE Collector
    <3>1. pc # "done" /\ Goes
      BY <2>4, CollectorStep
    <3> QED
      BY <2>1, <2>2, <3>1 DEF Goes
  <2> QED
    BY <2>3, <2>4 DEF Next
<1> QED
  BY <1>1, RegistryInvariant, PTL DEF Spec, CompleteIsSnapshot

-----------------------------------------------------------------------------
(***************************************************************************)
(* The scan implements ScopeCapture                                        *)
(***************************************************************************)

LEMMA DistinctIsFunctional ==
  ASSUME NEW rs \in Seq(Records), DistinctNames(rs)
  PROVE  Promise!Functional(ToSet(rs))
BY DEF DistinctNames, Promise!Functional, ToSet

LEMMA ContentsMap ==
  ASSUME NEW rs \in Contents
  PROVE  ToSet(rs) \in Promise!Contents
<1>1. rs \in Seq(Records) /\ DistinctNames(rs) /\ ToSet(rs) \subseteq Records
  BY ContentsAre, ContentsElements, ElementsAre
<1> QED
  BY <1>1, DistinctIsFunctional DEF Promise!Contents, Promise!Records, Records

LEMMA InitMaps == Init => Promise!CaptureInit
<1> SUFFICES ASSUME Init PROVE Promise!CaptureInit
  OBVIOUS
<1>1. values \in Contents
  BY EmptyContents DEF Init
<1>2. ToSet(values) \in Promise!Contents /\ seen = ToSet(values)
  BY <1>1, ContentsMap, ElementsAre DEF Init
<1>3. \A s \in 1 .. Scopes : result[s] = Pending
  BY DEF Init
<1>4. ToSet(<<>>) = {}
  BY ElementsAre, NoScanIsScan
<1>5. [s \in 1 .. Scopes |-> [status |-> result[s].status, found |-> ToSet(result[s].found)]]
        = [s \in 1 .. Scopes |-> Promise!Outcome("pending", {})]
  <2>1. \A s \in 1 .. Scopes : result[s].status = "pending" /\ ToSet(result[s].found) = {}
    BY <1>3, <1>4 DEF Pending, Outcome
  <2> QED
    BY <2>1 DEF Promise!Outcome
<1> QED
  BY <1>2, <1>5 DEF Init, Promise!CaptureInit

LEMMA KeyMovesMaps == RegistryInv /\ KeyMoves => Promise!Change
<1> SUFFICES ASSUME RegistryInv, KeyMoves PROVE Promise!Change
  OBVIOUS
<1>1. scope <= Scopes
  BY ScanAssumption DEF RegistryInv, ResultInv, KeyMoves
<1>2. ToSet(values') \in Promise!Contents /\ seen' = seen \union ToSet(values')
  BY ContentsMap, ElementsAre DEF KeyMoves
<1>3. scope' = scope /\ result' = result
  BY DEF KeyMoves
<1> QED
  BY <1>1, <1>2, <1>3 DEF Promise!Change

LEMMA OutcomeMaps ==
  ASSUME RegistryInv, NEW outcome, Ends(outcome)
  PROVE  [status |-> outcome.status, found |-> ToSet(outcome.found)]
            \in Promise!Outcomes(ToSet(values), seen)
<1>1. outcome.found \in Seq(Records) /\ DistinctNames(outcome.found)
  BY DEF Ends, Results
<1>2. Promise!Functional(ToSet(outcome.found))
  BY <1>1, DistinctIsFunctional
<1>3. CASE outcome.status = "complete" /\ Range(outcome.found) = Range(values)
  BY <1>3, ElementsAre DEF Promise!Outcomes, Promise!Outcome
<1>4. CASE outcome.status = "partial" /\ Range(outcome.found) \subseteq seen
  <2>1. ToSet(outcome.found) \in {x \in SUBSET seen : Promise!Functional(x)}
    BY <1>2, <1>4, ElementsAre
  <2> QED
    BY <1>4, <2>1 DEF Promise!Outcomes, Promise!Outcome
<1>5. CASE outcome.status \in {"permission_denied", "failed"} /\ outcome.found = <<>>
  <2>1. ToSet(outcome.found) = {}
    BY <1>5, ElementsAre, NoScanIsScan
  <2> QED
    BY <1>5, <2>1 DEF Promise!Outcomes, Promise!Outcome
<1> QED
  BY <1>3, <1>4, <1>5 DEF Ends

LEMMA EndScopeMaps ==
  ASSUME RegistryInv, pc # "done", NEW outcome, Ends(outcome), EndScope(outcome)
  PROVE  Promise!EndScope
<1> DEFINE Seen(r) == [status |-> r.status, found |-> ToSet(r.found)]
           abstract == Seen(outcome)
<1>1. /\ scope \in 1 .. Scopes /\ result'[scope] = outcome
      /\ \A s \in 1 .. Scopes : s # scope => result'[s] = result[s]
  BY ScopeEnds
<1>2. scope <= Scopes /\ scope' = scope + 1
  BY <1>1 DEF EndScope
<1>3. abstract \in Promise!Outcomes(ToSet(values), seen)
  BY OutcomeMaps
<1>4. [s \in 1 .. Scopes |-> Seen(result'[s])]
        = [[s \in 1 .. Scopes |-> Seen(result[s])] EXCEPT ![scope] = abstract]
  BY <1>1
<1>5. /\ \/ scope < Scopes /\ values' \in Contents
         \/ scope = Scopes /\ values' = <<>>
      /\ seen' = Range(values')
  BY EmptyContents DEF EndScope
<1>6. ToSet(values') \in IF scope < Scopes THEN Promise!Contents ELSE {{}}
  <2>1. CASE scope < Scopes /\ values' \in Contents
    BY <2>1, ContentsMap
  <2>2. CASE scope = Scopes /\ values' = <<>>
    BY <2>2, ElementsAre, NoScanIsScan, ScanAssumption
  <2> QED
    BY <1>5, <2>1, <2>2
<1>7. seen' = ToSet(values')
  BY <1>5, ElementsAre
<1> HIDE DEF abstract
<1> QED
  BY <1>2, <1>3, <1>4, <1>6, <1>7 DEF Promise!EndScope

\* However the native calls and the writes of other programs interleave, each
\* scope ends as if it had been captured in one step.
THEOREM CaptureImplemented == Spec => ImplementsCapture
<1>1. RegistryInv /\ [Next]_vars => [Promise!CaptureNext]_(Promise!captureVars)
  <2> SUFFICES ASSUME RegistryInv, [Next]_vars
               PROVE  Promise!CaptureNext \/ UNCHANGED Promise!captureVars
    OBVIOUS
  <2>1. CASE UNCHANGED <<values, seen, scope, result>>
    BY <2>1 DEF Promise!captureVars
  <2>2. CASE Environment
    BY <2>2, EnvironmentStep, KeyMovesMaps DEF Promise!CaptureNext
  <2>3. CASE Collector
    <3>1. pc # "done" /\ Goes
      BY <2>3, CollectorStep
    <3>2. CASE \E outcome : Ends(outcome) /\ EndScope(outcome)
      BY <3>1, <3>2, EndScopeMaps DEF Promise!CaptureNext
    <3> QED
      BY <2>1, <3>1, <3>2 DEF Goes
  <2>4. CASE UNCHANGED vars
    BY <2>1, <2>4 DEF vars
  <2> QED
    BY <2>2, <2>3, <2>4 DEF Next
<1> QED
  BY <1>1, InitMaps, RegistryInvariant, PTL DEF Spec, ImplementsCapture, Promise!CaptureSpec

-----------------------------------------------------------------------------
(***************************************************************************)
(* The document                                                            *)
(***************************************************************************)

LEMMA AggregateIs ==
  ASSUME NEW T
  PROVE  \/ T \subseteq {"complete"} /\ Aggregate(T) = "complete"
         \/ \E st \in Statuses \ Readable : T = {st} /\ Aggregate(T) = st
         \/ /\ ~(T \subseteq {"complete"}) /\ \A st \in Statuses \ Readable : T # {st}
            /\ Aggregate(T) = "partial"
<1>1. CASE T \subseteq {"complete"}
  <2>1. \A st \in Statuses \ Readable : T # {st}
    BY <1>1 DEF Statuses, Readable
  <2> QED
    BY <1>1, <2>1 DEF Aggregate
<1>2. CASE \E st \in Statuses \ Readable : T = {st}
  <2>1. PICK st \in Statuses \ Readable : T = {st}
    BY <1>2
  <2>2. ~(T \subseteq {"complete"})
    BY <2>1 DEF Statuses, Readable
  <2>3. Aggregate(T) = CHOOSE x \in T : TRUE
    BY <1>2, <2>2 DEF Aggregate
  <2>4. (CHOOSE x \in T : TRUE) = st
    BY <2>1
  <2> QED
    BY <2>1, <2>3, <2>4
<1>3. CASE ~(T \subseteq {"complete"}) /\ ~(\E st \in Statuses \ Readable : T = {st})
  BY <1>3 DEF Aggregate
<1> QED
  BY <1>1, <1>2, <1>3

\* The entry of the layout comes first, if there is one.
Offset == IF layout = "known" THEN 0 ELSE 1

LEMMA CoverageIs ==
  ASSUME RegistryInv
  PROVE  LET cov == Coverage(layout, result)
         IN  /\ Len(cov) = Scopes + Offset /\ DOMAIN cov = 1 .. Scopes + Offset
             /\ \A k \in 1 .. Scopes + Offset : cov[k].scope = k - Offset
             /\ \A s \in 1 .. Scopes : cov[s + Offset].status = result[s].status
<1> DEFINE p == Precomputed(layout)
           q == [s \in DOMAIN result |-> [scope |-> s, status |-> result[s].status]]
           cov == Coverage(layout, result)
           E == [scope : Nat, status : {layout} \union {result[s].status : s \in 1 .. Scopes}]
<1>1. DOMAIN result = 1 .. Scopes /\ Scopes \in Nat
  BY ScanAssumption DEF RegistryInv, ResultInv
<1>2. /\ p \in Seq(E) /\ Len(p) = Offset /\ Offset \in {0, 1}
      /\ \A k \in 1 .. Offset : k = 1 /\ p[k].scope = 0
  <2>1. CASE layout = "known"
    <3>1. p = <<>> /\ Offset = 0
      BY <2>1 DEF Precomputed, Offset
    <3> QED
      BY <3>1
  <2>2. CASE layout # "known"
    <3>1. p = <<[scope |-> 0, status |-> layout]>> /\ Offset = 1
      BY <2>2 DEF Precomputed, Offset
    <3>2. [scope |-> 0, status |-> layout] \in E
      OBVIOUS
    <3> HIDE DEF E
    <3>3. \A k \in 1 .. 1 : k = 1
      OBVIOUS
    <3> QED
      BY <3>1, <3>2, <3>3
  <2> QED
    BY <2>1, <2>2
<1>3. /\ q \in Seq(E) /\ Len(q) = Scopes
      /\ \A s \in 1 .. Scopes : q[s].scope = s /\ q[s].status = result[s].status
  <2>1. \A s \in 1 .. Scopes : [scope |-> s, status |-> result[s].status] \in E
    BY <1>1
  <2> HIDE DEF E
  <2>2. q \in [1 .. Scopes -> E]
    BY <1>1, <2>1
  <2>3. q \in Seq(E) /\ Len(q) = Scopes
    <3> HIDE DEF q
    <3> QED
      BY <1>1, <2>2
  <2> QED
    BY <1>1, <2>3
<1>4. cov = p \o q
  BY DEF Coverage
<1> HIDE DEF p, q, cov, E
<1>5. /\ cov \in Seq(E) /\ Len(cov) = Offset + Scopes
      /\ \A k \in 1 .. Offset + Scopes : cov[k] = IF k <= Offset THEN p[k] ELSE q[k - Offset]
  <2>1. /\ p \o q \in Seq(E) /\ Len(p \o q) = Len(p) + Len(q)
        /\ \A k \in 1 .. Len(p) + Len(q) :
              (p \o q)[k] = IF k <= Len(p) THEN p[k] ELSE q[k - Len(p)]
    BY <1>2, <1>3, ConcatProperties
  <2> QED
    BY <1>2, <1>3, <1>4, <2>1
<1>6. Len(cov) = Scopes + Offset /\ DOMAIN cov = 1 .. Scopes + Offset
  BY <1>1, <1>2, <1>5
<1>7. \A k \in 1 .. Scopes + Offset : cov[k].scope = k - Offset
  <2> SUFFICES ASSUME NEW k \in 1 .. Scopes + Offset PROVE cov[k].scope = k - Offset
    OBVIOUS
  <2>1. CASE k <= Offset
    BY <1>1, <1>2, <1>5, <2>1
  <2>2. CASE k > Offset
    <3>1. k - Offset \in 1 .. Scopes /\ k \in 1 .. Offset + Scopes /\ ~(k <= Offset)
      BY <1>1, <1>2, <2>2
    <3> QED
      BY <1>3, <1>5, <3>1
  <2> QED
    BY <1>1, <1>2, <2>1, <2>2
<1>8. \A s \in 1 .. Scopes : cov[s + Offset].status = result[s].status
  <2> SUFFICES ASSUME NEW s \in 1 .. Scopes PROVE cov[s + Offset].status = result[s].status
    OBVIOUS
  <2>1. s + Offset \in 1 .. Offset + Scopes /\ ~(s + Offset <= Offset) /\ (s + Offset) - Offset = s
    BY <1>1, <1>2
  <2> QED
    BY <1>3, <1>5, <2>1
<1> QED
  BY <1>6, <1>7, <1>8 DEF cov

\* The status of the run follows from those of its scopes.
LEMMA RunConsistent ==
  ASSUME NEW run, run.status = Aggregate({c.status : c \in Range(run.coverage)}),
         run.coverage # <<>>, DOMAIN run.coverage # {}
  PROVE  StatusConsistent(run)
<1> DEFINE T == {c.status : c \in Range(run.coverage)}
           D == DOMAIN run.coverage
           done == {k \in D : run.coverage[k].status = "complete"}
<1>1. \A k \in D : run.coverage[k].status \in T
  BY DEF Range
<1>2. \A st \in T : \E k \in D : run.coverage[k].status = st
  BY DEF Range
<1> HIDE DEF T
<1>3. CASE T \subseteq {"complete"} /\ run.status = "complete"
  <2>1. done = D
    BY <1>1, <1>3
  <2> QED
    BY <1>3, <2>1 DEF StatusConsistent, Readable
<1>4. CASE \E st \in Statuses \ Readable : T = {st} /\ run.status = st
  <2>1. PICK st \in Statuses \ Readable : T = {st} /\ run.status = st
    BY <1>4
  <2>2. done = {}
    BY <1>1, <2>1 DEF Readable
  <2> QED
    BY <2>1, <2>2 DEF StatusConsistent, Readable
<1>5. CASE ~(T \subseteq {"complete"}) /\ run.status = "partial"
  <2>1. done # D
    BY <1>2, <1>5
  <2> QED
    BY <1>5, <2>1 DEF StatusConsistent, Readable
<1> QED
  BY <1>3, <1>4, <1>5, AggregateIs DEF T

\* Every observation is a record of some scope, of which there is one.
Lists == [s \in DOMAIN result |->
            [k \in DOMAIN result[s].found |-> Observed(s, result[s].found[k])]]

LEMMA ObservationsAre ==
  ASSUME RegistryInv
  PROVE  LET obs == FlattenSeq(Lists)
         IN  /\ \A o \in Range(obs) : \E s \in 1 .. Scopes : \E k \in DOMAIN result[s].found :
                    o = Observed(s, result[s].found[k])
             /\ \A a, b \in DOMAIN obs : a # b =>
                    \E s, t \in 1 .. Scopes :
                        \E k \in DOMAIN result[s].found, l \in DOMAIN result[t].found :
                            /\ obs[a] = Observed(s, result[s].found[k])
                            /\ obs[b] = Observed(t, result[t].found[l])
                            /\ s # t \/ k # l
<1> DEFINE X == {Observed(s, r) : s \in 1 .. Scopes, r \in Records}
           obs == FlattenSeq(Lists)
<1>1. Scopes \in Nat /\ DOMAIN result = 1 .. Scopes
  BY ScanAssumption DEF RegistryInv, ResultInv
<1>2. \A s \in 1 .. Scopes : result[s].found \in Seq(Records)
  BY DEF RegistryInv, ResultInv, Results
<1>3. ASSUME NEW s \in 1 .. Scopes
      PROVE  /\ Lists[s] \in Seq(X) /\ DOMAIN Lists[s] = DOMAIN result[s].found
             /\ \A k \in DOMAIN result[s].found :
                    Lists[s][k] = Observed(s, result[s].found[k])
  <2> DEFINE n == Len(result[s].found)
             list == [k \in 1 .. n |-> Observed(s, result[s].found[k])]
  <2>1. /\ DOMAIN result[s].found = 1 .. n /\ n \in Nat
        /\ \A k \in 1 .. n : result[s].found[k] \in Records
    BY <1>2, SeqElements, LenProperties
  <2>2. Lists[s] = list
    BY <1>1, <2>1 DEF Lists
  <2>3. \A k \in 1 .. n : Observed(s, result[s].found[k]) \in X
    BY <2>1
  <2> HIDE DEF X, n
  <2>4. list \in [1 .. n -> X]
    BY <2>3
  <2>5. list \in Seq(X)
    BY <2>1, <2>4
  <2> QED
    BY <2>1, <2>2, <2>5
<1>4. Lists \in [1 .. Scopes -> Seq(X)]
  <2> HIDE DEF X
  <2>1. Lists = [s \in 1 .. Scopes |-> Lists[s]]
    BY <1>1 DEF Lists
  <2> QED
    BY <1>3, <2>1
<1> HIDE DEF X
<1>5. /\ obs \in Seq(X)
      /\ \A x : x \in Range(obs) <=> \E s \in 1 .. Scopes : x \in Range(Lists[s])
  BY <1>1, <1>4, FlattenElements
<1>6. \A a, b \in DOMAIN obs : a # b =>
          \E i, j \in 1 .. Scopes : \E k \in DOMAIN Lists[i], l \in DOMAIN Lists[j] :
              /\ obs[a] = Lists[i][k] /\ obs[b] = Lists[j][l]
              /\ i # j \/ k # l
  <2>1. Apart(obs, Lists, Scopes)
    BY <1>1, <1>4, FlattenApart
  <2> HIDE DEF obs
  <2> QED
    BY <2>1 DEF Apart
<1> HIDE DEF obs
<1>7. \A o \in Range(obs) : \E s \in 1 .. Scopes : \E k \in DOMAIN result[s].found :
          o = Observed(s, result[s].found[k])
  <2> SUFFICES ASSUME NEW o \in Range(obs)
               PROVE  \E s \in 1 .. Scopes : \E k \in DOMAIN result[s].found :
                          o = Observed(s, result[s].found[k])
    OBVIOUS
  <2>1. PICK s \in 1 .. Scopes : o \in Range(Lists[s])
    BY <1>5
  <2>2. PICK k \in DOMAIN Lists[s] : o = Lists[s][k]
    BY <2>1 DEF Range
  <2> QED
    BY <1>3, <2>2
<1>8. ASSUME NEW a \in DOMAIN obs, NEW b \in DOMAIN obs, a # b
      PROVE  \E s, t \in 1 .. Scopes :
                \E k \in DOMAIN result[s].found, l \in DOMAIN result[t].found :
                    /\ obs[a] = Observed(s, result[s].found[k])
                    /\ obs[b] = Observed(t, result[t].found[l])
                    /\ s # t \/ k # l
  <2>1. PICK s \in 1 .. Scopes, t \in 1 .. Scopes :
            \E k \in DOMAIN Lists[s], l \in DOMAIN Lists[t] :
                /\ obs[a] = Lists[s][k] /\ obs[b] = Lists[t][l]
                /\ s # t \/ k # l
    BY <1>6, <1>8
  <2>2. PICK k \in DOMAIN Lists[s], l \in DOMAIN Lists[t] :
            /\ obs[a] = Lists[s][k] /\ obs[b] = Lists[t][l]
            /\ s # t \/ k # l
    BY <2>1
  <2>3. k \in DOMAIN result[s].found /\ l \in DOMAIN result[t].found
    BY <1>3, <2>2
  <2>4. Lists[s][k] = Observed(s, result[s].found[k]) /\ Lists[t][l] = Observed(t, result[t].found[l])
    BY <1>3, <2>3
  <2> QED
    BY <2>2, <2>3, <2>4
<1> QED
  BY <1>7, <1>8 DEF obs

\* Whatever happened to the keys, and wherever the limits cut, the run and its
\* observations are a document that Snapshot::validate accepts.
THEOREM RegistryDocumentValid == Spec => []DocumentValid
<1>1. RegistryInv => DocumentValid
  <2> SUFFICES ASSUME RegistryInv, pc = "done" PROVE Validates(Document(layout, result))
    BY DEF DocumentValid
  <2> DEFINE cov == Coverage(layout, result)
             run == [id |-> "registry", version |-> 1, coverage |-> cov,
                     status |-> Aggregate({c.status : c \in Range(cov)}),
                     diagnosed |-> {c.scope : c \in {x \in Range(cov) : x.status # "complete"}}]
             obs == FlattenSeq(Lists)
             doc == Document(layout, result)
  <2>1. doc = [enabled |-> <<"registry">>, runs |-> <<run>>, observations |-> obs]
    BY DEF Document, Lists
  <2>2. /\ Scopes \in Nat \ {0} /\ Offset \in {0, 1}
        /\ \A s \in 1 .. Scopes : Ended(result[s])
    BY ScanAssumption DEF RegistryInv, ResultInv, Offset
  <2>3. /\ Len(cov) = Scopes + Offset /\ DOMAIN cov = 1 .. Scopes + Offset
        /\ \A k \in 1 .. Scopes + Offset : cov[k].scope = k - Offset
        /\ \A s \in 1 .. Scopes : cov[s + Offset].status = result[s].status
    BY CoverageIs
  <2>4. /\ run.id = "registry" /\ run.version = 1 /\ run.coverage = cov
        /\ run.status = Aggregate({c.status : c \in Range(cov)})
        /\ run.diagnosed = {c.scope : c \in {x \in Range(cov) : x.status # "complete"}}
    OBVIOUS
  <2> HIDE DEF doc, run, cov, obs
  <2>5. /\ doc.enabled = <<"registry">> /\ doc.runs = <<run>> /\ doc.observations = obs
        /\ Range(doc.enabled) = {"registry"} /\ Range(doc.runs) = {run}
    <3>1. doc.enabled = <<"registry">> /\ doc.runs = <<run>> /\ doc.observations = obs
      BY <2>1
    <3>2. \A x : Range(<<x>>) = {x}
      BY DEF Range
    <3> QED
      BY <3>1, <3>2
  <2>6. NoRepeats(doc.enabled, LAMBDA id : id) /\ NoRepeats(doc.runs, LAMBDA r : r.id)
    BY <2>5 DEF NoRepeats, IsInjective
  <2>7. cov # <<>> /\ DOMAIN cov # {}
    <3>1. 1 \in 1 .. Scopes + Offset
      BY <2>2
    <3> QED
      BY <2>3, <3>1
  <2>8. RunValid(doc, run)
    <3>1. StatusConsistent(run)
      BY <2>4, <2>7, RunConsistent
    <3>2. ScopesDistinct(run)
      <4>1. \A i, j \in 1 .. Scopes + Offset : cov[i].scope = cov[j].scope => i = j
        BY <2>2, <2>3
      <4> QED
        BY <2>3, <2>4, <4>1 DEF ScopesDistinct, NoRepeats, IsInjective
    <3> QED
      BY <2>4, <2>5, <2>7, <3>1, <3>2 DEF RunValid
  <2>9. \A o \in Range(obs) : ObservationValid(doc, o)
    <3> SUFFICES ASSUME NEW o \in Range(obs) PROVE ObservationValid(doc, o)
      OBVIOUS
    <3>0. PICK s \in 1 .. Scopes : \E k \in DOMAIN result[s].found :
              o = Observed(s, result[s].found[k])
      BY ObservationsAre DEF obs
    <3>1. PICK k \in DOMAIN result[s].found : o = Observed(s, result[s].found[k])
      BY <3>0
    <3>2. o.collector = "registry" /\ o.version = 1 /\ o.scope = s
      BY <3>1 DEF Observed
    <3>3. result[s].status \in Readable
      <4>1. result[s].found # <<>>
        BY <3>1
      <4> QED
        BY <2>2, <4>1 DEF Ended
    <3> DEFINE n == Scopes + Offset
               e == s + Offset
    <3>4. n \in Nat /\ e \in 1 .. n /\ e # 0
      BY <2>2
    <3>5. cov[e].status = result[s].status /\ cov[e] \in Range(cov)
      BY <2>3, <3>4 DEF Range
    <3>6. CoverageOf(run, o.scope) = e
      <4>1. {i \in 1 .. n : cov[i].scope = s} = {e}
        BY <2>2, <2>3
      <4> HIDE DEF n, e
      <4>2. Min({e}) = e
        BY <3>4, OnlyOne
      <4>3. Len(cov) = n
        BY <2>3 DEF n
      <4> QED
        BY <2>4, <3>2, <4>1, <4>2, <4>3 DEF CoverageOf, SelectInSeq
    <3>7. run.status \in Readable
      <4> DEFINE T == {c.status : c \in Range(cov)}
      <4>1. result[s].status \in T
        BY <3>5
      <4> HIDE DEF T
      <4>2. ~ \E st \in Statuses \ Readable : T = {st}
        BY <3>3, <4>1
      <4> QED
        BY <2>4, <4>2, AggregateIs DEF T, Readable
    <3> HIDE DEF e
    <3> QED
      BY <2>4, <2>5, <3>2, <3>3, <3>4, <3>5, <3>6, <3>7 DEF ObservationValid
  <2>10. NoRepeats(obs, KeyOf)
    <3>1. ASSUME NEW a \in DOMAIN obs, NEW b \in DOMAIN obs, a # b
          PROVE  KeyOf(obs[a]) # KeyOf(obs[b])
      <4>1. PICK s \in 1 .. Scopes, t \in 1 .. Scopes :
                \E k \in DOMAIN result[s].found, l \in DOMAIN result[t].found :
                    /\ obs[a] = Observed(s, result[s].found[k])
                    /\ obs[b] = Observed(t, result[t].found[l])
                    /\ s # t \/ k # l
        BY <3>1, ObservationsAre DEF obs
      <4>2. PICK k \in DOMAIN result[s].found, l \in DOMAIN result[t].found :
                    /\ obs[a] = Observed(s, result[s].found[k])
                    /\ obs[b] = Observed(t, result[t].found[l])
                    /\ s # t \/ k # l
        BY <4>1
      <4>3. KeyOf(obs[a]) = <<"registry", s, result[s].found[k].name>>
        BY <4>2 DEF Observed, KeyOf
      <4>4. KeyOf(obs[b]) = <<"registry", t, result[t].found[l].name>>
        BY <4>2 DEF Observed, KeyOf
      <4>5. s = t /\ result[s].found[k].name = result[s].found[l].name => k = l
        BY <2>2, <4>2 DEF Ended, DistinctNames
      <4> QED
        BY <4>2, <4>3, <4>4, <4>5
    <3> QED
      BY <3>1 DEF NoRepeats, IsInjective
  <2>11. Validates(doc)
    BY <2>4, <2>5, <2>6, <2>8, <2>9, <2>10 DEF Validates
  <2> QED
    BY <2>11 DEF doc
<1> QED
  BY <1>1, RegistryInvariant, PTL
=============================================================================
