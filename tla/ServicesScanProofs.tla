------------------------ MODULE ServicesScanProofs -------------------------
(***************************************************************************)
(* The services collector of ServicesScan, proved for every set of         *)
(* services and configurations and for all limits: the states are of the   *)
(* declared types and within the budget, the outcome is a valid Snapshot,  *)
(* no service is dropped silently, and a configuration that a service      *)
(* never had takes at least four changes while it is read.                 *)
(***************************************************************************)
EXTENDS ServicesScan, SequenceProofs

ServiceRecords == [name : Names, datum : Configs]

FoundNames == {o.name : o \in Range(found)}

\* Lists are lists.
Listed ==
    /\ names \in Seq(Names)
    /\ found \in Seq(ServiceRecords)
    /\ bundle \in Seq(UNION Range(Values))

\* What is still to be read is in order and apart from what was read.
ListInv ==
    /\ \A i, j \in DOMAIN names : i <= j => names[i] <= names[j]
    /\ pc \in {"list", "page"} => found = <<>> /\ diagnosed = {}
    /\ pc \in Reading => Occurrences(Head(names)) = 1
    /\ failed # "no" => pc = "done" /\ found = <<>>
    /\ pc = "done" => names = <<>>
    /\ failed = "no" /\ ~omitted => listed = Range(names) \union diagnosed \union FoundNames
    /\ FoundNames \intersect Range(names) = {}
    /\ \A i, j \in DOMAIN found : found[i].name = found[j].name => i = j

\* An open handle keeps the service, and each read begins with the first part.
ReadInv ==
    /\ pc \in {"probe", "query"} => config # None
    /\ pc \notin {"probe", "query"} => part = 1
    /\ pc \notin Reading => previous = None

ScanInv == TypeOK /\ Listed /\ ListInv /\ ReadInv

-----------------------------------------------------------------------------
(***************************************************************************)
(* Configurations, bytes and lists of names                                *)
(***************************************************************************)

LEMMA NamesAreNat == Names \subseteq Nat
BY ServicesAssumption

LEMMA ThreeParts == Len(Parts) = 3 /\ DOMAIN Parts = 1 .. 3 /\ DOMAIN Values = 1 .. 3
<1>1. Len(Parts) = 3 /\ DOMAIN Parts = 1 .. 3
  BY DEF Parts
<1> QED
  BY <1>1, ServicesAssumption

LEMMA ConfigParts ==
  ASSUME NEW c \in Configs, NEW p \in 1 .. 3
  PROVE  c[p] \in Values[p] /\ c[p] \in UNION Range(Values)
BY ThreeParts DEF Configs, Range

\* The parts of a read make a configuration.
LEMMA BundleIsConfig ==
  ASSUME NEW b \in Seq(UNION Range(Values)), Len(b) = 3,
         \A p \in 1 .. 3 : b[p] \in Values[p]
  PROVE  b \in Configs
<1> DEFINE X == UNION Range(Values)
<1>1. b \in [1 .. 3 -> X]
  <2>1. b \in Seq(X) /\ Len(b) = 3
    OBVIOUS
  <2> HIDE DEF X
  <2> QED
    BY <2>1, LenProperties
<1> QED
  BY <1>1, ThreeParts DEF Configs

LEMMA BytesAreNat ==
  ASSUME NEW n \in Names, NEW c \in Configs
  PROVE  Bytes(n, c) \in Nat
<1>1. \A p \in 1 .. 3 : \A v \in Values[p] : Size[v] \in Nat
  BY ThreeParts, ServicesAssumption
<1>2. Size[c[1]] \in Nat /\ Size[c[2]] \in Nat /\ Size[c[3]] \in Nat
  BY <1>1, ConfigParts
<1>3. NameSize[n] \in Nat
  BY ServicesAssumption
<1> QED
  BY <1>2, <1>3 DEF Bytes

LEMMA TotalGrows ==
  ASSUME NEW obs \in Seq(ServiceRecords), NEW r \in ServiceRecords
  PROVE  /\ Total(obs) \in Nat
         /\ Total(Append(obs, r)) = Total(obs) + Bytes(r.name, r.datum)
<1> DEFINE n == Len(obs)
           w == [k \in 1 .. n |-> Bytes(obs[k].name, obs[k].datum)]
           more == Append(obs, r)
           v == [k \in 1 .. n + 1 |-> Bytes(more[k].name, more[k].datum)]
<1>1. n \in Nat /\ DOMAIN obs = 1 .. n /\ DOMAIN more = 1 .. n + 1
  OBVIOUS
<1>2. Total(obs) = SumOf(w) /\ Total(more) = SumOf(v)
  BY <1>1 DEF Total
<1>3. \A k \in 1 .. n : more[k] = obs[k] /\ obs[k] \in ServiceRecords
  OBVIOUS
<1>4. more[n + 1] = r
  OBVIOUS
<1>5. \A o \in ServiceRecords : Bytes(o.name, o.datum) \in Nat
  BY BytesAreNat DEF ServiceRecords
<1> HIDE DEF n, more
<1>6. w \in [1 .. n -> Nat]
  BY <1>3, <1>5
<1>7. \A k \in 1 .. n + 1 : more[k] \in ServiceRecords
  <2>1. \A k \in 1 .. n + 1 : k \in 1 .. n \/ k = n + 1
    BY <1>1
  <2> QED
    BY <1>3, <1>4, <2>1
<1>8. v \in [1 .. n + 1 -> Nat]
  BY <1>5, <1>7
<1>9. \A k \in 1 .. n : v[k] = w[k]
  BY <1>1, <1>3
<1>10. v[n + 1] = Bytes(r.name, r.datum)
  BY <1>1, <1>4
<1> HIDE DEF w, v
<1>11. SumOf(v) = SumOf(w) + v[n + 1] /\ SumOf(w) \in Nat
  BY <1>1, <1>6, <1>8, <1>9, SumOfOneMore, SumIsNat
<1> QED
  BY <1>2, <1>10, <1>11 DEF more

\* Sorted reorders.
LEMMA SortedElements ==
  ASSUME NEW seq \in Seq(Names)
  PROVE  /\ Sorted(seq) \in Seq(Names) /\ Len(Sorted(seq)) = Len(seq)
         /\ Range(Sorted(seq)) = Range(seq)
         /\ \A i, j \in 1 .. Len(seq) : i <= j => Sorted(seq)[i] <= Sorted(seq)[j]
<1> DEFINE n == Len(seq)
           D == 1 .. n
           L == {x \in D \X D : seq[x[1]] < seq[x[2]] \/ (seq[x[1]] = seq[x[2]] /\ x[1] < x[2])}
           InOrder(p) == \A i, j \in D : i < j =>
                            \/ seq[p[i]] < seq[p[j]]
                            \/ seq[p[i]] = seq[p[j]] /\ p[i] < p[j]
           p == CHOOSE q \in [D -> D] : InOrder(q)
           s == [k \in D |-> seq[p[k]]]
<1>1. n \in Nat /\ DOMAIN seq = D /\ IsFiniteSet(D)
  BY FS_Interval
<1>2. \A i \in D : seq[i] \in Nat /\ seq[i] \in Names
  <2>1. \A i \in D : seq[i] \in Names
    BY LenProperties
  <2> QED
    BY <2>1, NamesAreNat
<1>3. Sorted(seq) = s
  BY <1>1 DEF Sorted
<1>4. \A i, j \in D : <<i, j>> \in L <=> seq[i] < seq[j] \/ (seq[i] = seq[j] /\ i < j)
  OBVIOUS
<1>5. L \in SUBSET (D \X D)
  OBVIOUS
<1> HIDE DEF L
<1>6. /\ \A i, j, k \in D : <<i, j>> \in L /\ <<j, k>> \in L => <<i, k>> \in L
      /\ \A i, j \in D : ~(<<i, j>> \in L /\ <<j, i>> \in L)
      /\ \A i, j \in D : i # j => <<i, j>> \in L \/ <<j, i>> \in L
  <2>1. ASSUME NEW i \in D, NEW j \in D, NEW k \in D, <<i, j>> \in L, <<j, k>> \in L
        PROVE  <<i, k>> \in L
    <3>1. seq[i] \in Nat /\ seq[j] \in Nat /\ seq[k] \in Nat
      BY <1>2
    <3>2. /\ seq[i] < seq[j] \/ (seq[i] = seq[j] /\ i < j)
          /\ seq[j] < seq[k] \/ (seq[j] = seq[k] /\ j < k)
      BY <1>4, <2>1
    <3>3. seq[i] < seq[k] \/ (seq[i] = seq[k] /\ i < k)
      BY <3>1, <3>2
    <3> QED
      BY <1>4, <3>3
  <2>2. ASSUME NEW i \in D, NEW j \in D, <<i, j>> \in L, <<j, i>> \in L
        PROVE  FALSE
    <3>1. seq[i] \in Nat /\ seq[j] \in Nat
      BY <1>2
    <3>2. /\ seq[i] < seq[j] \/ (seq[i] = seq[j] /\ i < j)
          /\ seq[j] < seq[i] \/ (seq[j] = seq[i] /\ j < i)
      BY <1>4, <2>2
    <3> QED
      BY <3>1, <3>2
  <2>3. ASSUME NEW i \in D, NEW j \in D, i # j
        PROVE  <<i, j>> \in L \/ <<j, i>> \in L
    <3>1. seq[i] \in Nat /\ seq[j] \in Nat
      BY <1>2
    <3>2. \/ seq[i] < seq[j] \/ (seq[i] = seq[j] /\ i < j)
          \/ seq[j] < seq[i] \/ (seq[j] = seq[i] /\ j < i)
      BY <2>3, <3>1
    <3> QED
      BY <1>4, <3>2
  <2> QED
    BY <2>1, <2>2, <2>3
<1> HIDE DEF n
<1>7. \E q \in [D -> D] : \A i, j \in D : i < j => <<q[i], q[j]>> \in L
  BY <1>1, <1>5, <1>6, OrderedIndexes
<1>8. \E q \in [D -> D] : InOrder(q)
  BY <1>4, <1>7
<1>9. p \in [D -> D] /\ InOrder(p)
  BY <1>8
<1> HIDE DEF p
<1>10. \A i, j \in D : p[i] = p[j] => i = j
  <2> SUFFICES ASSUME NEW i \in D, NEW j \in D, p[i] = p[j], i # j PROVE FALSE
    OBVIOUS
  <2>1. seq[p[i]] \in Nat /\ p[i] \in Nat /\ p[i] = p[j]
    BY <1>1, <1>2, <1>9
  <2>2. i < j \/ j < i
    BY <1>1
  <2> QED
    BY <1>9, <2>1, <2>2
<1>11. p \in Surjection(D, D)
  <2>1. p \in Injection(D, D)
    BY <1>9, <1>10 DEF Injection, IsInjective
  <2> QED
    BY <1>1, <2>1, FS_Injection
<1>12. \A k \in D : p[k] \in D /\ \E i \in D : p[i] = k
  BY <1>9, <1>11 DEF Surjection
<1>13. s \in Seq(Names) /\ Len(s) = n /\ DOMAIN s = D
  <2>1. s \in [D -> Names]
    BY <1>2, <1>12
  <2> QED
    BY <1>1, <2>1
<1>14. \A k \in D : s[k] = seq[p[k]]
  OBVIOUS
<1> HIDE DEF s
<1>15. Range(s) = Range(seq)
  <2>1. ASSUME NEW x \in Range(s)
        PROVE  x \in Range(seq)
    <3>1. PICK k \in D : x = seq[p[k]]
      BY <1>13, <1>14 DEF Range
    <3> QED
      BY <1>1, <1>12, <3>1 DEF Range
  <2>2. ASSUME NEW x \in Range(seq)
        PROVE  x \in Range(s)
    <3>1. PICK k \in D : x = seq[k]
      BY <1>1 DEF Range
    <3>2. PICK i \in D : p[i] = k
      BY <1>12
    <3>3. s[i] = x
      BY <1>14, <3>1, <3>2
    <3> QED
      BY <1>13, <3>3 DEF Range
  <2> QED
    BY <2>1, <2>2
<1>16. \A i, j \in D : i <= j => s[i] <= s[j]
  <2> SUFFICES ASSUME NEW i \in D, NEW j \in D, i <= j PROVE s[i] <= s[j]
    OBVIOUS
  <2>1. seq[p[i]] \in Nat /\ seq[p[j]] \in Nat
    BY <1>2, <1>12
  <2>2. i = j \/ i < j
    BY <1>1
  <2>3. i < j => seq[p[i]] <= seq[p[j]]
    BY <1>9, <2>1
  <2> QED
    BY <1>14, <2>1, <2>2, <2>3
<1> QED
  BY <1>3, <1>13, <1>15, <1>16 DEF n

\* What is left behind the first identity.
LEMMA OthersFacts ==
  ASSUME names \in Seq(Names), names # <<>>,
         \A i, j \in DOMAIN names : i <= j => names[i] <= names[j]
  PROVE  /\ Others \in Seq(Names) /\ Len(Others) <= Len(names)
         /\ Range(Others) = Range(names) \ {Head(names)}
         /\ \A i, j \in DOMAIN Others : i <= j => Others[i] <= Others[j]
         /\ Occurrences(Head(names)) = 1 => Others = Tail(names)
<1> DEFINE n == Len(names)
           D == 1 .. n
           h == Head(names)
           K == {k \in D : names[k] = h}
           m == Max(K)
<1>1. n \in Nat /\ n > 0 /\ DOMAIN names = D /\ h = names[1] /\ h \in Names
  OBVIOUS
<1>2. \A k \in D : names[k] \in Nat /\ names[k] \in Names
  <2>1. \A k \in D : names[k] \in Names
    BY LenProperties
  <2> QED
    BY <2>1, NamesAreNat
<1>3. K \in SUBSET D /\ K # {} /\ 1 \in K
  BY <1>1
<1> HIDE DEF n
<1>4. m \in K /\ \A k \in K : k <= m
  <2>1. K \in SUBSET (0 .. n)
    BY <1>1, <1>3
  <2> QED
    BY <1>1, <1>3, <2>1, MaxIsGreatest
<1>5. m \in D /\ names[m] = h /\ m \in Nat
  <2>1. m \in D /\ names[m] = h
    <3> HIDE DEF m
    <3> QED
      BY <1>4
  <2> QED
    BY <1>1, <2>1
<1> HIDE DEF m
<1>6. K = 1 .. m
  <2>1. ASSUME NEW k \in 1 .. m
        PROVE  k \in K
    <3>1. k \in D /\ 1 \in D /\ 1 <= k /\ k <= m
      BY <1>1, <1>5
    <3>2. names[1] <= names[k] /\ names[k] <= names[m]
      BY <1>1, <1>5, <3>1
    <3>3. names[k] \in Nat /\ names[1] \in Nat /\ names[1] = names[m]
      BY <1>1, <1>2, <1>5, <3>1
    <3>4. names[k] = names[1]
      BY <3>2, <3>3
    <3> QED
      BY <1>1, <3>1, <3>4
  <2>2. \A k \in K : k \in 1 .. m
    BY <1>1, <1>4, <1>5
  <2> QED
    BY <2>1, <2>2
<1>7. Occurrences(h) = m
  <2>1. Occurrences(h) = Cardinality(K)
    BY <1>1 DEF Occurrences
  <2>2. Cardinality(1 .. m) = m
    BY <1>5, FS_Interval
  <2> QED
    BY <1>6, <2>1, <2>2
<1>8. m >= 1 /\ m <= n
  BY <1>1, <1>5
<1>9. Others = SubSeq(names, m + 1, n)
  BY <1>7 DEF Others, n, h
<1> DEFINE rest == SubSeq(names, m + 1, n)
<1>10. /\ rest \in Seq(Names) /\ Len(rest) = n - m /\ DOMAIN rest = 1 .. n - m
       /\ \A i \in 1 .. n - m : rest[i] = names[m + i]
  BY <1>1, <1>5, <1>8
<1> HIDE DEF rest
<1>11. \A i \in 1 .. n - m : m + i \in D /\ m + i \notin K
  BY <1>1, <1>5, <1>6, <1>8
<1>12. \A i \in D : i \in K \/ (i - m \in 1 .. n - m /\ m + (i - m) = i)
  BY <1>1, <1>5, <1>6, <1>8
<1> HIDE DEF h
<1>13. Range(rest) = Range(names) \ {h}
  <2>1. ASSUME NEW x \in Range(rest)
        PROVE  x \in Range(names) /\ x # h
    <3>1. PICK i \in 1 .. n - m : x = names[m + i]
      BY <1>10 DEF Range
    <3>2. m + i \in D /\ names[m + i] # h
      BY <1>11
    <3> QED
      BY <1>1, <3>1, <3>2 DEF Range
  <2>2. ASSUME NEW x \in Range(names), x # h
        PROVE  x \in Range(rest)
    <3>1. PICK i \in D : x = names[i]
      BY <1>1 DEF Range
    <3>2. i \notin K
      BY <2>2, <3>1
    <3>3. i - m \in 1 .. n - m /\ rest[i - m] = names[i]
      BY <1>10, <1>12, <3>2
    <3> QED
      BY <1>10, <3>1, <3>3 DEF Range
  <2> QED
    BY <2>1, <2>2
<1>14. \A i, j \in 1 .. n - m : i <= j => rest[i] <= rest[j]
  <2> SUFFICES ASSUME NEW i \in 1 .. n - m, NEW j \in 1 .. n - m, i <= j
               PROVE  rest[i] <= rest[j]
    OBVIOUS
  <2>1. m + i \in D /\ m + j \in D /\ m + i <= m + j
    BY <1>5, <1>11
  <2> QED
    BY <1>1, <1>10, <2>1
<1>15. m = 1 => rest = Tail(names)
  <2>1. /\ Tail(names) \in Seq(Names) /\ Len(Tail(names)) = n - 1
        /\ \A i \in 1 .. n - 1 : Tail(names)[i] = names[i + 1]
    BY <1>1 DEF n
  <2>2. m = 1 => \A i \in 1 .. n - 1 : rest[i] = Tail(names)[i]
    BY <1>1, <1>10, <2>1
  <2>3. m = 1 => Len(rest) = Len(Tail(names))
    BY <1>10, <2>1
  <2> QED
    BY <1>10, <2>1, <2>2, <2>3, SeqEqual
<1>16. Others = rest
  BY <1>9 DEF rest
<1>17. Len(rest) <= n
  BY <1>1, <1>5, <1>8, <1>10
<1> QED
  BY <1>7, <1>10, <1>13, <1>14, <1>15, <1>16, <1>17 DEF h, n

\* What the list holds after a page.
LEMMA RetainFacts ==
  ASSUME NEW rs \in Seq(Names), NEW page_names \in Seq(Names)
  PROVE  LET kept == Retain(rs, page_names)
         IN  /\ kept.names \in Seq(Names) /\ Len(kept.names) <= MaxServices
             /\ kept.omitted \in BOOLEAN
             /\ \A i, j \in DOMAIN kept.names : i <= j => kept.names[i] <= kept.names[j]
             /\ ~kept.omitted => Range(kept.names) = Range(rs) \union Range(page_names)
<1> DEFINE both == rs \o page_names
           all == Sorted(both)
           n == Smaller(Len(all), MaxServices)
           kept == SubSeq(all, 1, n)
<1>1. both \in Seq(Names) /\ Range(both) = Range(rs) \union Range(page_names)
  BY RangesJoined
<1>2. /\ all \in Seq(Names) /\ Len(all) = Len(both) /\ Range(all) = Range(both)
      /\ \A i, j \in 1 .. Len(both) : i <= j => all[i] <= all[j]
  BY <1>1, SortedElements
<1>3. Retain(rs, page_names) = [names |-> kept, omitted |-> kept # all]
  BY DEF Retain
<1> HIDE DEF both, all
<1>4. n \in 0 .. Len(all) /\ n <= MaxServices
  <2>1. Len(all) \in Nat /\ MaxServices \in Nat
    BY <1>2, ServicesAssumption
  <2> QED
    BY <2>1 DEF Smaller
<1> HIDE DEF n
<1>5. /\ kept \in Seq(Names) /\ Len(kept) = n /\ DOMAIN kept = 1 .. n
      /\ \A i \in 1 .. n : kept[i] = all[i]
  <2>1. n \in Nat /\ n <= Len(all) /\ Len(all) \in Nat
    BY <1>2, <1>4
  <2> QED
    BY <1>2, <2>1
<1> HIDE DEF kept
<1>6. \A i, j \in DOMAIN kept : i <= j => kept[i] <= kept[j]
  <2>1. Len(all) \in Nat
    BY <1>2
  <2>2. \A i \in 1 .. n : i \in 1 .. Len(both)
    BY <1>2, <1>4, <2>1
  <2> QED
    BY <1>2, <1>5, <2>2
<1> DEFINE t == [names |-> kept, omitted |-> kept # all]
<1>7. t.names = kept /\ t.omitted \in BOOLEAN /\ (~t.omitted => kept = all)
  OBVIOUS
<1> HIDE DEF t
<1>8. Retain(rs, page_names) = t
  BY <1>3 DEF t
<1> QED
  BY <1>1, <1>2, <1>4, <1>5, <1>6, <1>7, <1>8

-----------------------------------------------------------------------------
(***************************************************************************)
(* The invariant                                                           *)
(***************************************************************************)

LEMMA ScanInitially == Init => ScanInv
<1> SUFFICES ASSUME Init PROVE ScanInv
  OBVIOUS
<1>1. Total(<<>>) = 0
  <2>1. Total(<<>>) = SumOf(<<>>)
    BY DEF Total
  <2> QED
    BY <2>1, SumOfNothing
<1>2. /\ MaxPages \in Nat \ {0} /\ MaxReads \in Nat \ {0, 1} /\ MaxTries \in Nat \ {0}
      /\ MaxServices \in Nat /\ MaxChanges \in Nat /\ Budget \in Nat
  BY ServicesAssumption
<1>4. /\ 0 \in 0 .. MaxPages - 1 /\ 0 \in 0 .. MaxReads - 1 /\ 0 \in 0 .. MaxTries - 1
      /\ 0 \in 0 .. MaxChanges /\ 0 <= MaxServices /\ 0 <= Budget /\ 1 \in DOMAIN Parts
  BY <1>2, ThreeParts
<1>5. Len(<<>>) = 0 /\ DOMAIN <<>> = {} /\ Range(<<>>) = {}
  BY DEF Range
<1>3. TypeOK
  <2>1. /\ pc \in {"list", "page", "item", "done"} \union Reading /\ pc \notin Reading
        /\ page \in 0 .. MaxPages - 1 /\ changes \in 0 .. MaxChanges
        /\ reads \in 0 .. MaxReads - 1 /\ tries \in 0 .. MaxTries - 1
        /\ part \in DOMAIN Parts /\ need \in Nat
    BY <1>4 DEF Init, Reading
  <2>2. /\ Range(names) \subseteq Names /\ Len(names) <= MaxServices
        /\ omitted \in BOOLEAN /\ listed \subseteq Names
        /\ config \in Configs \union {None} /\ held \subseteq Configs
        /\ diagnosed \subseteq Names /\ failed \in {"no", "failed", "permission_denied"}
    BY <1>4, <1>5 DEF Init
  <2>3. /\ Len(bundle) = part - 1 /\ \A p \in DOMAIN bundle : bundle[p] \in Values[p]
        /\ (previous = None) = (reads = 0) /\ (previous # None => previous \in Configs)
    BY <1>5 DEF Init
  <2>4. Total(found) <= Budget /\ \A o \in Range(found) : o.name \in Names /\ o.datum \in Configs
    BY <1>1, <1>4, <1>5 DEF Init
  <2> QED
    BY <2>1, <2>2, <2>3, <2>4 DEF TypeOK
<1> QED
  BY <1>3 DEF Init, ScanInv, Listed, ListInv, ReadInv, FoundNames, Range, Reading

\* The list loses its first identity, and the read is forgotten.
LEMMA ForgetStep ==
  ASSUME ScanInv, names # <<>>, pc \in Reading \union {"item"},
         Forget, names' = Others, pc' = "item",
         UNCHANGED <<page, omitted, listed, failed>>,
         \/ found' = found /\ diagnosed' = diagnosed \union {Head(names)}
         \/ /\ diagnosed' = diagnosed
            /\ \E c \in Configs :
                  /\ Total(found) + Bytes(Head(names), c) <= Budget
                  /\ found' = Append(found, [name |-> Head(names), datum |-> c])
  PROVE  ScanInv'
<1> DEFINE h == Head(names)
<1>1. h \in Names /\ h \in Range(names)
  BY DEF ScanInv, Listed, Range
<1>2. /\ Others \in Seq(Names) /\ Len(Others) <= Len(names)
      /\ Range(Others) = Range(names) \ {h}
      /\ \A i, j \in DOMAIN Others : i <= j => Others[i] <= Others[j]
  BY OthersFacts DEF ScanInv, Listed, ListInv
<1>3. Range(Others) \subseteq Names /\ Len(Others) <= MaxServices
  <2>1. Len(names) <= MaxServices /\ Len(names) \in Nat /\ Len(Others) \in Nat
        /\ MaxServices \in Nat /\ Range(names) \subseteq Names
    BY <1>2, ServicesAssumption DEF ScanInv, TypeOK, Listed
  <2> QED
    BY <1>2, <2>1
<1>4. /\ found' \in Seq(ServiceRecords) /\ Total(found') <= Budget
      /\ FoundNames' \union diagnosed' = FoundNames \union diagnosed \union {h}
      /\ diagnosed' \subseteq Names
      /\ FoundNames' \subseteq FoundNames \union {h}
      /\ \A i, j \in DOMAIN found' : found'[i].name = found'[j].name => i = j
  <2>1. CASE found' = found /\ diagnosed' = diagnosed \union {h}
    BY <1>1, <2>1 DEF ScanInv, Listed, ListInv, TypeOK, FoundNames
  <2>2. ASSUME NEW c \in Configs, Total(found) + Bytes(h, c) <= Budget, diagnosed' = diagnosed,
               found' = Append(found, [name |-> h, datum |-> c])
        PROVE  /\ found' \in Seq(ServiceRecords) /\ Total(found') <= Budget
               /\ FoundNames' \union diagnosed' = FoundNames \union diagnosed \union {h}
               /\ diagnosed' \subseteq Names
               /\ FoundNames' \subseteq FoundNames \union {h}
               /\ \A i, j \in DOMAIN found' : found'[i].name = found'[j].name => i = j
    <3> DEFINE r == [name |-> h, datum |-> c]
    <3>1. r \in ServiceRecords /\ r.name = h /\ r.datum = c
      BY <1>1 DEF ServiceRecords
    <3>2. found \in Seq(ServiceRecords)
      BY DEF ScanInv, Listed
    <3> HIDE DEF r, h
    <3>3. found' = Append(found, r)
      BY <2>2 DEF r
    <3>4. Total(found') = Total(found) + Bytes(h, c)
      BY <3>1, <3>2, <3>3, TotalGrows
    <3>5. /\ Len(found) \in Nat /\ DOMAIN found = 1 .. Len(found)
          /\ DOMAIN found' = 1 .. Len(found) + 1 /\ found' \in Seq(ServiceRecords)
          /\ \A k \in 1 .. Len(found) : found'[k] = found[k]
          /\ found'[Len(found) + 1] = r
      BY <3>1, <3>2, <3>3
    <3>6. \A k \in DOMAIN found' : k \in DOMAIN found \/ k = Len(found) + 1
      BY <3>5
    <3>7. h \notin FoundNames
      BY <1>1 DEF ScanInv, ListInv
    <3>8. \A k \in DOMAIN found : found[k].name \in FoundNames
      BY DEF FoundNames, Range
    <3>9. \A i, j \in DOMAIN found' : found'[i].name = found'[j].name => i = j
      <4> SUFFICES ASSUME NEW i \in DOMAIN found', NEW j \in DOMAIN found',
                          found'[i].name = found'[j].name
                   PROVE  i = j
        OBVIOUS
      <4>1. CASE i \in DOMAIN found /\ j \in DOMAIN found
        BY <3>5, <4>1 DEF ScanInv, ListInv
      <4>2. CASE i = Len(found) + 1 /\ j \in DOMAIN found
        BY <3>1, <3>5, <3>7, <3>8, <4>2
      <4>3. CASE j = Len(found) + 1 /\ i \in DOMAIN found
        BY <3>1, <3>5, <3>7, <3>8, <4>3
      <4> QED
        BY <3>6, <4>1, <4>2, <4>3
    <3>10. Range(found') = Range(found) \union {r}
      BY <3>5, <3>6 DEF Range
    <3>11. FoundNames' = FoundNames \union {h}
      BY <3>1, <3>10 DEF FoundNames
    <3>12. diagnosed' \subseteq Names
      BY <2>2 DEF ScanInv, TypeOK
    <3> QED
      BY <2>2, <3>4, <3>5, <3>9, <3>11, <3>12
  <2> QED
    BY <2>1, <2>2
<1> HIDE DEF h
<1>5. /\ config' = None /\ held' = {} /\ changes' = 0
      /\ reads' = 0 /\ part' = 1 /\ need' = 0 /\ tries' = 0 /\ bundle' = <<>> /\ previous' = None
  BY DEF Forget
<1>6. \A o \in Range(found') : o.name \in Names /\ o.datum \in Configs
  <2>1. \A o \in Range(found') : o \in ServiceRecords
    BY <1>4, LenProperties DEF Range
  <2> QED
    BY <2>1 DEF ServiceRecords
<1>7. failed = "no"
  BY DEF ScanInv, ListInv, Reading
<1>8. TypeOK'
  <2>1. /\ page' \in 0 .. MaxPages - 1 /\ omitted' \in BOOLEAN /\ listed' \subseteq Names
        /\ failed' \in {"no", "failed", "permission_denied"}
    BY DEF ScanInv, TypeOK
  <2>2. reads' \in 0 .. MaxReads - 1 /\ tries' \in 0 .. MaxTries - 1 /\ changes' \in 0 .. MaxChanges
    BY <1>5, ServicesAssumption
  <2>3. Len(bundle') = part' - 1 /\ DOMAIN bundle' = {} /\ part' \in DOMAIN Parts /\ need' \in Nat
    BY <1>5, ThreeParts
  <2> QED
    BY <1>3, <1>4, <1>5, <1>6, <2>1, <2>2, <2>3 DEF TypeOK, Reading
<1>9. Listed'
  BY <1>2, <1>4, <1>5 DEF Listed
<1>10. ListInv'
  <2>1. ~omitted => listed = Range(names) \union diagnosed \union FoundNames
    BY <1>7 DEF ScanInv, ListInv
  <2>2. ~omitted' => listed' = Range(names') \union diagnosed' \union FoundNames'
    BY <1>1, <1>2, <1>4, <2>1
  <2>3. FoundNames' \intersect Range(names') = {}
    BY <1>2, <1>4 DEF ScanInv, ListInv
  <2> QED
    BY <1>2, <1>4, <1>7, <2>2, <2>3 DEF ListInv, Reading
<1>11. ReadInv'
  BY <1>5 DEF ReadInv
<1> QED
  BY <1>8, <1>9, <1>10, <1>11 DEF ScanInv

LEMMA DropStep ==
  ASSUME ScanInv, names # <<>>, pc \in Reading \union {"item"}, Drop
  PROVE  ScanInv'
BY ForgetStep DEF Drop

LEMMA EmitStep ==
  ASSUME ScanInv, names # <<>>, pc \in Reading, NEW c \in Configs, Emit(c)
  PROVE  ScanInv'
<1>1. CASE Normalizes(c) /\ WithinBudgets(Head(names), c) /\ ~Drop
  <2>1. Others = Tail(names)
    BY OthersFacts DEF ScanInv, Listed, ListInv
  <2>2. /\ found' = Append(found, [name |-> Head(names), datum |-> c])
        /\ names' = Others /\ pc' = "item" /\ Forget
        /\ UNCHANGED <<page, omitted, listed, diagnosed, failed>>
        /\ Total(found) + Bytes(Head(names), c) <= Budget
    BY <1>1, <2>1 DEF Emit, WithinBudgets
  <2> QED
    BY <2>2, ForgetStep
<1>2. CASE Drop
  BY <1>2, DropStep
<1> QED
  BY <1>1, <1>2 DEF Emit

\* What a state of a read must satisfy, whatever the lists hold.
ReadTyped ==
    /\ config \in Configs \union {None} /\ held \subseteq Configs
    /\ pc \in Reading => names # <<>> /\ (config \in held \union {None} \/ changes = MaxChanges)
    /\ changes \in 0 .. MaxChanges /\ reads \in 0 .. MaxReads - 1
    /\ part \in DOMAIN Parts /\ need \in Nat /\ tries \in 0 .. MaxTries - 1
    /\ Len(bundle) = part - 1 /\ \A p \in DOMAIN bundle : bundle[p] \in Values[p]
    /\ bundle \in Seq(UNION Range(Values))
    /\ (previous = None) = (reads = 0)
    /\ previous # None => previous \in Configs
    /\ ReadInv

LEMMA ReadIsTyped == ScanInv => ReadTyped
BY DEF ScanInv, TypeOK, Listed, ReadTyped

\* A step that leaves the lists alone.
LEMMA FrameStep ==
  ASSUME ScanInv, UNCHANGED <<listVars, outcomeVars>>, ReadTyped',
         pc' \in {"list", "page", "item", "done"} \union Reading,
         pc' \in {"list", "page"} => pc \in {"list", "page"},
         pc' \in Reading => pc \in Reading \/ Occurrences(Head(names)) = 1,
         pc = "done" => pc' = "done",
         pc' = "done" => names = <<>>
  PROVE  ScanInv'
<1>1. /\ page' = page /\ names' = names /\ omitted' = omitted /\ listed' = listed
      /\ found' = found /\ diagnosed' = diagnosed /\ failed' = failed
  BY DEF listVars, outcomeVars
<1>2. TypeOK'
  BY <1>1 DEF ScanInv, TypeOK, ReadTyped
<1>3. Listed'
  BY <1>1 DEF ScanInv, Listed, ReadTyped
<1>4. ListInv'
  <2>1. Occurrences(Head(names))' = Occurrences(Head(names))
    BY <1>1 DEF Occurrences
  <2>2. FoundNames' = FoundNames
    BY <1>1 DEF FoundNames
  <2> QED
    BY <1>1, <2>1, <2>2 DEF ScanInv, ListInv
<1> QED
  BY <1>2, <1>3, <1>4 DEF ScanInv, ReadTyped

LEMMA ChangedStep ==
  ASSUME ScanInv, pc \in Reading, NEW c \in Configs \union {None}, Changed(c),
         pc \in {"probe", "query"} => c # None
  PROVE  ScanInv'
<1>1. /\ config' = c /\ changes' = Smaller(changes + 1, MaxChanges)
      /\ held' = IF changes + 1 < MaxChanges THEN held \union ({c} \ {None}) ELSE {}
      /\ UNCHANGED <<pc, listVars, readVars, outcomeVars>>
  BY DEF Changed
<1>2. ReadTyped
  BY ReadIsTyped
<1>3. MaxChanges \in Nat /\ changes \in 0 .. MaxChanges
  BY <1>2, ServicesAssumption DEF ReadTyped
<1>4. /\ changes' \in 0 .. MaxChanges
      /\ changes + 1 < MaxChanges \/ changes' = MaxChanges
  BY <1>1, <1>3 DEF Smaller
<1>5. held' \subseteq Configs /\ (config' \in held' \union {None} \/ changes' = MaxChanges)
  BY <1>1, <1>2, <1>4 DEF ReadTyped
<1>6. ReadTyped'
  BY <1>1, <1>2, <1>4, <1>5 DEF ReadTyped, ReadInv, readVars, listVars
<1> QED
  BY <1>1, <1>6, FrameStep DEF Reading

LEMMA EnvironmentStep == ScanInv /\ Environment => ScanInv'
<1> SUFFICES ASSUME ScanInv, Environment PROVE ScanInv'
  OBVIOUS
<1>1. CASE Reconfigure
  <2>0. PICK p \in DOMAIN Parts : \E v \in Values[p] \ {config[p]} : Changed([config EXCEPT ![p] = v])
    BY <1>1 DEF Reconfigure
  <2>1. PICK v \in Values[p] : Changed([config EXCEPT ![p] = v])
    BY <2>0
  <2>2. config \in Configs
    BY <1>1 DEF Reconfigure, ScanInv, TypeOK
  <2> DEFINE c == [config EXCEPT ![p] = v]
  <2>3. c \in Configs
    BY <2>2, ThreeParts DEF Configs, Range
  <2>4. c # None
    BY <2>3, NoneIsNoConfig
  <2> QED
    BY <1>1, <2>1, <2>3, <2>4, ChangedStep DEF Reconfigure
<1>2. CASE Delete
  BY <1>2, ChangedStep DEF Delete, Reading
<1>3. CASE Create
  BY <1>3, ChangedStep, NoneIsNoConfig DEF Create
<1> QED
  BY <1>1, <1>2, <1>3 DEF Environment

LEMMA FailStep ==
  ASSUME ScanInv, pc \in {"list", "page"}, Fail
  PROVE  ScanInv'
<1>1. /\ failed' \in {"failed", "permission_denied"} /\ pc' = "done"
      /\ page' = 0 /\ names' = <<>> /\ omitted' = FALSE
      /\ listed' = listed /\ found' = found /\ diagnosed' = diagnosed
      /\ UNCHANGED <<serviceVars, readVars>>
  BY DEF Fail
<1>2. 0 \in 0 .. MaxPages - 1 /\ 0 <= MaxServices
  BY ServicesAssumption
<1>3. found = <<>> /\ part = 1 /\ previous = None
  BY DEF ScanInv, ListInv, ReadInv, Reading
<1>4. TypeOK'
  <2>1. Range(<<>>) = {} /\ Len(<<>>) = 0
    BY DEF Range
  <2> QED
    BY <1>1, <1>2, <2>1 DEF ScanInv, TypeOK, Reading, serviceVars, readVars
<1>5. Listed'
  BY <1>1 DEF ScanInv, Listed, readVars
<1>6. ListInv'
  BY <1>1, <1>3 DEF ListInv, FoundNames, Range, Reading
<1>7. ReadInv'
  BY <1>1, <1>3 DEF ReadInv, readVars
<1> QED
  BY <1>4, <1>5, <1>6, <1>7 DEF ScanInv

LEMMA ProbeListStep == ScanInv /\ ProbeList => ScanInv'
<1> SUFFICES ASSUME ScanInv, ProbeList PROVE ScanInv'
  OBVIOUS
<1>1. CASE pc' \in {"item", "page"} /\ UNCHANGED <<listVars, serviceVars, readVars, outcomeVars>>
  <2>1. pc = "list"
    BY DEF ProbeList
  <2>2. ReadTyped'
    BY <1>1, <2>1, ReadIsTyped DEF ReadTyped, ReadInv, Reading, serviceVars, readVars
  <2> QED
    BY <1>1, <2>1, <2>2, FrameStep DEF Reading
<1>2. CASE Fail
  BY <1>2, FailStep DEF ProbeList
<1> QED
  BY <1>1, <1>2 DEF ProbeList

LEMMA ReadPageStep == ScanInv /\ ReadPage => ScanInv'
<1> SUFFICES ASSUME ScanInv, ReadPage PROVE ScanInv'
  OBVIOUS
<1>1. pc = "page"
  BY DEF ReadPage
<1>2. CASE Fail
  BY <1>1, <1>2, FailStep
<1>3. ASSUME NEW page_names \in BoundedSeq(Names, PageSize), NEW more \in BOOLEAN,
             ~more \/ page + 1 < MaxPages,
             names' = Retain(names, page_names).names,
             omitted' = (omitted \/ Retain(names, page_names).omitted),
             listed' = listed \union Range(page_names),
             page' = IF more THEN page + 1 ELSE 0,
             pc' = IF more THEN "page" ELSE "item",
             UNCHANGED <<serviceVars, readVars, outcomeVars>>
      PROVE  ScanInv'
  <2>1. page_names \in Seq(Names)
    BY BoundedAreSeqs, ServicesAssumption
  <2>2. /\ names' \in Seq(Names) /\ Len(names') <= MaxServices
        /\ Retain(names, page_names).omitted \in BOOLEAN
        /\ \A i, j \in DOMAIN names' : i <= j => names'[i] <= names'[j]
        /\ ~Retain(names, page_names).omitted =>
              Range(names') = Range(names) \union Range(page_names)
    BY <1>3, <2>1, RetainFacts DEF ScanInv, Listed
  <2>3. found = <<>> /\ diagnosed = {} /\ part = 1 /\ previous = None /\ failed = "no"
    BY <1>1 DEF ScanInv, ListInv, ReadInv, Reading
  <2>4. Range(page_names) \subseteq Names /\ Range(names') \subseteq Names
    BY <2>1, <2>2 DEF Range
  <2>5. page' \in 0 .. MaxPages - 1
    BY <1>3, ServicesAssumption DEF ScanInv, TypeOK
  <2>6. /\ UNCHANGED <<config, held, changes, reads, part, need, tries, bundle, previous>>
        /\ UNCHANGED <<found, diagnosed, failed>>
    BY <1>3 DEF serviceVars, readVars, outcomeVars
  <2>7. pc' \in {"page", "item"}
    BY <1>3
  <2>8. TypeOK'
    BY <1>3, <2>2, <2>4, <2>5, <2>6, <2>7 DEF ScanInv, TypeOK, Reading
  <2>9. Listed'
    BY <2>2, <2>6 DEF ScanInv, Listed
  <2>10. ListInv'
    <3>1. FoundNames = {} /\ FoundNames' = {}
      BY <2>3, <2>6 DEF FoundNames, Range
    <3>2. ~omitted => listed = Range(names)
      BY <2>3, <3>1 DEF ScanInv, ListInv
    <3>3. ~omitted' => listed' = Range(names')
      BY <1>3, <2>2, <3>2
    <3> QED
      BY <2>2, <2>3, <2>6, <2>7, <3>1, <3>3 DEF ListInv, Reading
  <2>11. ReadInv'
    BY <2>3, <2>6, <2>7 DEF ReadInv
  <2> QED
    BY <2>8, <2>9, <2>10, <2>11 DEF ScanInv
<1> QED
  BY <1>2, <1>3 DEF ReadPage

LEMMA FinishStep == ScanInv /\ Finish => ScanInv'
<1> SUFFICES ASSUME ScanInv, Finish PROVE ScanInv'
  OBVIOUS
<1>1. /\ pc = "item" /\ names = <<>> /\ pc' = "done"
      /\ UNCHANGED <<listVars, serviceVars, readVars, outcomeVars>>
  BY DEF Finish
<1>2. ReadTyped'
  BY <1>1, ReadIsTyped DEF ReadTyped, ReadInv, Reading, serviceVars, readVars
<1> QED
  BY <1>1, <1>2, FrameStep DEF Reading

LEMMA TakeItemStep == ScanInv /\ TakeItem => ScanInv'
<1> SUFFICES ASSUME ScanInv, TakeItem PROVE ScanInv'
  OBVIOUS
<1>1. pc = "item" /\ names # <<>>
  BY DEF TakeItem
<1>2. CASE Drop
  BY <1>1, <1>2, DropStep
<1>3. ASSUME SoleName(Head(names)), config' \in Configs \union {None},
             held' = {config'} \ {None}, changes' = 0, pc' = "open",
             UNCHANGED <<listVars, readVars, outcomeVars>>
      PROVE  ScanInv'
  <2>1. changes' \in 0 .. MaxChanges
    BY <1>3, ServicesAssumption
  <2>2. held' \subseteq Configs /\ config' \in held' \union {None}
    BY <1>3
  <2>3. ReadTyped'
    BY <1>1, <1>3, <2>1, <2>2, ReadIsTyped DEF ReadTyped, ReadInv, Reading, readVars, listVars
  <2> QED
    BY <1>1, <1>3, <2>3, FrameStep DEF Reading, SoleName
<1> QED
  BY <1>2, <1>3 DEF TakeItem

LEMMA OpenStep == ScanInv /\ Open => ScanInv'
<1> SUFFICES ASSUME ScanInv, Open PROVE ScanInv'
  OBVIOUS
<1>1. pc = "open" /\ names # <<>>
  BY DEF Open, ScanInv, TypeOK, Reading
<1>2. CASE Drop
  BY <1>1, <1>2, DropStep DEF Reading
<1>3. ASSUME config # None, pc' = "probe",
             UNCHANGED <<listVars, serviceVars, readVars, outcomeVars>>
      PROVE  ScanInv'
  <2>1. ReadTyped'
    BY <1>1, <1>3, ReadIsTyped DEF ReadTyped, ReadInv, Reading, serviceVars, readVars, listVars
  <2> QED
    BY <1>1, <1>3, <2>1, FrameStep DEF Reading
<1> QED
  BY <1>2, <1>3 DEF Open

\* The part that is read next has a size.
LEMMA PartHasSize ==
  ASSUME ScanInv, pc \in {"probe", "query"}
  PROVE  /\ config \in Configs /\ part \in 1 .. 3
         /\ config[part] \in Values[part] /\ config[part] \in UNION Range(Values)
         /\ Size[config[part]] \in Nat
<1>1. config \in Configs /\ part \in 1 .. 3
  BY ThreeParts DEF ScanInv, TypeOK, ReadInv
<1>2. \A p \in 1 .. 3 : \A v \in Values[p] : Size[v] \in Nat
  BY ThreeParts, ServicesAssumption
<1> QED
  BY <1>1, <1>2, ConfigParts

LEMMA ProbeStep == ScanInv /\ Probe => ScanInv'
<1> SUFFICES ASSUME ScanInv, Probe PROVE ScanInv'
  OBVIOUS
<1>1. pc = "probe" /\ names # <<>>
  BY DEF Probe, ScanInv, TypeOK, Reading
<1>2. CASE Drop
  BY <1>1, <1>2, DropStep DEF Reading
<1>3. ASSUME need' = Size[config[part]], pc' = "query",
             UNCHANGED <<listVars, serviceVars, reads, part, tries, bundle, previous, outcomeVars>>
      PROVE  ScanInv'
  <2>1. need' \in Nat
    BY <1>1, <1>3, PartHasSize
  <2>2. ReadTyped'
    BY <1>1, <1>3, <2>1, ReadIsTyped DEF ReadTyped, ReadInv, Reading, serviceVars, listVars
  <2> QED
    BY <1>1, <1>3, <2>2, FrameStep DEF Reading
<1> QED
  BY <1>2, <1>3 DEF Probe

\* The parts read so far, and the next one.
LEMMA NextPart ==
  ASSUME ScanInv, pc = "query"
  PROVE  LET more == Append(bundle, config[part])
         IN  /\ more \in Seq(UNION Range(Values)) /\ Len(more) = part
             /\ \A p \in 1 .. part : more[p] \in Values[p]
             /\ \A p \in DOMAIN bundle : more[p] = bundle[p]
             /\ DOMAIN bundle = 1 .. part - 1
             /\ more[part] = config[part]
<1> DEFINE X == UNION Range(Values)
           v == config[part]
           n == Len(bundle)
           more == Append(bundle, v)
<1>1. v \in X /\ part \in 1 .. 3 /\ v \in Values[part]
  BY PartHasSize
<1>2. bundle \in Seq(X) /\ n = part - 1 /\ n \in Nat /\ part = n + 1
  BY <1>1 DEF ScanInv, TypeOK, Listed
<1>3. \A p \in 1 .. n : bundle[p] \in Values[p]
  BY <1>2 DEF ScanInv, TypeOK
<1> HIDE DEF X, v
<1>4. /\ more \in Seq(X) /\ Len(more) = n + 1 /\ DOMAIN bundle = 1 .. n
      /\ \A p \in 1 .. n : more[p] = bundle[p]
      /\ more[n + 1] = v
  BY <1>1, <1>2
<1>5. \A p \in 1 .. n + 1 : p \in 1 .. n \/ p = n + 1
  BY <1>2
<1> HIDE DEF more, n
<1>6. \A p \in 1 .. n + 1 : more[p] \in Values[p]
  BY <1>1, <1>2, <1>3, <1>4, <1>5
<1>7. n = part - 1
  BY <1>2
<1> QED
  BY <1>2, <1>4, <1>6, <1>7 DEF more, v, X

LEMMA EndReadStep ==
  ASSUME ScanInv, pc = "query", part = 3, EndRead(Append(bundle, config[part]))
  PROVE  ScanInv'
<1> DEFINE c == Append(bundle, config[part])
<1>1. c \in Configs
  BY NextPart, BundleIsConfig
<1>2. names # <<>> /\ pc \in Reading
  BY DEF ScanInv, TypeOK, Reading
<1> HIDE DEF c
<1>3. CASE Emit(c)
  BY <1>1, <1>2, <1>3, EmitStep
<1>4. CASE Drop
  BY <1>2, <1>4, DropStep
<1>5. CASE reads + 1 < MaxReads /\ ReadAgain(c)
  <2>1. /\ reads' = reads + 1 /\ previous' = c /\ pc' = "open" /\ part' = 1 /\ need' = 0
        /\ tries' = 0 /\ bundle' = <<>>
        /\ UNCHANGED <<listVars, serviceVars, outcomeVars>>
    BY <1>5 DEF ReadAgain
  <2>2. reads \in Nat /\ reads' \in 0 .. MaxReads - 1 /\ reads' # 0
    BY <1>5, <2>1, ServicesAssumption DEF ScanInv, TypeOK
  <2>3. 0 \in 0 .. MaxTries - 1 /\ 1 \in DOMAIN Parts /\ previous' # None
    BY <1>1, <2>1, NoneIsNoConfig, ServicesAssumption, ThreeParts
  <2>4. ReadTyped'
    <3>1. ReadTyped
      BY ReadIsTyped
    <3>2. Len(<<>>) = 0 /\ DOMAIN <<>> = {} /\ <<>> \in Seq(UNION Range(Values))
      OBVIOUS
    <3>3. /\ names' = names /\ config' = config /\ held' = held /\ changes' = changes
      BY <2>1 DEF listVars, serviceVars
    <3>4. /\ Len(bundle') = part' - 1 /\ DOMAIN bundle' = {}
          /\ bundle' \in Seq(UNION Range(Values))
      BY <2>1, <3>2
    <3>5. ReadInv'
      BY <2>1 DEF ReadInv, Reading
    <3> QED
      BY <1>1, <1>2, <2>1, <2>2, <2>3, <3>1, <3>3, <3>4, <3>5 DEF ReadTyped
  <2> QED
    BY <1>2, <2>1, <2>4, FrameStep DEF Reading
<1> QED
  BY <1>3, <1>4, <1>5 DEF EndRead, c

LEMMA QueryStep == ScanInv /\ Query => ScanInv'
<1> SUFFICES ASSUME ScanInv, Query PROVE ScanInv'
  OBVIOUS
<1>1. pc = "query" /\ names # <<>> /\ pc \in Reading
  BY DEF Query, ScanInv, TypeOK, Reading
<1>2. CASE Drop
  BY <1>1, <1>2, DropStep
<1>3. ASSUME part < Len(Parts), bundle' = Append(bundle, config[part]),
             part' = part + 1, need' = 0, tries' = 0, pc' = "probe",
             UNCHANGED <<listVars, serviceVars, reads, previous, outcomeVars>>
      PROVE  ScanInv'
  <2>1. part \in Nat /\ part' \in DOMAIN Parts /\ DOMAIN bundle' = 1 .. part
    BY <1>1, <1>3, NextPart, PartHasSize, ThreeParts
  <2>2. /\ bundle' \in Seq(UNION Range(Values)) /\ Len(bundle') = part' - 1
        /\ \A p \in DOMAIN bundle' : bundle'[p] \in Values[p]
    BY <1>1, <1>3, <2>1, NextPart
  <2>3. 0 \in 0 .. MaxTries - 1
    BY ServicesAssumption
  <2>4. ReadTyped'
    <3>1. ReadTyped /\ config # None
      BY <1>1, ReadIsTyped DEF ReadTyped, ReadInv
    <3>2. /\ names' = names /\ config' = config /\ held' = held /\ changes' = changes
          /\ reads' = reads /\ previous' = previous
      BY <1>3 DEF listVars, serviceVars
    <3>3. ReadInv'
      BY <1>3, <3>1, <3>2 DEF ReadInv, Reading
    <3> QED
      BY <1>1, <1>3, <2>1, <2>2, <2>3, <3>1, <3>2, <3>3 DEF ReadTyped
  <2> QED
    BY <1>1, <1>3, <2>4, FrameStep DEF Reading
<1>4. ASSUME part = Len(Parts), EndRead(Append(bundle, config[part]))
      PROVE  ScanInv'
  BY <1>1, <1>4, EndReadStep, ThreeParts
<1>5. ASSUME tries + 1 < MaxTries, need' = Size[config[part]], tries' = tries + 1,
             UNCHANGED <<pc, listVars, serviceVars, reads, part, bundle, previous, outcomeVars>>
      PROVE  ScanInv'
  <2>1. need' \in Nat
    BY <1>1, <1>5, PartHasSize
  <2>2. tries' \in 0 .. MaxTries - 1
    BY <1>5, ServicesAssumption DEF ScanInv, TypeOK
  <2>3. ReadTyped'
    BY <1>1, <1>5, <2>1, <2>2, ReadIsTyped DEF ReadTyped, ReadInv, serviceVars, listVars
  <2> QED
    BY <1>1, <1>5, <2>3, FrameStep DEF Reading
<1> QED
  BY <1>2, <1>3, <1>4, <1>5 DEF Query

LEMMA StutterStep == ScanInv /\ UNCHANGED vars => ScanInv'
<1> SUFFICES ASSUME ScanInv, UNCHANGED vars PROVE ScanInv'
  OBVIOUS
<1>1. UNCHANGED <<pc, listVars, serviceVars, readVars, outcomeVars>>
  BY DEF vars
<1>2. ReadTyped'
  BY <1>1, ReadIsTyped DEF ReadTyped, ReadInv, serviceVars, readVars, listVars
<1>3. pc \in {"list", "page", "item", "done"} \union Reading /\ (pc = "done" => names = <<>>)
  BY DEF ScanInv, TypeOK, ListInv
<1> QED
  BY <1>1, <1>2, <1>3, FrameStep

LEMMA ScanStep == ScanInv /\ [Next]_vars => ScanInv'
BY EnvironmentStep, ProbeListStep, ReadPageStep, FinishStep, TakeItemStep, OpenStep,
   ProbeStep, QueryStep, StutterStep DEF Next, Collector

LEMMA ScanIsInvariant == Spec => []ScanInv
BY ScanInitially, ScanStep, PTL DEF Spec

\* ServicesScan!TypeOK: the states are of the declared types; what has been
\* read stays within the budget of the collector, and a read within its
\* limits of reads and tries.
THEOREM ServicesTyped == Spec => []TypeOK
BY ScanIsInvariant, PTL DEF ScanInv

-----------------------------------------------------------------------------
(***************************************************************************)
(* The outcome                                                             *)
(***************************************************************************)

LEMMA OutcomeValid == ScanInv => DocumentValid
<1> SUFFICES ASSUME ScanInv, pc = "done" PROVE Validates(Document)
  BY DEF DocumentValid
<1> DEFINE status == IF failed = "no" THEN "partial" ELSE failed
           cover == [scope |-> "win32", status |-> status]
           run == [id |-> "services", version |-> 1, status |-> status,
                   coverage |-> <<cover>>, diagnosed |-> {"win32"}]
           item(k) == [collector |-> "services", version |-> 1, scope |-> "win32",
                       name |-> found[k].name, datum |-> found[k].datum]
           obs == [k \in DOMAIN found |-> item(k)]
           doc == Document
<1>1. /\ doc.enabled = <<"services">> /\ doc.runs = <<run>> /\ doc.observations = obs
  BY DEF Document
<1>2. status \in {"partial", "failed", "permission_denied"} /\ (status # "partial" => found = <<>>)
  BY DEF ScanInv, TypeOK, ListInv
<1>3. found \in Seq(ServiceRecords) /\ \A i, j \in DOMAIN found : found[i].name = found[j].name => i = j
  BY DEF ScanInv, Listed, ListInv
<1> HIDE DEF status, doc
<1>4. /\ cover.scope = "win32" /\ cover.status = status
      /\ run.id = "services" /\ run.version = 1 /\ run.status = status
      /\ run.coverage = <<cover>> /\ run.diagnosed = {"win32"}
  OBVIOUS
<1> HIDE DEF cover, run
<1>5. /\ DOMAIN <<"services">> = {1} /\ DOMAIN <<run>> = {1} /\ DOMAIN <<cover>> = {1}
      /\ Len(<<cover>>) = 1 /\ <<cover>>[1] = cover /\ <<run>>[1] = run
      /\ Range(<<"services">>) = {"services"} /\ Range(<<run>>) = {run}
      /\ Range(<<cover>>) = {cover}
  BY DEF Range
<1>6. NoRepeats(doc.enabled, LAMBDA id : id) /\ NoRepeats(doc.runs, LAMBDA r : r.id)
  BY <1>1, <1>5 DEF NoRepeats, IsInjective
<1>7. RunValid(doc, run)
  <2>1. StatusConsistent(run)
    <3> DEFINE done == {k \in DOMAIN run.coverage : run.coverage[k].status = "complete"}
    <3>1. done = {}
      BY <1>2, <1>4, <1>5
    <3>2. DOMAIN run.coverage # {}
      BY <1>4, <1>5
    <3> QED
      BY <1>2, <1>4, <3>1, <3>2 DEF StatusConsistent
  <2>2. ScopesDistinct(run)
    BY <1>4, <1>5 DEF ScopesDistinct, NoRepeats, IsInjective
  <2>3. run.coverage # <<>>
    BY <1>4, <1>5
  <2>4. run.diagnosed \subseteq {c.scope : c \in Range(run.coverage)}
    BY <1>4, <1>5
  <2>5. run.version # 0 /\ run.id \in Range(doc.enabled)
    BY <1>1, <1>4, <1>5
  <2> QED
    BY <2>1, <2>2, <2>3, <2>4, <2>5 DEF RunValid
<1>8. CoverageOf(run, "win32") = 1
  <2> DEFINE I == {i \in 1 .. Len(run.coverage) : run.coverage[i].scope = "win32"}
  <2>1. I = {1}
    <3>1. 1 .. Len(run.coverage) = {1} /\ run.coverage[1].scope = "win32"
      BY <1>4, <1>5
    <3> QED
      BY <3>1
  <2>2. CoverageOf(run, "win32") = IF I # {} THEN Min(I) ELSE 0
    BY DEF CoverageOf, SelectInSeq
  <2>3. Min({1}) = 1
    <3>1. PICK n \in Nat : n = 1
      OBVIOUS
    <3>2. n \in 1 .. n
      BY <3>1
    <3>3. Min({n}) = n
      BY <3>2, OnlyOne
    <3> QED
      BY <3>1, <3>3
  <2> HIDE DEF I
  <2> QED
    BY <2>1, <2>2, <2>3
<1>9. \A o \in Range(obs) : ObservationValid(doc, o)
  <2> SUFFICES ASSUME NEW k \in DOMAIN found PROVE ObservationValid(doc, item(k))
    BY DEF Range
  <2>1. status = "partial"
    BY <1>2, <1>3
  <2>2. /\ run \in Range(doc.runs) /\ run.id = "services" /\ run.version = 1
        /\ run.status \in Readable /\ CoverageOf(run, "win32") # 0
        /\ run.coverage[CoverageOf(run, "win32")].status \in Readable
    BY <1>1, <1>4, <1>5, <1>8, <2>1 DEF Readable
  <2> QED
    BY <2>2 DEF ObservationValid
<1>10. NoRepeats(obs, KeyOf)
  <2> SUFFICES ASSUME NEW i \in DOMAIN found, NEW j \in DOMAIN found,
                      KeyOf(item(i)) = KeyOf(item(j))
               PROVE  i = j
    BY DEF NoRepeats, IsInjective
  <2>1. found[i].name = found[j].name
    BY DEF KeyOf
  <2> QED
    BY <1>3, <2>1
<1>11. Range(doc.enabled) \subseteq {r.id : r \in Range(doc.runs)}
  BY <1>1, <1>4, <1>5
<1>12. \A r \in Range(doc.runs) : RunValid(doc, r)
  BY <1>1, <1>5, <1>7
<1> HIDE DEF obs
<1>13. Validates(doc)
  BY <1>1, <1>6, <1>9, <1>10, <1>11, <1>12 DEF Validates
<1> QED
  BY <1>13 DEF doc

\* ServicesScan!DocumentValid: whatever the enumeration repeats, whatever the
\* reads find and however the collector fails, its run and observations form a
\* Snapshot that validate accepts.
THEOREM ServicesDocumentValid == Spec => []DocumentValid
BY ScanIsInvariant, OutcomeValid, PTL

\* ServicesScan!NothingDroppedSilently: a service that the enumeration returned
\* is an observation, is named by a diagnostic, or went at the limit, which the
\* run says.
THEOREM ServicesAccounted == Spec => []NothingDroppedSilently
<1>1. ScanInv => NothingDroppedSilently
  <2> SUFFICES ASSUME ScanInv, pc = "done", failed = "no", ~omitted
               PROVE  listed = diagnosed \union {o.name : o \in Range(found)}
    BY DEF NothingDroppedSilently
  <2>1. names = <<>> /\ Range(<<>>) = {}
    BY DEF ScanInv, ListInv, Range
  <2>2. listed = Range(names) \union diagnosed \union FoundNames
    BY DEF ScanInv, ListInv
  <2> QED
    BY <2>1, <2>2 DEF FoundNames
<1> QED
  BY <1>1, ScanIsInvariant, PTL

-----------------------------------------------------------------------------
(***************************************************************************)
(* A configuration that the service never had.  For such a d, and as long  *)
(* as the read has agreed with d so far, the number of changes is at least *)
(* what it takes to have shown the parts of d at the times of their reads: *)
(* one part cannot come before the others have gone.                       *)
(***************************************************************************)
Fits(d) == \A p \in DOMAIN bundle : bundle[p] = d[p]

FirstRead(d) ==
    /\ part = 2 => /\ config[1] # d[1] => changes >= 1
                   /\ config[2] = d[2] /\ config[3] = d[3] => changes >= 2
    /\ part = 3 => /\ config[3] = d[3] => changes >= 2
                   /\ config[1] # d[1] \/ config[2] # d[2] => changes >= 1

\* The read before was d, too.
SecondRead(d) ==
    /\ changes >= 2
    /\ part = 1 =>
        /\ config = None \/ config[3] # d[3] => changes >= 3
        /\ config # None /\ config[1] = d[1] /\ config[2] = d[2] => changes >= 4
    /\ part = 2 =>
        /\ config[1] # d[1] \/ config[3] # d[3] => changes >= 3
        /\ config[2] = d[2] => changes >= 4
    /\ part = 3 => changes >= 4

TornInv ==
    pc \in Reading /\ changes < MaxChanges =>
        \A d \in Configs \ held : Fits(d) => FirstRead(d) /\ (previous = d => SecondRead(d))

LEMMA SameConfig ==
  ASSUME NEW c \in Configs, NEW d \in Configs, c[1] = d[1], c[2] = d[2], c[3] = d[3]
  PROVE  c = d
<1>1. \A p \in 1 .. 3 : p = 1 \/ p = 2 \/ p = 3
  OBVIOUS
<1>2. \A p \in 1 .. 3 : c[p] = d[p]
  BY <1>1
<1> QED
  BY <1>2, ThreeParts DEF Configs

LEMMA TornInitially == Init => TornInv
BY DEF Init, TornInv, Reading

\* One change of the service.
LEMMA TornChanged ==
  ASSUME ScanInv, TornInv, pc \in Reading, NEW c \in Configs \union {None}, Changed(c),
         \/ pc = "open"
         \/ /\ c # None
            /\ \E p \in 1 .. 3 : \A q \in 1 .. 3 : q # p => c[q] = config[q],
         config # None /\ c # None => \E p \in 1 .. 3 : \A q \in 1 .. 3 : q # p => c[q] = config[q]
  PROVE  TornInv'
<1> SUFFICES ASSUME pc' \in Reading, changes' < MaxChanges,
                    NEW d \in (Configs \ held)', Fits(d)'
             PROVE  FirstRead(d)' /\ ((previous = d) => SecondRead(d))'
  BY DEF TornInv
<1>1. /\ config' = c /\ changes' = Smaller(changes + 1, MaxChanges)
      /\ held' = IF changes + 1 < MaxChanges THEN held \union ({c} \ {None}) ELSE {}
      /\ pc' = pc /\ part' = part /\ bundle' = bundle /\ previous' = previous
  BY DEF Changed, readVars
<1>2. changes \in Nat /\ MaxChanges \in Nat
  BY ServicesAssumption DEF ScanInv, TypeOK
<1>3. changes' = changes + 1 /\ changes + 1 < MaxChanges /\ changes < MaxChanges
  BY <1>1, <1>2 DEF Smaller
<1>4. d \in Configs \ held /\ d # c
  BY <1>1, <1>3, NoneIsNoConfig
<1>5. FirstRead(d) /\ (previous = d => SecondRead(d))
  <2>1. Fits(d)
    BY <1>1 DEF Fits
  <2> QED
    BY <1>3, <1>4, <2>1 DEF TornInv
<1>6. part \in 1 .. 3 /\ (pc = "open" => part = 1) /\ (pc # "open" => config # None /\ c # None)
  BY ThreeParts DEF ScanInv, TypeOK, ReadInv, Reading
<1>7. c # None => c[1] # d[1] \/ c[2] # d[2] \/ c[3] # d[3]
  BY <1>4, SameConfig
<1>8. config # None /\ c # None =>
        \/ c[1] = config[1] /\ c[2] = config[2]
        \/ c[1] = config[1] /\ c[3] = config[3]
        \/ c[2] = config[2] /\ c[3] = config[3]
  OBVIOUS
<1>9. FirstRead(d)'
  BY <1>1, <1>2, <1>3, <1>5, <1>6, <1>7, <1>8 DEF FirstRead
<1>10. ASSUME previous' = d
       PROVE  SecondRead(d)'
  BY <1>1, <1>2, <1>3, <1>5, <1>6, <1>7, <1>8, <1>10 DEF SecondRead
<1> QED
  BY <1>9, <1>10

LEMMA TornEnvironment == ScanInv /\ TornInv /\ Environment => TornInv'
<1> SUFFICES ASSUME ScanInv, TornInv, Environment PROVE TornInv'
  OBVIOUS
<1>1. CASE Reconfigure
  <2>0. PICK p \in DOMAIN Parts : \E v \in Values[p] \ {config[p]} : Changed([config EXCEPT ![p] = v])
    BY <1>1 DEF Reconfigure
  <2>1. PICK v \in Values[p] : Changed([config EXCEPT ![p] = v])
    BY <2>0
  <2>2. config \in Configs /\ pc \in Reading
    BY <1>1 DEF Reconfigure, ScanInv, TypeOK
  <2> DEFINE c == [config EXCEPT ![p] = v]
  <2>3. c \in Configs
    BY <2>2, ThreeParts DEF Configs, Range
  <2>4. c # None
    BY <2>3, NoneIsNoConfig
  <2>5. p \in 1 .. 3 /\ \A q \in 1 .. 3 : q # p => c[q] = config[q]
    BY <2>2, ThreeParts DEF Configs
  <2>6. Changed(c)
    BY <2>1
  <2> HIDE DEF c
  <2> QED
    BY <2>2, <2>3, <2>4, <2>5, <2>6, TornChanged
<1>2. CASE Delete
  BY <1>2, TornChanged DEF Delete, Reading
<1>3. CASE Create
  <2>1. PICK c \in Configs : Changed(c)
    BY <1>3 DEF Create
  <2>2. pc = "open" /\ pc \in Reading /\ config = None
    BY <1>3 DEF Create, Reading, ScanInv, ReadInv
  <2> QED
    BY <2>1, <2>2, TornChanged
<1> QED
  BY <1>1, <1>2, <1>3 DEF Environment

\* A call that changes neither the parts of the read nor the service.
LEMMA TornFrame ==
  ASSUME TornInv, UNCHANGED <<serviceVars, part, bundle, previous>>, pc \in Reading
  PROVE  TornInv'
<1>1. /\ config' = config /\ held' = held /\ changes' = changes
      /\ part' = part /\ bundle' = bundle /\ previous' = previous
  BY DEF serviceVars
<1> QED
  BY <1>1 DEF TornInv, Fits, FirstRead, SecondRead

LEMMA TornNotReading == pc' \notin Reading => TornInv'
BY DEF TornInv

LEMMA TornDropped ==
  ASSUME Drop
  PROVE  TornInv'
BY TornNotReading DEF Drop, Reading

\* A read that is complete and fits a configuration the service never had.
LEMMA TornRead ==
  ASSUME ScanInv, TornInv, pc = "query", part = 3, changes < MaxChanges,
         NEW d \in Configs \ held, d = Append(bundle, config[part])
  PROVE  /\ changes >= 2 /\ config \in Configs /\ config # d /\ config[3] = d[3]
         /\ previous = d => changes >= 4
<1>1. Fits(d) /\ config[3] = d[3]
  BY NextPart DEF Fits
<1>2. pc \in Reading
  BY DEF Reading
<1>3. FirstRead(d) /\ (previous = d => SecondRead(d))
  BY <1>1, <1>2 DEF TornInv
<1>4. config \in Configs
  BY PartHasSize
<1>5. config \in held
  BY <1>2, <1>4, NoneIsNoConfig, ServicesAssumption DEF ScanInv, TypeOK
<1> QED
  BY <1>1, <1>3, <1>4, <1>5 DEF FirstRead, SecondRead

LEMMA TornQuery == ScanInv /\ TornInv /\ Query => TornInv'
<1> SUFFICES ASSUME ScanInv, TornInv, Query PROVE TornInv'
  OBVIOUS
<1>1. pc = "query" /\ pc \in Reading
  BY DEF Query, Reading
<1>2. changes \in Nat /\ MaxChanges \in Nat
  BY ServicesAssumption DEF ScanInv, TypeOK
<1>3. ASSUME part < Len(Parts), bundle' = Append(bundle, config[part]),
             part' = part + 1, need' = 0, tries' = 0, pc' = "probe",
             UNCHANGED <<listVars, serviceVars, reads, previous, outcomeVars>>
      PROVE  TornInv'
  <2> SUFFICES ASSUME changes' < MaxChanges, NEW d \in (Configs \ held)', Fits(d)'
               PROVE  FirstRead(d)' /\ ((previous = d) => SecondRead(d))'
    BY DEF TornInv
  <2>1. config' = config /\ held' = held /\ changes' = changes /\ previous' = previous
    BY <1>3 DEF serviceVars
  <2>2. /\ part \in 1 .. 2 /\ DOMAIN bundle = 1 .. part - 1 /\ DOMAIN bundle' = 1 .. part
        /\ (\A p \in DOMAIN bundle : bundle'[p] = bundle[p]) /\ bundle'[part] = config[part]
    BY <1>1, <1>3, NextPart, PartHasSize, ThreeParts
  <2>3. \A p \in 1 .. part - 1 : p \in 1 .. part
    BY <2>2
  <2>4. Fits(d) /\ config[part] = d[part]
    BY <2>2, <2>3 DEF Fits
  <2>5. FirstRead(d) /\ (previous = d => SecondRead(d))
    BY <1>1, <2>1, <2>4 DEF TornInv
  <2>6. config \in Configs /\ config # d
    <3>1. config \in Configs
      BY <1>1, PartHasSize
    <3>2. config \in held
      BY <1>1, <2>1, <3>1, NoneIsNoConfig, <1>2 DEF ScanInv, TypeOK
    <3> QED
      BY <2>1, <3>1, <3>2
  <2>7. config[1] # d[1] \/ config[2] # d[2] \/ config[3] # d[3]
    BY <2>1, <2>6, SameConfig
  <2>8. part = 2 => config[2] = d[2]
    BY <2>4
  <2>9. part = 1 => config[1] = d[1]
    BY <2>4
  <2>10. config # None
    BY <2>6, NoneIsNoConfig
  <2>11. FirstRead(d)'
    BY <1>2, <1>3, <2>1, <2>2, <2>5, <2>7, <2>8, <2>9 DEF FirstRead
  <2>12. ASSUME previous' = d
         PROVE  SecondRead(d)'
    BY <1>2, <1>3, <2>1, <2>2, <2>5, <2>7, <2>8, <2>9, <2>10, <2>12 DEF SecondRead
  <2> QED
    BY <2>11, <2>12
<1>4. ASSUME part = Len(Parts), EndRead(Append(bundle, config[part]))
      PROVE  TornInv'
  <2> DEFINE c == Append(bundle, config[part])
  <2>1. part = 3
    BY <1>4, ThreeParts
  <2>2. c \in Configs
    BY <1>1, <2>1, NextPart, BundleIsConfig
  <2>3. CASE ReadAgain(c)
    <3> SUFFICES ASSUME changes' < MaxChanges, NEW d \in (Configs \ held)', Fits(d)'
                 PROVE  FirstRead(d)' /\ ((previous = d) => SecondRead(d))'
      BY DEF TornInv
    <3>1. /\ config' = config /\ held' = held /\ changes' = changes /\ previous' = c /\ part' = 1
      BY <2>3 DEF ReadAgain, serviceVars
    <3>2. FirstRead(d)'
      BY <3>1 DEF FirstRead
    <3>3. ASSUME d = c
          PROVE  SecondRead(d)'
      <4>1. changes >= 2 /\ config \in Configs /\ config # d /\ config[3] = d[3]
        BY <1>1, <2>1, <3>1, <3>3, TornRead
      <4>2. config # None /\ (config[1] # d[1] \/ config[2] # d[2])
        BY <3>1, <4>1, SameConfig, NoneIsNoConfig
      <4> QED
        BY <1>2, <3>1, <4>1, <4>2 DEF SecondRead
    <3> QED
      BY <3>1, <3>2, <3>3
  <2>4. CASE Drop \/ Emit(c)
    BY <2>4, TornDropped, TornNotReading DEF Emit, Reading
  <2> QED
    BY <1>4, <2>3, <2>4 DEF EndRead
<1>5. ASSUME UNCHANGED <<pc, listVars, serviceVars, reads, part, bundle, previous, outcomeVars>>
      PROVE  TornInv'
  BY <1>1, <1>5, TornFrame
<1>6. CASE Drop
  BY <1>6, TornDropped
<1> QED
  BY <1>3, <1>4, <1>5, <1>6 DEF Query

LEMMA TornStep == ScanInv /\ TornInv /\ [Next]_vars => TornInv'
<1> SUFFICES ASSUME ScanInv, TornInv, [Next]_vars PROVE TornInv'
  OBVIOUS
<1>1. CASE Environment
  BY <1>1, TornEnvironment
<1>2. CASE ProbeList \/ ReadPage \/ Finish
  BY <1>2, TornNotReading DEF ProbeList, ReadPage, Finish, Fail, Reading
<1>3. CASE TakeItem
  <2>1. CASE Drop
    BY <2>1, TornDropped
  <2>2. CASE ~Drop
    <3>1. part = 1 /\ previous = None
      BY <1>3 DEF TakeItem, ScanInv, ReadInv, Reading
    <3>2. part' = 1 /\ previous' = None
      BY <1>3, <2>2, <3>1 DEF TakeItem, readVars
    <3> QED
      BY <3>2, NoneIsNoConfig DEF TornInv, FirstRead
  <2> QED
    BY <2>1, <2>2
<1>4. CASE Open
  <2>1. CASE Drop
    BY <2>1, TornDropped
  <2>2. CASE ~Drop
    BY <1>4, <2>2, TornFrame DEF Open, readVars, Reading
  <2> QED
    BY <2>1, <2>2
<1>5. CASE Probe
  <2>1. CASE Drop
    BY <2>1, TornDropped
  <2>2. CASE ~Drop
    BY <1>5, <2>2, TornFrame DEF Probe, Reading
  <2> QED
    BY <2>1, <2>2
<1>6. CASE Query
  BY <1>6, TornQuery
<1>7. CASE UNCHANGED vars
  BY <1>7 DEF TornInv, Fits, FirstRead, SecondRead, vars, serviceVars, readVars
<1> QED
  BY <1>1, <1>2, <1>3, <1>4, <1>5, <1>6, <1>7 DEF Next, Collector

\* ServicesScan!TornNeedsFourChanges: two equal reads, each in three parts, do
\* not make an observation atomic, but one that the service never had takes
\* four changes to the service within these reads.  The changes must be
\* counted that far.
THEOREM TornTakesFourChanges ==
  ASSUME MaxChanges >= 4
  PROVE  Spec => TornNeedsFourChanges
<1>1. ASSUME ScanInv, TornInv, [Next]_vars, found' # found, changes < 4
      PROVE  Last(found').datum \in held
  <2>1. ~UNCHANGED outcomeVars /\ ~Drop
    BY <1>1 DEF outcomeVars, Drop
  <2>2. ~Environment /\ ~ProbeList /\ ~ReadPage /\ ~Finish /\ ~TakeItem /\ ~Open /\ ~Probe
    BY <1>1, <2>1 DEF Environment, Reconfigure, Delete, Create, Changed, ProbeList, ReadPage, Fail,
                      Finish, TakeItem, Open, Probe
  <2>3. Query
    BY <1>1, <2>1, <2>2 DEF Next, Collector, vars
  <2> DEFINE c == Append(bundle, config[part])
  <2>4. pc = "query" /\ part = Len(Parts) /\ EndRead(c)
    BY <2>1, <2>3 DEF Query
  <2>5. c = previous /\ Emit(c)
    BY <2>1, <2>4 DEF EndRead, ReadAgain
  <2>6. found' = Append(found, [name |-> Head(names), datum |-> c])
    BY <2>1, <2>5 DEF Emit
  <2>7. part = 3
    BY <2>4, ThreeParts
  <2>8. c \in Configs
    BY <1>1, <2>4, <2>7, NextPart, BundleIsConfig
  <2>9. changes \in Nat /\ MaxChanges \in Nat /\ changes < MaxChanges
    BY <1>1, ServicesAssumption DEF ScanInv, TypeOK
  <2>10. ASSUME c \notin held
         PROVE  FALSE
    BY <1>1, <2>4, <2>5, <2>7, <2>8, <2>9, <2>10, TornRead
  <2> HIDE DEF c
  <2>11. Last(found') = [name |-> Head(names), datum |-> c]
    <3> DEFINE r == [name |-> Head(names), datum |-> c]
    <3>1. found \in Seq(ServiceRecords)
      BY <1>1 DEF ScanInv, Listed
    <3>2. r \in ServiceRecords
      BY <1>1, <2>4, <2>8 DEF ServiceRecords, ScanInv, TypeOK, Listed, Reading
    <3>3. found' = Append(found, r)
      BY <2>6
    <3> HIDE DEF r
    <3>4. Last(found') = r
      BY <3>1, <3>2, <3>3 DEF Last
    <3> QED
      BY <3>4 DEF r
  <2> QED
    BY <2>10, <2>11
<1>2. ScanInv /\ TornInv /\ [Next]_vars => [found' # found /\ changes < 4 => Last(found').datum \in held]_vars
  BY <1>1
<1>3. Spec => []TornInv
  BY ScanIsInvariant, TornInitially, TornStep, PTL DEF Spec
<1> QED
  BY <1>2, <1>3, ScanIsInvariant, PTL DEF Spec, TornNeedsFourChanges
=============================================================================
