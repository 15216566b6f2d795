-------------------------- MODULE ComparisonProofs ---------------------------
(***************************************************************************)
(* What the operators of SnapshotDiff do, and what DiffCall, the views of  *)
(* its result and the comparison of two captures promise, for documents    *)
(* with any number of runs, scopes and observations.  Repeated lines of a  *)
(* document are read in two ways, the first by scope_status and the last   *)
(* by the indexes of the diff; that validate refuses repetitions is what   *)
(* the lemmas about documents rest on.                                     *)
(***************************************************************************)
EXTENDS ResultViews, CaptureCompare, SequenceProofs

-----------------------------------------------------------------------------
(***************************************************************************)
(* The indexes of an accepted document                                     *)
(***************************************************************************)

\* Lists are lists, and an artifact is there: the shape that decoding a document
\* or making one gives it.
Shaped(doc) ==
    /\ doc.runs \in Seq(Range(doc.runs))
    /\ \A run \in Range(doc.runs) : run.coverage \in Seq(Range(run.coverage))
    /\ doc.observations \in Seq(Range(doc.observations))
    /\ \A o \in Range(doc.observations) : o.datum # Absent

\* A document that validate has accepted.
Accepted(doc) == Shaped(doc) /\ Validates(doc)

LEMMA RunIndex ==
  ASSUME NEW doc, Accepted(doc), NEW r \in DOMAIN doc.runs
  PROVE  /\ Len(doc.runs) \in Nat /\ DOMAIN doc.runs = 1 .. Len(doc.runs)
         /\ {i \in 1 .. Len(doc.runs) : doc.runs[i].id = doc.runs[r].id} = {r}
<1>1. Len(doc.runs) \in Nat /\ DOMAIN doc.runs = 1 .. Len(doc.runs)
  BY LenProperties DEF Accepted, Shaped
<1>2. \A i, j \in DOMAIN doc.runs : doc.runs[i].id = doc.runs[j].id => i = j
  BY DEF Accepted, Validates, NoRepeats, IsInjective
<1> QED
  BY <1>1, <1>2

LEMMA CoverageEntry ==
  ASSUME NEW doc, Accepted(doc), NEW r \in DOMAIN doc.runs,
         NEW c \in DOMAIN doc.runs[r].coverage
  PROVE  LET cov == doc.runs[r].coverage
         IN  /\ Len(cov) \in Nat /\ DOMAIN cov = 1 .. Len(cov)
             /\ {i \in 1 .. Len(cov) : cov[i].scope = cov[c].scope} = {c}
<1> DEFINE cov == doc.runs[r].coverage
<1>0. doc.runs[r] \in Range(doc.runs)
  BY DEF Range
<1>1. Len(cov) \in Nat /\ DOMAIN cov = 1 .. Len(cov)
  BY <1>0, LenProperties DEF Accepted, Shaped
<1>2. ScopesDistinct(doc.runs[r])
  BY <1>0 DEF Accepted, Validates, RunValid
<1>3. \A i, j \in DOMAIN cov : cov[i].scope = cov[j].scope => i = j
  BY <1>2 DEF ScopesDistinct, NoRepeats, IsInjective
<1> QED
  BY <1>1, <1>3

\* The versions by collector are those of the runs.
LEMMA VersionOfRun ==
  ASSUME NEW doc, Accepted(doc), NEW run \in Range(doc.runs)
  PROVE  run.id \in DOMAIN Versions(doc) /\ Versions(doc)[run.id] = run.version
<1>1. PICK r \in DOMAIN doc.runs : run = doc.runs[r]
  BY DEF Range
<1> DEFINE S == {i \in 1 .. Len(doc.runs) : doc.runs[i].id = run.id}
<1>2. Len(doc.runs) \in Nat /\ r \in 1 .. Len(doc.runs) /\ S = {r}
  BY <1>1, RunIndex
<1>3. Max(S) = r
  BY <1>2, OnlyOne
<1>4. LastWith(doc.runs, LAMBDA x : x.id = run.id) = r
  BY <1>2, <1>3 DEF LastWith, SelectLastInSeq
<1>5. run.id \in DOMAIN Versions(doc)
  BY DEF Versions
<1>6. Versions(doc)[run.id] = doc.runs[LastWith(doc.runs, LAMBDA x : x.id = run.id)].version
  BY <1>5 DEF Versions
<1> QED
  BY <1>1, <1>4, <1>5, <1>6

\* The artifact by key is that of the observation.
LEMMA DatumOfObservation ==
  ASSUME NEW doc, Accepted(doc), NEW o \in Range(doc.observations)
  PROVE  KeyOf(o) \in DOMAIN Index(doc) /\ Lookup(doc, KeyOf(o)) = o.datum
<1> DEFINE obs == doc.observations
           S == {i \in 1 .. Len(obs) : KeyOf(obs[i]) = KeyOf(o)}
<1>1. PICK k \in DOMAIN obs : o = obs[k]
  BY DEF Range
<1>2. Len(obs) \in Nat /\ DOMAIN obs = 1 .. Len(obs)
  BY LenProperties DEF Accepted, Shaped
<1>3. \A i, j \in DOMAIN obs : KeyOf(obs[i]) = KeyOf(obs[j]) => i = j
  BY DEF Accepted, Validates, NoRepeats, IsInjective
<1>4. S = {k}
  BY <1>1, <1>2, <1>3
<1>5. Max(S) = k
  BY <1>2, <1>4, OnlyOne
<1>6. LastWith(obs, LAMBDA x : KeyOf(x) = KeyOf(o)) = k
  BY <1>4, <1>5 DEF LastWith, SelectLastInSeq
<1>7. KeyOf(o) \in DOMAIN Index(doc)
  BY DEF Index
<1>8. Index(doc)[KeyOf(o)] = obs[LastWith(obs, LAMBDA x : KeyOf(x) = KeyOf(o))].datum
  BY <1>7 DEF Index
<1> QED
  BY <1>1, <1>6, <1>7, <1>8 DEF Lookup

\* A key without an artifact is the key of no observation.
LEMMA AbsentKey ==
  ASSUME NEW doc, Accepted(doc), NEW key
  PROVE  /\ Lookup(doc, key) # Absent => \E o \in Range(doc.observations) : KeyOf(o) = key
         /\ key \in DOMAIN Index(doc) => Lookup(doc, key) # Absent
<1>1. key \in DOMAIN Index(doc) => \E o \in Range(doc.observations) : KeyOf(o) = key
  BY DEF Index
<1>2. \A o \in Range(doc.observations) : o.datum # Absent
  BY DEF Accepted, Shaped
<1> QED
  BY <1>1, <1>2, DatumOfObservation DEF Lookup

\* The two lookups of a scope's coverage, where the document has an entry for it.
LEMMA CoverageFound ==
  ASSUME NEW doc, Accepted(doc), NEW r \in DOMAIN doc.runs,
         NEW c \in DOMAIN doc.runs[r].coverage, NEW key,
         key[1] = doc.runs[r].id, key[2] = doc.runs[r].coverage[c].scope
  PROVE  LET status == Effective(doc.runs[r], doc.runs[r].coverage[c].status)
         IN  /\ ScopeStatus(doc, key) = status
             /\ <<key[1], key[2]>> \in DOMAIN CoverageIndex(doc)
             /\ CoverageIndex(doc)[<<key[1], key[2]>>] = status
             /\ CoverageOf(doc.runs[r], key[2]) = c
<1> DEFINE run == doc.runs[r]
           cov == run.coverage
           at == <<key[1], key[2]>>
           status == Effective(run, cov[c].status)
<1>1. /\ Len(doc.runs) \in Nat /\ r \in 1 .. Len(doc.runs)
      /\ {i \in 1 .. Len(doc.runs) : doc.runs[i].id = key[1]} = {r}
  BY RunIndex
<1>2. /\ Len(cov) \in Nat /\ c \in 1 .. Len(cov)
      /\ {i \in 1 .. Len(cov) : cov[i].scope = key[2]} = {c}
  BY CoverageEntry
<1>3. SelectInSeq(doc.runs, LAMBDA x : x.id = key[1]) = r
  BY <1>1, OnlyOne DEF SelectInSeq
<1>4. CoverageOf(run, key[2]) = c
  BY <1>2, OnlyOne DEF CoverageOf, SelectInSeq
<1>5. r # 0 /\ c # 0
  BY <1>1, <1>2
<1>6. ScopeStatus(doc, key) = status
  BY <1>3, <1>4, <1>5 DEF ScopeStatus
<1>7. at[1] = key[1] /\ at[2] = key[2]
  OBVIOUS
<1>8. LastWith(cov, LAMBDA x : x.scope = at[2]) = c
  BY <1>2, <1>7, OnlyOne DEF LastWith, SelectLastInSeq
<1>9. \E x \in Range(cov) : x.scope = at[2]
  BY <1>7 DEF Range
<1>10. {i \in 1 .. Len(doc.runs) :
          doc.runs[i].id = at[1] /\ \E x \in Range(doc.runs[i].coverage) : x.scope = at[2]} = {r}
  BY <1>1, <1>7, <1>9
<1>11. LastWith(doc.runs,
         LAMBDA x : x.id = at[1] /\ \E y \in Range(x.coverage) : y.scope = at[2]) = r
  BY <1>1, <1>10, OnlyOne DEF LastWith, SelectLastInSeq
<1>12. at \in DOMAIN CoverageIndex(doc)
  <2>1. run \in Range(doc.runs) /\ cov[c] \in Range(cov)
    BY DEF Range
  <2> QED
    BY <2>1 DEF CoverageIndex
<1>13. CoverageIndex(doc)[at] = status
  BY <1>8, <1>11, <1>12 DEF CoverageIndex
<1> QED
  BY <1>4, <1>6, <1>12, <1>13

\* Where it has none, both lookups fail.
LEMMA CoverageMissing ==
  ASSUME NEW doc, Accepted(doc), NEW key,
         \A r \in DOMAIN doc.runs : \A c \in DOMAIN doc.runs[r].coverage :
            ~(key[1] = doc.runs[r].id /\ key[2] = doc.runs[r].coverage[c].scope)
  PROVE  ScopeStatus(doc, key) = "none" /\ <<key[1], key[2]>> \notin DOMAIN CoverageIndex(doc)
<1>1. <<key[1], key[2]>> \notin DOMAIN CoverageIndex(doc)
  BY DEF CoverageIndex, Range
<1> DEFINE r == SelectInSeq(doc.runs, LAMBDA x : x.id = key[1])
<1>2. CASE r = 0
  BY <1>1, <1>2 DEF ScopeStatus
<1>3. CASE r # 0
  <2> DEFINE R == {i \in 1 .. Len(doc.runs) : doc.runs[i].id = key[1]}
  <2>1. R # {} /\ r = Min(R)
    BY <1>3 DEF SelectInSeq
  <2>2. R \in SUBSET Nat
    OBVIOUS
  <2>3. r \in R
    BY <2>1, <2>2, MinIsLeast
  <2>4. r \in DOMAIN doc.runs /\ doc.runs[r].id = key[1]
    <3>1. DOMAIN doc.runs = 1 .. Len(doc.runs)
      BY LenProperties DEF Accepted, Shaped
    <3> QED
      BY <2>3, <3>1
  <2>5. DOMAIN doc.runs[r].coverage = 1 .. Len(doc.runs[r].coverage)
    <3>1. doc.runs[r] \in Range(doc.runs)
      BY <2>4 DEF Range
    <3> QED
      BY <3>1, LenProperties DEF Accepted, Shaped
  <2>6. {i \in 1 .. Len(doc.runs[r].coverage) : doc.runs[r].coverage[i].scope = key[2]} = {}
    BY <2>4, <2>5
  <2>7. CoverageOf(doc.runs[r], key[2]) = 0
    BY <2>6 DEF CoverageOf, SelectInSeq
  <2> QED
    BY <1>1, <2>7 DEF ScopeStatus
<1> QED
  BY <1>2, <1>3

\* So the two lookups agree on which scopes are complete.
LEMMA LookupsAgree ==
  ASSUME NEW doc, Accepted(doc), NEW key
  PROVE  LET at == <<key[1], key[2]>>
         IN  ScopeStatus(doc, key) = "complete"
                <=> at \in DOMAIN CoverageIndex(doc) /\ CoverageIndex(doc)[at] = "complete"
<1>1. CASE \E r \in DOMAIN doc.runs : \E c \in DOMAIN doc.runs[r].coverage :
             key[1] = doc.runs[r].id /\ key[2] = doc.runs[r].coverage[c].scope
  BY <1>1, CoverageFound
<1>2. CASE ~ \E r \in DOMAIN doc.runs : \E c \in DOMAIN doc.runs[r].coverage :
             key[1] = doc.runs[r].id /\ key[2] = doc.runs[r].coverage[c].scope
  BY <1>2, CoverageMissing
<1> QED
  BY <1>1, <1>2

\* A scope is complete where the run is readable and the entry complete.
LEMMA CompleteScope ==
  ASSUME NEW doc, Accepted(doc), NEW r \in DOMAIN doc.runs,
         NEW c \in DOMAIN doc.runs[r].coverage, NEW key,
         key[1] = doc.runs[r].id, key[2] = doc.runs[r].coverage[c].scope
  PROVE  ScopeStatus(doc, key) = "complete"
            <=> Effective(doc.runs[r], doc.runs[r].coverage[c].status) = "complete"
<1> DEFINE at == <<key[1], key[2]>>
<1>1. /\ at \in DOMAIN CoverageIndex(doc)
      /\ CoverageIndex(doc)[at] = Effective(doc.runs[r], doc.runs[r].coverage[c].status)
  BY CoverageFound
<1>2. ScopeStatus(doc, key) = "complete"
        <=> at \in DOMAIN CoverageIndex(doc) /\ CoverageIndex(doc)[at] = "complete"
  BY LookupsAgree
<1> QED
  BY <1>1, <1>2

\* Every observation has coverage.
LEMMA ObservationCovered ==
  ASSUME NEW doc, Accepted(doc), NEW o \in Range(doc.observations)
  PROVE  <<KeyOf(o)[1], KeyOf(o)[2]>> \in DOMAIN CoverageIndex(doc)
<1>1. PICK run \in Range(doc.runs) : run.id = o.collector /\ CoverageOf(run, o.scope) # 0
  BY DEF Accepted, Validates, ObservationValid
<1>2. PICK r \in DOMAIN doc.runs : run = doc.runs[r]
  BY DEF Range
<1> DEFINE C == {i \in 1 .. Len(run.coverage) : run.coverage[i].scope = o.scope}
<1>3. C # {}
  BY <1>1 DEF CoverageOf, SelectInSeq
<1>4. PICK c \in 1 .. Len(run.coverage) : run.coverage[c].scope = o.scope
  BY <1>3
<1>5. c \in DOMAIN run.coverage
  BY <1>4, LenProperties DEF Accepted, Shaped
<1>6. KeyOf(o)[1] = doc.runs[r].id /\ KeyOf(o)[2] = doc.runs[r].coverage[c].scope
  BY <1>1, <1>2, <1>4 DEF KeyOf
<1> QED
  BY <1>2, <1>5, <1>6, CoverageFound

-----------------------------------------------------------------------------
(***************************************************************************)
(* The changes and the warnings                                            *)
(***************************************************************************)

LEMMA ChangesTyped ==
  ASSUME NEW old, NEW new, NEW c \in Changes(old, new)
  PROVE  c.change \in {"added", "removed", "modified", "inconclusive"}
<1>1. PICK key : c.change = Classify(Lookup(old, key), Lookup(new, key),
                                    CoverageComplete(old, new, key))
  BY DEF Changes
<1> DEFINE complete == CoverageComplete(old, new, key)
<1>2. complete \in BOOLEAN
  BY DEF CoverageComplete
<1>3. \A b, a : Classify(b, a, complete) \in {"added", "removed", "modified", "inconclusive"}
  BY <1>2 DEF Classify
<1> QED
  BY <1>1, <1>3

\* The change of a key with two lookups that differ is the only one of that
\* key; a key with equal lookups has none.
LEMMA ChangeOfKey ==
  ASSUME NEW old, NEW new, NEW key
  PROVE  LET named == {c \in Changes(old, new) : c.key = key}
         IN  /\ Lookup(old, key) = Lookup(new, key) => named = {}
             /\ key \in Keys(old, new) /\ Lookup(old, key) # Lookup(new, key) =>
                    \E c \in named :
                        named = {c} /\ c.before = Lookup(old, key) /\ c.after = Lookup(new, key)
<1> DEFINE ChangeAt(k) ==
             [key |-> k, before |-> Lookup(old, k), after |-> Lookup(new, k),
              change |-> Classify(Lookup(old, k), Lookup(new, k), CoverageComplete(old, new, k))]
           D == {k \in Keys(old, new) : Lookup(old, k) # Lookup(new, k)}
<1>1. Changes(old, new) = {ChangeAt(k) : k \in D}
  BY DEF Changes
<1>2. \A k : ChangeAt(k).key = k
  OBVIOUS
<1>3. \A c \in Changes(old, new) : c.key = key => key \in D /\ c = ChangeAt(key)
  <2> HIDE DEF ChangeAt, D
  <2> QED
    BY <1>1, <1>2
<1>4. key \in D => ChangeAt(key) \in Changes(old, new)
  <2> HIDE DEF ChangeAt, D
  <2> QED
    BY <1>1
<1>5. ChangeAt(key).before = Lookup(old, key) /\ ChangeAt(key).after = Lookup(new, key)
  OBVIOUS
<1>6. CASE key \in D
  <2> HIDE DEF ChangeAt
  <2> QED
    BY <1>2, <1>3, <1>4, <1>5, <1>6
<1>7. CASE key \notin D
  <2>1. {c \in Changes(old, new) : c.key = key} = {}
    BY <1>3, <1>7
  <2> QED
    BY <1>7, <2>1
<1> QED
  BY <1>6, <1>7

\* A scope has no warning exactly if it is complete in both documents, or
\* known to neither.
LEMMA WarningOfScope ==
  ASSUME NEW old, Accepted(old), NEW new, Accepted(new), NEW key,
         <<key[1], key[2]>> \in DOMAIN CoverageIndex(old) \union DOMAIN CoverageIndex(new)
  PROVE  <<key[1], key[2]>> \notin Warnings(old, new) <=> CoverageComplete(old, new, key)
<1> DEFINE at == <<key[1], key[2]>>
           complete(doc) == {x \in DOMAIN CoverageIndex(doc) : CoverageIndex(doc)[x] = "complete"}
<1>1. at \in complete(old) <=> ScopeStatus(old, key) = "complete"
  BY LookupsAgree
<1>2. at \in complete(new) <=> ScopeStatus(new, key) = "complete"
  BY LookupsAgree
<1> QED
  BY <1>1, <1>2 DEF Warnings, CoverageComplete

-----------------------------------------------------------------------------
(***************************************************************************)
(* The call                                                                *)
(***************************************************************************)

\* A call gets past its checks with accepted documents only, and what it
\* returns is computed from them.
CallInv ==
    /\ TypeOK
    /\ before \in Documents
    /\ pc # "before" /\ pc # "invalid_before" => after \in Documents
    /\ pc \in {"after", "versions", "compared"} => Validates(before)
    /\ pc \in {"versions", "compared"} => Validates(after)
    /\ Compared => /\ Compatible(before, after)
                   /\ changes = Changes(before, after)
                   /\ warnings = Warnings(before, after)

LEMMA CallInit == Init => CallInv
BY DEF Init, CallInv, TypeOK, Compared

LEMMA CallNext == CallInv /\ [Next]_vars => CallInv'
<1> SUFFICES ASSUME CallInv, [Next]_vars PROVE CallInv'
  OBVIOUS
<1>1. CASE ValidateBefore
  BY <1>1 DEF ValidateBefore, CallInv, TypeOK, Compared
<1>2. CASE ValidateAfter
  BY <1>2 DEF ValidateAfter, CallInv, TypeOK, Compared
<1>3. CASE Compare
  <2>1. \A c \in changes' : c.change \in {"added", "removed", "modified", "inconclusive"}
    BY <1>3, ChangesTyped DEF Compare, CallInv, TypeOK
  <2> QED
    BY <1>3, <2>1 DEF Compare, CallInv, TypeOK, Compared
<1>4. CASE UNCHANGED vars
  BY <1>4 DEF vars, CallInv, TypeOK, Compared
<1> QED
  BY <1>1, <1>2, <1>3, <1>4 DEF Next

LEMMA ComparedAccepted ==
  ASSUME CallInv, Compared
  PROVE  Accepted(before) /\ Accepted(after)
BY DocumentsAssumption DEF CallInv, Compared, Accepted, Shaped

\* Every reachable state has the declared types: a change is one of four kinds.
THEOREM CallTyped == Spec => []TypeOK
<1>1. CallInv => TypeOK
  BY DEF CallInv
<1> QED
  BY <1>1, CallInit, CallNext, PTL DEF Spec

-----------------------------------------------------------------------------
(***************************************************************************)
(* Evidence                                                                *)
(***************************************************************************)

\* No evidence of an accepted document is lost in a comparison, however many
\* observations there are: each is in exactly one change or in both documents.
THEOREM EvidenceIsAccounted == Spec => []EvidenceAccounted
<1>1. CallInv => EvidenceAccounted
  <2> SUFFICES ASSUME CallInv, Compared, NEW doc \in {before, after},
                      NEW o \in Range(doc.observations)
               PROVE  LET named == {c \in changes : c.key = KeyOf(o)}
                      IN  IF Lookup(before, KeyOf(o)) = Lookup(after, KeyOf(o))
                          THEN named = {} /\ o.datum = Lookup(before, KeyOf(o))
                          ELSE \E c \in named :
                                /\ named = {c}
                                /\ o.datum = IF doc = before THEN c.before ELSE c.after
    BY DEF EvidenceAccounted
  <2>1. changes = Changes(before, after)
    BY DEF CallInv
  <2>2. Lookup(doc, KeyOf(o)) = o.datum /\ KeyOf(o) \in DOMAIN Index(doc)
    BY ComparedAccepted, DatumOfObservation
  <2>3. KeyOf(o) \in Keys(before, after)
    BY <2>2 DEF Keys
  <2>4. CASE Lookup(before, KeyOf(o)) = Lookup(after, KeyOf(o))
    BY <2>1, <2>2, <2>4, ChangeOfKey
  <2>5. CASE Lookup(before, KeyOf(o)) # Lookup(after, KeyOf(o))
    BY <2>1, <2>2, <2>3, <2>5, ChangeOfKey
  <2> QED
    BY <2>4, <2>5
<1> QED
  BY <1>1, CallInit, CallNext, PTL DEF Spec

-----------------------------------------------------------------------------
(***************************************************************************)
(* Coverage warnings                                                       *)
(***************************************************************************)

\* Whatever is inconclusive has a warning for its scope, and what is decided has
\* none, although the two come from lookups that read repetitions differently.
THEOREM WarningsExplain == Spec => []WarningsExplainInconclusive
<1>1. CallInv => WarningsExplainInconclusive
  <2> SUFFICES ASSUME CallInv, Compared, NEW c \in changes
               PROVE  /\ c.change = "inconclusive" => ScopeOf(c) \in warnings
                      /\ c.change \in {"added", "removed"} => ScopeOf(c) \notin warnings
    BY DEF WarningsExplainInconclusive
  <2>1. changes = Changes(before, after) /\ warnings = Warnings(before, after)
    BY DEF CallInv
  <2>2. PICK key \in Keys(before, after) :
          /\ c.key = key
          /\ c.change = Classify(Lookup(before, key), Lookup(after, key),
                                 CoverageComplete(before, after, key))
          /\ Lookup(before, key) # Lookup(after, key)
    BY <2>1 DEF Changes
  <2>3. PICK doc \in {before, after} : key \in DOMAIN Index(doc)
    BY DEF Keys
  <2>4. Accepted(before) /\ Accepted(after)
    BY ComparedAccepted
  <2>5. PICK o \in Range(doc.observations) : KeyOf(o) = key
    BY <2>3 DEF Index
  <2>6. <<key[1], key[2]>> \in DOMAIN CoverageIndex(doc)
    BY <2>4, <2>5, ObservationCovered
  <2>7. ScopeOf(c) \notin warnings <=> CoverageComplete(before, after, key)
    BY <2>1, <2>2, <2>4, <2>6, WarningOfScope DEF ScopeOf
  <2>8. c.change = "inconclusive" => ~CoverageComplete(before, after, key)
    BY <2>2 DEF Classify
  <2>9. c.change \in {"added", "removed"} => CoverageComplete(before, after, key)
    BY <2>2 DEF Classify
  <2> QED
    BY <2>7, <2>8, <2>9
<1> QED
  BY <1>1, CallInit, CallNext, PTL DEF Spec

-----------------------------------------------------------------------------
(***************************************************************************)
(* Direction                                                               *)
(***************************************************************************)

LEMMA CompatibleBothWays ==
  ASSUME NEW old, Accepted(old), NEW new, Accepted(new), Compatible(old, new)
  PROVE  Compatible(new, old)
<1> SUFFICES ASSUME NEW run \in Range(old.runs), run.id \in DOMAIN Versions(new)
             PROVE  Versions(new)[run.id] = run.version
  BY DEF Compatible
<1>1. PICK other \in Range(new.runs) : other.id = run.id
  BY DEF Versions
<1>2. Versions(new)[run.id] = other.version
  BY <1>1, VersionOfRun
<1>3. run.id \in DOMAIN Versions(old) /\ Versions(old)[run.id] = run.version
  BY VersionOfRun
<1>4. Versions(old)[other.id] = other.version
  BY <1>1, <1>3 DEF Compatible
<1> QED
  BY <1>1, <1>2, <1>3, <1>4

\* A change and the change of its key in the other direction.
LEMMA ReversedChange ==
  ASSUME NEW old, NEW new, NEW key, Lookup(old, key) # Lookup(new, key)
  PROVE  Classify(Lookup(new, key), Lookup(old, key), CoverageComplete(new, old, key)) =
            LET change == Classify(Lookup(old, key), Lookup(new, key),
                                   CoverageComplete(old, new, key))
            IN  CASE change = "added" -> "removed"
                  [] change = "removed" -> "added"
                  [] OTHER -> change
<1>1. CoverageComplete(new, old, key) = CoverageComplete(old, new, key)
  BY DEF CoverageComplete
<1>2. CASE CoverageComplete(old, new, key)
  BY <1>1, <1>2 DEF Classify
<1>3. CASE ~CoverageComplete(old, new, key)
  BY <1>1, <1>3 DEF Classify
<1> QED
  BY <1>2, <1>3

LEMMA ReversedChanges ==
  ASSUME NEW old, NEW new
  PROVE  Changes(new, old) = {Reversed(c) : c \in Changes(old, new)}
<1> DEFINE ChangeAt(a, b, k) ==
             [key |-> k, before |-> Lookup(a, k), after |-> Lookup(b, k),
              change |-> Classify(Lookup(a, k), Lookup(b, k), CoverageComplete(a, b, k))]
           D == {k \in Keys(old, new) : Lookup(old, k) # Lookup(new, k)}
<1>1. D = {k \in Keys(new, old) : Lookup(new, k) # Lookup(old, k)}
  BY DEF Keys
<1>2. Changes(old, new) = {ChangeAt(old, new, k) : k \in D}
  BY DEF Changes
<1>3. Changes(new, old) = {ChangeAt(new, old, k) : k \in D}
  BY <1>1 DEF Changes
<1>4. \A k \in D : ChangeAt(new, old, k) = Reversed(ChangeAt(old, new, k))
  BY ReversedChange DEF Reversed
<1> QED
  <2> HIDE DEF ChangeAt, D
  <2> QED
    BY <1>2, <1>3, <1>4

LEMMA ReversedWarnings ==
  ASSUME NEW old, NEW new
  PROVE  Warnings(new, old) = Warnings(old, new)
BY DEF Warnings

\* Comparing two Snapshots in the other direction tells the same story
\* backwards, for all documents that can be compared at all.
THEOREM DirectionDoesNotMatter == Spec => []DirectionIndependent
<1>1. CallInv => DirectionIndependent
  BY ComparedAccepted, CompatibleBothWays, ReversedChanges, ReversedWarnings
  DEF CallInv, DirectionIndependent
<1> QED
  BY <1>1, CallInit, CallNext, PTL DEF Spec

-----------------------------------------------------------------------------
(***************************************************************************)
(* The changes that a view lists                                           *)
(***************************************************************************)

\* The changes of a comparison of two documents, with those that
\* include_unchanged adds.
AllChanges(old, new) == Changes(old, new) \union UnchangedChanges(old, new)

\* A listed change is the one of its key: it has the two artifacts of the key,
\* and its kind says whether they are equal.
LEMMA ChangeListed ==
  ASSUME NEW old, NEW new, NEW c \in AllChanges(old, new)
  PROVE  /\ c.key \in Keys(old, new)
         /\ c = [key |-> c.key, before |-> Lookup(old, c.key), after |-> Lookup(new, c.key),
                 change |-> IF Lookup(old, c.key) = Lookup(new, c.key) THEN "unchanged"
                            ELSE Classify(Lookup(old, c.key), Lookup(new, c.key),
                                          CoverageComplete(old, new, c.key))]
         /\ c \in Changes(old, new) <=> Lookup(old, c.key) # Lookup(new, c.key)
<1>1. CASE c \in Changes(old, new)
  BY <1>1 DEF Changes
<1>2. CASE c \in UnchangedChanges(old, new)
  <2>1. Lookup(old, c.key) = Lookup(new, c.key)
    BY <1>2 DEF UnchangedChanges
  <2>2. c \notin Changes(old, new)
    BY <2>1 DEF Changes
  <2> QED
    BY <1>2, <2>1, <2>2 DEF UnchangedChanges
<1> QED
  BY <1>1, <1>2 DEF AllChanges

LEMMA OneChangePerKey ==
  ASSUME NEW old, NEW new, NEW c \in AllChanges(old, new), NEW d \in AllChanges(old, new),
         c.key = d.key
  PROVE  c = d
BY ChangeListed

LEMMA UnchangedAreEqual ==
  ASSUME NEW old, NEW new, NEW c \in AllChanges(old, new)
  PROVE  c.change \in {"added", "removed", "modified", "inconclusive"}
            <=> c \in Changes(old, new)
<1>1. CASE c \in Changes(old, new)
  BY <1>1, ChangesTyped
<1>2. CASE c \notin Changes(old, new)
  BY <1>2, ChangeListed
<1> QED
  BY <1>1, <1>2

\* A listed change shows an artifact that one of the documents holds under its key.
LEMMA ShownIsObserved ==
  ASSUME NEW old, Accepted(old), NEW new, Accepted(new), NEW c \in AllChanges(old, new)
  PROVE  \E doc \in {old, new} : \E o \in Range(doc.observations) :
            KeyOf(o) = c.key /\ o.datum = ShownDatum(c)
<1>1. /\ c.key \in Keys(old, new)
      /\ c.before = Lookup(old, c.key) /\ c.after = Lookup(new, c.key)
      /\ c.change = IF c.before = c.after THEN "unchanged"
                    ELSE Classify(c.before, c.after, CoverageComplete(old, new, c.key))
  BY ChangeListed
<1>2. c.before # Absent \/ c.after # Absent
  BY <1>1, AbsentKey DEF Keys
<1>3. ShownDatum(c) # Absent
  BY <1>1, <1>2 DEF ShownDatum, Classify
<1>4. ShownDatum(c) \in {c.before, c.after}
  BY DEF ShownDatum
<1>5. PICK doc \in {old, new} : ShownDatum(c) = Lookup(doc, c.key)
  BY <1>1, <1>4
<1>6. PICK o \in Range(doc.observations) : KeyOf(o) = c.key
  BY <1>3, <1>5, AbsentKey
<1>7. Lookup(doc, KeyOf(o)) = o.datum
  BY DatumOfObservation
<1> QED
  BY <1>5, <1>6, <1>7

-----------------------------------------------------------------------------
(***************************************************************************)
(* Counting                                                                *)
(***************************************************************************)

\* There are finitely many changes.
LEMMA KeysFinite ==
  ASSUME NEW doc, Shaped(doc)
  PROVE  IsFiniteSet(DOMAIN Index(doc))
<1> DEFINE obs == doc.observations
           K == DOMAIN Index(doc)
           f == [i \in 1 .. Len(obs) |-> KeyOf(obs[i])]
<1>1. Len(obs) \in Nat /\ DOMAIN obs = 1 .. Len(obs)
  BY LenProperties DEF Shaped
<1>2. K = {KeyOf(o) : o \in Range(obs)}
  BY DEF Index
<1>3. K = {KeyOf(obs[i]) : i \in 1 .. Len(obs)}
  BY <1>1, <1>2 DEF Range
<1>4. f \in Surjection(1 .. Len(obs), K)
  <2> HIDE DEF K
  <2>1. f \in [1 .. Len(obs) -> K]
    BY <1>3
  <2>2. \A k \in K : \E i \in 1 .. Len(obs) : f[i] = k
    BY <1>3
  <2> QED
    BY <2>1, <2>2 DEF Surjection
<1>5. IsFiniteSet(1 .. Len(obs))
  BY <1>1, FS_Interval
<1> HIDE DEF K, f
<1>6. IsFiniteSet(K)
  BY <1>4, <1>5, FS_Surjection
<1> QED
  BY <1>6 DEF K

LEMMA ChangesFinite ==
  ASSUME NEW old, Accepted(old), NEW new, Accepted(new)
  PROVE  IsFiniteSet(AllChanges(old, new))
<1> DEFINE S == AllChanges(old, new)
           f == [c \in S |-> c.key]
<1>1. IsFiniteSet(Keys(old, new))
  BY KeysFinite, FS_Union DEF Keys, Accepted
<1>2. f \in [S -> Keys(old, new)]
  BY ChangeListed
<1>3. \A c, d \in S : f[c] = f[d] => c = d
  BY OneChangePerKey
<1>4. f \in Injection(S, Keys(old, new))
  BY <1>2, <1>3 DEF Injection, IsInjective
<1> HIDE DEF f
<1> QED
  BY <1>1, <1>4, FS_Injection

\* A section has one item for each of its changes.
LEMMA SectionCount ==
  ASSUME NEW S, IsFiniteSet(S), \A c, d \in S : c.key = d.key => c = d
  PROVE  /\ IsFiniteSet({c.key : c \in S})
         /\ Cardinality({c.key : c \in S}) = Cardinality(S)
<1> DEFINE T == {c.key : c \in S}
           f == [c \in S |-> c.key]
<1>1. f \in Surjection(S, T)
  BY DEF Surjection
<1>2. f \in Injection(S, T)
  BY DEF Injection, IsInjective
<1> HIDE DEF f, T
<1>3. IsFiniteSet(T) /\ Cardinality(T) = Cardinality(S)
  BY <1>1, <1>2, FS_Surjection
<1> QED
  BY <1>3 DEF T

LEMMA DisjointUnion ==
  ASSUME NEW S, NEW T, IsFiniteSet(S), IsFiniteSet(T), S \intersect T = {}
  PROVE  /\ IsFiniteSet(S \union T)
         /\ Cardinality(S \union T) = Cardinality(S) + Cardinality(T)
<1>1. Cardinality(S) \in Nat /\ Cardinality(T) \in Nat
  BY FS_CardinalityType
<1>2. Cardinality(S \intersect T) = 0
  BY FS_EmptySet
<1>3. /\ IsFiniteSet(S \union T)
      /\ Cardinality(S \union T) = Cardinality(S) + Cardinality(T) - Cardinality(S \intersect T)
  BY FS_Union
<1> QED
  BY <1>1, <1>2, <1>3

\* The counts of a summary and the sections below it count the same changes.
\* Sections are by the kind of artifact, and the summary is by the change.
LEMMA CountsOfSections ==
  ASSUME NEW S, IsFiniteSet(S), \A c, d \in S : c.key = d.key => c = d,
         \A c \in S : Shown(c).kind \in Kinds
  PROVE  LET keys(kind) == {c.key : c \in OfKind(S, kind)}
             listed == Cardinality(Confirmed(S)) + Cardinality(Inconclusive(S))
                         + Cardinality(S \ (Confirmed(S) \union Inconclusive(S)))
         IN  listed = Cardinality(keys("registry")) + Cardinality(keys("service"))
                        + Cardinality(keys("task"))
<1> DEFINE R == OfKind(S, "registry")
           V == OfKind(S, "service")
           T == OfKind(S, "task")
           C == Confirmed(S)
           I == Inconclusive(S)
           U == S \ (C \union I)
<1>1. /\ R \in SUBSET S /\ V \in SUBSET S /\ T \in SUBSET S
      /\ C \in SUBSET S /\ I \in SUBSET S /\ U \in SUBSET S
  BY DEF OfKind, Confirmed, Inconclusive
<1>2. /\ IsFiniteSet(R) /\ IsFiniteSet(V) /\ IsFiniteSet(T)
      /\ IsFiniteSet(C) /\ IsFiniteSet(I) /\ IsFiniteSet(U)
  BY <1>1, FS_Subset
<1>3. /\ R \intersect V = {} /\ (R \union V) \intersect T = {} /\ (R \union V) \union T = S
  BY DEF OfKind, Kinds
<1>4. C \intersect I = {} /\ (C \union I) \intersect U = {} /\ (C \union I) \union U = S
  BY DEF Confirmed, Inconclusive
<1> HIDE DEF R, V, T, C, I, U
<1>5. /\ IsFiniteSet(R \union V)
      /\ Cardinality(R \union V) = Cardinality(R) + Cardinality(V)
      /\ Cardinality(S) = Cardinality(R \union V) + Cardinality(T)
  BY <1>2, <1>3, DisjointUnion
<1>6. /\ IsFiniteSet(C \union I)
      /\ Cardinality(C \union I) = Cardinality(C) + Cardinality(I)
      /\ Cardinality(S) = Cardinality(C \union I) + Cardinality(U)
  BY <1>2, <1>4, DisjointUnion
<1>7. /\ Cardinality({c.key : c \in R}) = Cardinality(R)
      /\ Cardinality({c.key : c \in V}) = Cardinality(V)
      /\ Cardinality({c.key : c \in T}) = Cardinality(T)
  BY <1>1, <1>2, SectionCount
<1> QED
  BY <1>5, <1>6, <1>7 DEF R, V, T, C, I, U

\* What a section shows for a key is what it shows of a change with that key.
LEMMA SectionItem ==
  ASSUME NEW shown, NEW key \in DOMAIN ByKey(shown)
  PROVE  LET c == CHOOSE c \in DOMAIN shown : c.key = key
         IN  c \in DOMAIN shown /\ c.key = key /\ ByKey(shown)[key] = shown[c]
<1>1. key \in {c.key : c \in DOMAIN shown}
  BY DEF ByKey
<1>2. \E c \in DOMAIN shown : c.key = key
  BY <1>1
<1> QED
  BY <1>1, <1>2 DEF ByKey

-----------------------------------------------------------------------------
(***************************************************************************)
(* The views                                                               *)
(***************************************************************************)

\* What a view shows is that of the comparison that has been made, and the page
\* shows comparisons of two captures of its own only.
ViewsInv ==
    /\ CallInv
    /\ desktop # NoView =>
        Compared /\ Own(before) /\ Own(after) /\ desktop = Presentation(changes)
    /\ terminal # NoView =>
        Compared /\ \E include \in BOOLEAN : terminal = Report(Listed(include))
    /\ technical # NoView =>
        Compared /\ \E include \in BOOLEAN : technical = TechnicalText(Listed(include))

LEMMA ViewsInitially == ViewsInit => ViewsInv
BY CallInit DEF ViewsInit, ViewsInv

\* A view stays what it was as long as the comparison does.
LEMMA ViewsOfSame ==
  ASSUME UNCHANGED vars
  PROVE  /\ Compared' <=> Compared
         /\ Own(before)' <=> Own(before)
         /\ Own(after)' <=> Own(after)
         /\ Presentation(changes)' = Presentation(changes)
         /\ \A include \in BOOLEAN :
                /\ Report(Listed(include))' = Report(Listed(include))
                /\ TechnicalText(Listed(include))' = TechnicalText(Listed(include))
<1>1. pc' = pc /\ before' = before /\ after' = after /\ changes' = changes /\ warnings' = warnings
  BY DEF vars
<1>2. Presentation(changes)' = Presentation(changes)
  BY <1>1 DEF Presentation, Notice, StatusAt
<1>3. \A include \in BOOLEAN : Report(Listed(include))' = Report(Listed(include))
  BY <1>1 DEF Report, NothingFound, StatusAt, Listed
<1>4. \A include \in BOOLEAN :
          TechnicalText(Listed(include))' = TechnicalText(Listed(include))
  BY <1>1 DEF TechnicalText, StatusAt, Listed
<1> QED
  BY <1>1, <1>2, <1>3, <1>4 DEF Compared, Own

LEMMA ViewsStep == ViewsInv /\ [ViewsNext]_viewVars => ViewsInv'
<1> SUFFICES ASSUME ViewsInv, [ViewsNext]_viewVars PROVE ViewsInv'
  OBVIOUS
<1>1. CASE Diffing
  <2>1. ~Compared /\ desktop' = desktop /\ terminal' = terminal /\ technical' = technical
    BY <1>1 DEF Diffing, Next, ValidateBefore, ValidateAfter, Compare, Compared
  <2>2. desktop = NoView /\ terminal = NoView /\ technical = NoView
    BY <2>1 DEF ViewsInv
  <2>3. CallInv'
    BY <1>1, CallNext DEF Diffing, ViewsInv
  <2> QED
    BY <2>1, <2>2, <2>3 DEF ViewsInv
<1>2. ASSUME UNCHANGED vars PROVE CallInv'
  BY <1>2, CallNext DEF ViewsInv
<1>3. CASE Present
  <2>1. /\ UNCHANGED vars /\ terminal' = terminal
        /\ desktop' = Presentation(changes) /\ technical' = TechnicalText(changes)
    BY <1>3 DEF Present
  <2>2. Compared /\ Own(before) /\ Own(after)
    BY <1>3 DEF Present, Compared
  <2>3. \E include \in BOOLEAN : technical' = TechnicalText(Listed(include))
    <3>1. Listed(FALSE) = changes
      BY DEF Listed
    <3> QED
      BY <2>1, <3>1
  <2> QED
    BY <2>1, <2>2, <2>3, <1>2, ViewsOfSame DEF ViewsInv
<1>4. CASE PrintTerminal
  <2>1. /\ UNCHANGED vars /\ desktop' = desktop /\ technical' = technical
        /\ \E include \in BOOLEAN : terminal' = Report(Listed(include))
    BY <1>4 DEF PrintTerminal
  <2>2. Compared
    BY <1>4 DEF PrintTerminal, Compared
  <2> QED
    BY <2>1, <2>2, <1>2, ViewsOfSame DEF ViewsInv
<1>5. CASE PrintTechnical
  <2>1. /\ UNCHANGED vars /\ desktop' = desktop /\ terminal' = terminal
        /\ \E include \in BOOLEAN : technical' = TechnicalText(Listed(include))
    BY <1>5 DEF PrintTechnical
  <2>2. Compared
    BY <1>5 DEF PrintTechnical, Compared
  <2> QED
    BY <2>1, <2>2, <1>2, ViewsOfSame DEF ViewsInv
<1>6. CASE UNCHANGED viewVars
  <2>1. /\ UNCHANGED vars /\ desktop' = desktop /\ terminal' = terminal
        /\ technical' = technical
    BY <1>6 DEF viewVars
  <2> QED
    BY <2>1, <1>2, ViewsOfSame DEF ViewsInv
<1> QED
  BY <1>1, <1>3, <1>4, <1>5, <1>6 DEF ViewsNext

\* What a comparison of accepted documents is made of.
LEMMA ListedChanges ==
  ASSUME CallInv, Compared, NEW include \in BOOLEAN
  PROVE  /\ Accepted(before) /\ Accepted(after)
         /\ before \in Documents /\ after \in Documents
         /\ changes = Changes(before, after) /\ warnings = Warnings(before, after)
         /\ changes \subseteq Listed(include)
         /\ Listed(include) \subseteq AllChanges(before, after)
         /\ IsFiniteSet(Listed(include))
<1>1. Accepted(before) /\ Accepted(after)
  BY ComparedAccepted
<1>2. /\ before \in Documents /\ after \in Documents
      /\ changes = Changes(before, after) /\ warnings = Warnings(before, after)
  BY DEF CallInv, Compared
<1>3. changes \subseteq Listed(include) /\ Listed(include) \subseteq AllChanges(before, after)
  BY <1>2 DEF Listed, AllChanges
<1>4. IsFiniteSet(AllChanges(before, after))
  BY <1>1, ChangesFinite
<1>5. IsFiniteSet(Listed(include))
  BY <1>3, <1>4, FS_Subset
<1> QED
  BY <1>1, <1>2, <1>3, <1>5

\* Every listed change shows an artifact of a known kind.
LEMMA ShownKind ==
  ASSUME CallInv, Compared, NEW c \in AllChanges(before, after)
  PROVE  Shown(c).kind \in Kinds
<1>1. Accepted(before) /\ Accepted(after) /\ before \in Documents /\ after \in Documents
  BY ListedChanges
<1>2. PICK doc \in {before, after} : \E o \in Range(doc.observations) :
          KeyOf(o) = c.key /\ o.datum = ShownDatum(c)
  BY <1>1, ShownIsObserved
<1>3. ShownDatum(c) \in DOMAIN ArtifactOf
  BY <1>1, <1>2, ArtifactsKnown
<1> QED
  BY <1>3, ArtifactsKinds DEF Shown

\* Of two captures of the desktop's own, what is shown is a registry entry or a
\* service, and which of the two is known from the collector.
LEMMA OwnKind ==
  ASSUME CallInv, Compared, Own(before), Own(after), NEW c \in AllChanges(before, after)
  PROVE  \/ c.key[1] = StartupId /\ Shown(c).kind = "registry"
         \/ c.key[1] = ServicesId /\ Shown(c).kind = "service"
<1>1. Accepted(before) /\ Accepted(after)
  BY ListedChanges
<1>2. PICK doc \in {before, after} : \E o \in Range(doc.observations) :
          KeyOf(o) = c.key /\ o.datum = ShownDatum(c)
  BY <1>1, ShownIsObserved
<1>3. PICK o \in Range(doc.observations) : KeyOf(o) = c.key /\ o.datum = ShownDatum(c)
  BY <1>2
<1>4. Own(doc) /\ Validates(doc)
  BY <1>1 DEF Accepted
<1>5. PICK run \in Range(doc.runs) : run.id = o.collector
  BY <1>4 DEF Validates, ObservationValid
<1>6. o.collector \in {StartupId, ServicesId}
  BY <1>4, <1>5 DEF Own
<1>7. c.key[1] = o.collector
  BY <1>3 DEF KeyOf
<1>8. Shown(c).kind = CASE o.collector = StartupId -> "registry"
                       [] o.collector = ServicesId -> "service"
                       [] OTHER -> "task"
  BY <1>3, <1>4 DEF Own, Shown
<1>9. CASE o.collector = StartupId
  BY <1>7, <1>8, <1>9 DEF StartupId, ServicesId
<1>10. CASE o.collector = ServicesId
  BY <1>7, <1>8, <1>10 DEF StartupId, ServicesId
<1> QED
  BY <1>6, <1>9, <1>10

\* So the page has a section for each of its changes, and every change is
\* counted as confirmed or inconclusive.
LEMMA PageShowsAll ==
  ASSUME CallInv, Compared, Own(before), Own(after)
  PROVE  /\ OfKind(changes, "registry") \union OfKind(changes, "service") = changes
         /\ OfKind(changes, "task") = {}
         /\ Confirmed(changes) \union Inconclusive(changes) = changes
<1>1. changes = Changes(before, after) /\ changes \subseteq AllChanges(before, after)
  BY ListedChanges DEF AllChanges
<1>2. \A c \in changes : Shown(c).kind \in {"registry", "service"}
  BY <1>1, OwnKind
<1>3. \A c \in changes : c.change \in {"added", "removed", "modified", "inconclusive"}
  BY <1>1, ChangesTyped
<1> QED
  BY <1>2, <1>3 DEF OfKind, Confirmed, Inconclusive

\* If nothing has changed, the evidence of the two documents is equal.
LEMMA NoChangeMeansEqual ==
  ASSUME NEW old, Accepted(old), NEW new, Accepted(new), Changes(old, new) = {}
  PROVE  Index(old) = Index(new)
<1>1. \A key \in Keys(old, new) : Lookup(old, key) = Lookup(new, key)
  BY ChangeOfKey
<1>2. \A key \in Keys(old, new) : Lookup(old, key) # Absent \/ Lookup(new, key) # Absent
  BY AbsentKey DEF Keys
<1>3. \A key \in Keys(old, new) : key \in DOMAIN Index(old) /\ key \in DOMAIN Index(new)
  BY <1>1, <1>2 DEF Lookup
<1>4. DOMAIN Index(old) = DOMAIN Index(new)
  BY <1>3 DEF Keys
<1>5. \A key \in DOMAIN Index(old) : Index(old)[key] = Index(new)[key]
  BY <1>1, <1>4 DEF Keys, Lookup
<1>6. /\ Index(old) = [key \in DOMAIN Index(old) |-> Index(old)[key]]
      /\ Index(new) = [key \in DOMAIN Index(new) |-> Index(new)[key]]
  BY DEF Index
<1> QED
  BY <1>4, <1>5, <1>6

-----------------------------------------------------------------------------
(***************************************************************************)
(* Quiet views                                                             *)
(***************************************************************************)

\* "No changes found" is said of equal evidence under complete coverage only, and
\* the page says that nothing was observed to change only of equal evidence.
THEOREM QuietIsEqual == ViewsSpec => []QuietMeansEqual
<1>1. ASSUME ViewsInv, terminal # NoView, terminal.quiet
      PROVE  /\ Index(before) = Index(after)
             /\ \A key \in Keys(before, after) : CoverageComplete(before, after, key)
             /\ DOMAIN CoverageIndex(before) = DOMAIN CoverageIndex(after)
  <2>1. CallInv /\ Compared
    BY <1>1 DEF ViewsInv
  <2>2. PICK include \in BOOLEAN : terminal = Report(Listed(include))
    BY <1>1 DEF ViewsInv
  <2>3. Listed(include) = {} /\ warnings = {}
    BY <1>1, <2>2 DEF Report, NothingFound
  <2>4. /\ Accepted(before) /\ Accepted(after)
        /\ Changes(before, after) = {} /\ Warnings(before, after) = {}
    BY <2>1, <2>3, ListedChanges
  <2>5. Index(before) = Index(after)
    BY <2>4, NoChangeMeansEqual
  <2>6. ASSUME NEW key \in Keys(before, after)
        PROVE  CoverageComplete(before, after, key)
    <3>1. PICK doc \in {before, after} : key \in DOMAIN Index(doc)
      BY DEF Keys
    <3>2. PICK o \in Range(doc.observations) : KeyOf(o) = key
      BY <3>1 DEF Index
    <3>3. <<key[1], key[2]>> \in DOMAIN CoverageIndex(doc)
      BY <2>4, <3>2, ObservationCovered
    <3> QED
      BY <2>4, <3>3, WarningOfScope
  <2>7. DOMAIN CoverageIndex(before) = DOMAIN CoverageIndex(after)
    BY <2>4 DEF Warnings
  <2> QED
    BY <2>5, <2>6, <2>7
<1>2. ASSUME ViewsInv, desktop # NoView, PageQuiet(desktop)
      PROVE  /\ Index(before) = Index(after)
             /\ DOMAIN desktop.startup = {} /\ DOMAIN desktop.services = {}
  <2>1. CallInv /\ Compared /\ Own(before) /\ Own(after) /\ desktop = Presentation(changes)
    BY <1>2 DEF ViewsInv
  <2>2. /\ Accepted(before) /\ Accepted(after) /\ changes = Changes(before, after)
        /\ IsFiniteSet(changes)
    BY <2>1, ListedChanges DEF Listed
  <2>3. /\ desktop.confirmed = Cardinality(Confirmed(changes))
        /\ desktop.inconclusive = Cardinality(Inconclusive(changes))
    BY <2>1, PageShowsAll DEF Presentation
  <2>4. IsFiniteSet(Confirmed(changes)) /\ IsFiniteSet(Inconclusive(changes))
    BY <2>2, FS_Subset DEF Confirmed, Inconclusive
  <2>5. Confirmed(changes) = {} /\ Inconclusive(changes) = {}
    BY <1>2, <2>3, <2>4, FS_EmptySet DEF PageQuiet
  <2>6. changes = {}
    BY <2>1, <2>5, PageShowsAll
  <2>7. Index(before) = Index(after)
    BY <2>2, <2>6, NoChangeMeansEqual
  <2>8. DOMAIN desktop.startup = {} /\ DOMAIN desktop.services = {}
    BY <2>1, <2>6 DEF Presentation, ByKey, OfKind
  <2> QED
    BY <2>7, <2>8
<1>3. ViewsInv => QuietMeansEqual
  BY <1>1, <1>2 DEF QuietMeansEqual
<1> QED
  BY <1>3, ViewsInitially, ViewsStep, PTL DEF ViewsSpec

-----------------------------------------------------------------------------
(***************************************************************************)
(* Notices                                                                 *)
(***************************************************************************)

\* A change that could not be confirmed has a warning for its scope, and one of
\* the two captures did not cover that scope completely.
LEMMA InconclusiveWarned ==
  ASSUME CallInv, Compared, NEW c \in Inconclusive(changes)
  PROVE  LET at == ScopeOf(c)
         IN  /\ at \in warnings
             /\ ~CoverageComplete(before, after, c.key)
             /\ \A doc \in {before, after} :
                    StatusAt(doc, at) = "complete" <=> ScopeStatus(doc, c.key) = "complete"
<1> DEFINE at == ScopeOf(c)
<1>1. /\ Accepted(before) /\ Accepted(after)
      /\ changes = Changes(before, after) /\ warnings = Warnings(before, after)
      /\ c \in AllChanges(before, after)
  BY ListedChanges DEF Inconclusive, AllChanges
<1>2. /\ c.key \in Keys(before, after)
      /\ c.change = Classify(c.before, c.after, CoverageComplete(before, after, c.key))
      /\ c.before = Lookup(before, c.key) /\ c.after = Lookup(after, c.key)
  <2>1. c \in changes
    BY DEF Inconclusive
  <2> QED
    BY <1>1, <2>1, ChangeListed
<1>3. PICK doc \in {before, after} : c.key \in DOMAIN Index(doc)
  BY <1>2 DEF Keys
<1>4. Lookup(doc, c.key) # Absent
  BY <1>1, <1>3, AbsentKey
<1>5. ~CoverageComplete(before, after, c.key)
  BY <1>2, <1>4 DEF Classify, Inconclusive
<1>6. PICK o \in Range(doc.observations) : KeyOf(o) = c.key
  BY <1>3 DEF Index
<1>7. at \in DOMAIN CoverageIndex(doc)
  BY <1>1, <1>6, ObservationCovered DEF ScopeOf
<1>8. at \in warnings
  BY <1>1, <1>5, <1>7, WarningOfScope DEF ScopeOf
<1>9. ASSUME NEW d \in {before, after}
      PROVE  StatusAt(d, at) = "complete" <=> ScopeStatus(d, c.key) = "complete"
  BY <1>1, LookupsAgree DEF StatusAt, ScopeOf
<1> QED
  BY <1>5, <1>8, <1>9

\* Whoever sees an item that could not be confirmed finds a notice in its group,
\* about a capture that was indeed incomplete.
THEOREM NoticesTell == ViewsSpec => []NoticesExplain
<1>1. ASSUME ViewsInv, desktop # NoView, NEW c \in Inconclusive(changes)
      PROVE  LET notice == desktop.notices[ScopeOf(c)]
             IN  /\ ScopeOf(c) \in DOMAIN desktop.notices
                 /\ notice.group = IF Shown(c).kind = "registry" THEN "startup"
                                   ELSE "services"
                 /\ notice.message \in {"before", "both"} =>
                        ScopeStatus(before, c.key) # "complete"
                 /\ notice.message \in {"after", "both"} =>
                        ScopeStatus(after, c.key) # "complete"
  <2> DEFINE at == ScopeOf(c)
             notice == desktop.notices[at]
  <2>1. CallInv /\ Compared /\ Own(before) /\ Own(after) /\ desktop = Presentation(changes)
    BY <1>1 DEF ViewsInv
  <2>2. /\ at \in warnings
        /\ ~CoverageComplete(before, after, c.key)
        /\ StatusAt(before, at) = "complete" <=> ScopeStatus(before, c.key) = "complete"
        /\ StatusAt(after, at) = "complete" <=> ScopeStatus(after, c.key) = "complete"
    BY <2>1, InconclusiveWarned
  <2>3. desktop.notices = [x \in warnings |-> Notice(x)]
    BY <2>1 DEF Presentation
  <2>4. at \in DOMAIN desktop.notices /\ notice = Notice(at)
    BY <2>2, <2>3
  <2>5. /\ notice.group = NoticeGroup(at[1])
        /\ notice.message = NoticeMessage(StatusAt(before, at), StatusAt(after, at))
    BY <2>4 DEF Notice
  <2>6. notice.group = IF Shown(c).kind = "registry" THEN "startup" ELSE "services"
    <3>1. c \in AllChanges(before, after)
      BY <2>1, ListedChanges DEF Inconclusive, AllChanges
    <3>2. at[1] = c.key[1]
      BY DEF ScopeOf
    <3>3. \/ c.key[1] = StartupId /\ Shown(c).kind = "registry"
          \/ c.key[1] = ServicesId /\ Shown(c).kind = "service"
      BY <2>1, <3>1, OwnKind
    <3> QED
      BY <2>5, <3>2, <3>3 DEF NoticeGroup, StartupId, ServicesId
  <2>7. ~(StatusAt(before, at) = "complete" /\ StatusAt(after, at) = "complete")
    BY <2>2 DEF CoverageComplete
  <2>8. notice.message \in {"before", "both"} => StatusAt(before, at) # "complete"
    BY <2>5, <2>7 DEF NoticeMessage
  <2>9. notice.message \in {"after", "both"} => StatusAt(after, at) # "complete"
    BY <2>5, <2>7 DEF NoticeMessage
  <2> QED
    BY <2>2, <2>4, <2>6, <2>8, <2>9
<1>2. ViewsInv => NoticesExplain
  BY <1>1 DEF NoticesExplain
<1> QED
  BY <1>2, ViewsInitially, ViewsStep, PTL DEF ViewsSpec

-----------------------------------------------------------------------------
(***************************************************************************)
(* The page and the report                                                 *)
(***************************************************************************)

LEMMA PageCounts ==
  ASSUME ViewsInv, desktop # NoView
  PROVE  desktop.confirmed + desktop.inconclusive =
            Cardinality(DOMAIN desktop.startup) + Cardinality(DOMAIN desktop.services)
<1> DEFINE keys(kind) == {c.key : c \in OfKind(changes, kind)}
<1>1. CallInv /\ Compared /\ Own(before) /\ Own(after) /\ desktop = Presentation(changes)
  BY DEF ViewsInv
<1>2. changes \subseteq AllChanges(before, after) /\ IsFiniteSet(changes)
  BY <1>1, ListedChanges DEF Listed
<1>3. /\ desktop.confirmed = Cardinality(Confirmed(changes))
      /\ desktop.inconclusive = Cardinality(Inconclusive(changes))
      /\ DOMAIN desktop.startup = keys("registry")
      /\ DOMAIN desktop.services = keys("service")
  BY <1>1, PageShowsAll DEF Presentation, ByKey
<1>4. Cardinality(keys("task")) = 0
  BY <1>1, PageShowsAll, FS_EmptySet
<1>5. Cardinality(changes \ (Confirmed(changes) \union Inconclusive(changes))) = 0
  BY <1>1, PageShowsAll, FS_EmptySet
<1>6. /\ \A c, d \in changes : c.key = d.key => c = d
      /\ \A c \in changes : Shown(c).kind \in Kinds
  BY <1>1, <1>2, OneChangePerKey, ShownKind
<1>7. Cardinality(Confirmed(changes)) + Cardinality(Inconclusive(changes)) + 0 =
        Cardinality(keys("registry")) + Cardinality(keys("service")) + 0
  BY <1>2, <1>4, <1>5, <1>6, CountsOfSections
<1>8. /\ IsFiniteSet(OfKind(changes, "registry")) /\ IsFiniteSet(OfKind(changes, "service"))
      /\ IsFiniteSet(Confirmed(changes)) /\ IsFiniteSet(Inconclusive(changes))
  BY <1>2, FS_Subset DEF OfKind, Confirmed, Inconclusive
<1>9. IsFiniteSet(keys("registry")) /\ IsFiniteSet(keys("service"))
  <2>1. \A kind : \A c, d \in OfKind(changes, kind) : c.key = d.key => c = d
    BY <1>6 DEF OfKind
  <2> QED
    BY <1>8, <2>1, SectionCount
<1>10. /\ Cardinality(keys("registry")) \in Nat /\ Cardinality(keys("service")) \in Nat
       /\ Cardinality(Confirmed(changes)) \in Nat /\ Cardinality(Inconclusive(changes)) \in Nat
  BY <1>8, <1>9, FS_CardinalityType
<1> HIDE DEF keys
<1> QED
  BY <1>3, <1>7, <1>10

LEMMA ReportCounts ==
  ASSUME ViewsInv, terminal # NoView
  PROVE  terminal.confirmed + terminal.inconclusive + terminal.unchanged =
            Cardinality(DOMAIN terminal.registry) + Cardinality(DOMAIN terminal.services)
                + Cardinality(DOMAIN terminal.other)
<1>1. CallInv /\ Compared
  BY DEF ViewsInv
<1>2. PICK include \in BOOLEAN : terminal = Report(Listed(include))
  BY DEF ViewsInv
<1> DEFINE cs == Listed(include)
           keys(kind) == {c.key : c \in OfKind(cs, kind)}
<1>3. cs \subseteq AllChanges(before, after) /\ IsFiniteSet(cs)
  BY <1>1, ListedChanges
<1>4. /\ \A c, d \in cs : c.key = d.key => c = d
      /\ \A c \in cs : Shown(c).kind \in Kinds
  BY <1>1, <1>3, OneChangePerKey, ShownKind
<1>5. /\ terminal.confirmed = Cardinality(Confirmed(cs))
      /\ terminal.inconclusive = Cardinality(Inconclusive(cs))
      /\ terminal.unchanged = Cardinality(cs \ (Confirmed(cs) \union Inconclusive(cs)))
      /\ DOMAIN terminal.registry = keys("registry")
      /\ DOMAIN terminal.services = keys("service")
      /\ DOMAIN terminal.other = keys("task")
  BY <1>2 DEF Report, ByKey
<1> HIDE DEF cs
<1> QED
  BY <1>3, <1>4, <1>5, CountsOfSections

\* Where the report has no unchanged items, it lists the changes of the page.
LEMMA SameChanges ==
  ASSUME ViewsInv, desktop # NoView, terminal # NoView, terminal.unchanged = 0
  PROVE  terminal = Report(changes)
<1>1. CallInv /\ Compared
  BY DEF ViewsInv
<1>2. PICK include \in BOOLEAN : terminal = Report(Listed(include))
  BY DEF ViewsInv
<1> DEFINE cs == Listed(include)
           U == cs \ (Confirmed(cs) \union Inconclusive(cs))
<1>3. /\ changes = Changes(before, after) /\ changes \subseteq cs
      /\ cs \subseteq AllChanges(before, after) /\ IsFiniteSet(cs)
  BY <1>1, ListedChanges
<1>4. Cardinality(U) = 0
  BY <1>2 DEF Report
<1>5. IsFiniteSet(U)
  BY <1>3, FS_Subset
<1>6. U = {}
  BY <1>4, <1>5, FS_EmptySet
<1>7. \A c \in cs : c \in changes
  BY <1>3, <1>6, UnchangedAreEqual DEF Confirmed, Inconclusive
<1>8. cs = changes
  BY <1>3, <1>7
<1> QED
  BY <1>2, <1>8

\* The counts of the page and of the report are those of the items below them,
\* and of two captures of the desktop both tell the same changes in the same
\* sections, with the same fields of a service, but for a start of which only
\* the delay has changed.
THEOREM ViewsTellOneStory == ViewsSpec => []ViewsAgree
<1>1. ViewsInv => CountsAgree
  BY PageCounts, ReportCounts DEF CountsAgree
<1>2. ASSUME ViewsInv, desktop # NoView, terminal # NoView, terminal.unchanged = 0
      PROVE  /\ desktop.confirmed = terminal.confirmed
             /\ desktop.inconclusive = terminal.inconclusive
             /\ DOMAIN desktop.startup = DOMAIN terminal.registry
             /\ DOMAIN desktop.services = DOMAIN terminal.services
             /\ \A key \in DOMAIN desktop.startup :
                    desktop.startup[key].change = terminal.registry[key].change
             /\ \A key \in DOMAIN desktop.services :
                    LET item == desktop.services[key]
                        entry == terminal.services[key]
                    IN  /\ item.change = entry.change
                        /\ item.change = "modified" =>
                             DOMAIN entry.fields \subseteq DOMAIN item.fields
                        /\ item.change = "modified" =>
                             DOMAIN item.fields \ DOMAIN entry.fields \subseteq {"start"}
  <2> DEFINE R == OfKind(changes, "registry")
             V == OfKind(changes, "service")
             items == [c \in V |-> ServiceItem(c)]
             entries == [c \in V |-> HumanService(c)]
  <2>1. CallInv /\ Compared /\ Own(before) /\ Own(after) /\ desktop = Presentation(changes)
    BY <1>2 DEF ViewsInv
  <2>2. terminal = Report(changes)
    BY <1>2, SameChanges
  <2>3. desktop.confirmed = terminal.confirmed /\ desktop.inconclusive = terminal.inconclusive
    BY <2>1, <2>2, PageShowsAll DEF Presentation, Report
  <2>4. /\ desktop.startup = ByKey([c \in R |-> RegistryItem(c)])
        /\ desktop.services = ByKey(items)
        /\ terminal.registry = ByKey([c \in R |-> HumanRegistry(c)])
        /\ terminal.services = ByKey(entries)
    BY <2>1, <2>2 DEF Presentation, Report
  <2>5. /\ DOMAIN desktop.startup = DOMAIN terminal.registry
        /\ DOMAIN desktop.services = DOMAIN terminal.services
    BY <2>4 DEF ByKey
  <2>6. ASSUME NEW key \in DOMAIN desktop.startup
        PROVE  desktop.startup[key].change = terminal.registry[key].change
    <3> DEFINE c == CHOOSE c \in R : c.key = key
    <3>1. desktop.startup[key] = RegistryItem(c)
      BY <2>4, <2>6, SectionItem
    <3>2. terminal.registry[key] = HumanRegistry(c)
      BY <2>4, <2>5, <2>6, SectionItem
    <3>3. RegistryItem(c).change = c.change /\ HumanRegistry(c).change = c.change
      BY DEF RegistryItem, HumanRegistry
    <3> QED
      BY <3>1, <3>2, <3>3
  <2>7. ASSUME NEW key \in DOMAIN desktop.services
        PROVE  LET item == desktop.services[key]
                   entry == terminal.services[key]
               IN  /\ item.change = entry.change
                   /\ item.change = "modified" =>
                        DOMAIN entry.fields \subseteq DOMAIN item.fields
                   /\ item.change = "modified" =>
                        DOMAIN item.fields \ DOMAIN entry.fields \subseteq {"start"}
    <3> DEFINE c == CHOOSE c \in V : c.key = key
               old == ArtifactOf[c.before]
               new == ArtifactOf[c.after]
    <3>1. desktop.services[key] = ServiceItem(c)
      BY <2>4, <2>7, SectionItem
    <3>2. terminal.services[key] = HumanService(c)
      BY <2>4, <2>5, <2>7, SectionItem
    <3>3. ServiceItem(c).change = c.change /\ HumanService(c).change = c.change
      BY DEF ServiceItem, HumanService
    <3>4. CASE c.change = "modified"
      <4>1. DOMAIN ServiceItem(c).fields =
              {f \in ServiceFields : Source(old, f) # Source(new, f)}
        BY <3>4 DEF ServiceItem
      <4>2. DOMAIN HumanService(c).fields = {f \in ServiceFields : old[f] # new[f]}
        BY <3>4 DEF HumanService
      <4>3. \A f \in ServiceFields : f # "start" =>
                Source(old, f) = old[f] /\ Source(new, f) = new[f]
        BY DEF Source
      <4>4. old["start"] # new["start"] => Source(old, "start") # Source(new, "start")
        BY DEF Source
      <4> HIDE DEF old, new
      <4> QED
        BY <3>1, <3>2, <3>3, <4>1, <4>2, <4>3, <4>4
    <3> QED
      BY <3>1, <3>2, <3>3, <3>4
  <2> QED
    BY <2>3, <2>5, <2>6, <2>7
<1>3. ViewsInv => SameStory
  BY <1>2 DEF SameStory
<1> QED
  BY <1>1, <1>3, ViewsInitially, ViewsStep, PTL DEF ViewsSpec, ViewsAgree

-----------------------------------------------------------------------------
(***************************************************************************)
(* The technical text                                                      *)
(***************************************************************************)

\* What technical_literal writes for one character.
Spelled(x) ==
    CASE x = LineFeed -> <<Backslash, "n">>
      [] x \in {Backslash, Quote} -> <<Backslash, x>>
      [] OTHER -> <<x>>

LEMMA SpelledLength ==
  ASSUME NEW X, NEW x \in X
  PROVE  Spelled(x) \in Seq(X \union {Backslash, "n"}) /\ Spelled(x) # <<>>
<1> DEFINE Y == X \union {Backslash, "n"}
<1>1. /\ <<Backslash, "n">> \in Seq(Y) /\ <<Backslash, "n">> # <<>>
      /\ <<Backslash, x>> \in Seq(Y) /\ <<Backslash, x>> # <<>>
      /\ <<x>> \in Seq(Y) /\ <<x>> # <<>>
  OBVIOUS
<1>2. Spelled(x) = <<Backslash, "n">> \/ Spelled(x) = <<Backslash, x>> \/ Spelled(x) = <<x>>
  BY DEF Spelled
<1> HIDE DEF Y
<1>3. Spelled(x) \in Seq(Y) /\ Spelled(x) # <<>>
  BY <1>1, <1>2, Zenon
<1> QED
  BY <1>3 DEF Y

\* No character is spelled as the beginning of another one.
LEMMA SpelledApart ==
  ASSUME NEW x, NEW y, Overlap(Spelled(x), Spelled(y))
  PROVE  x = y
<1>1. \A p \in 1 .. Len(Spelled(x)) : p \in 1 .. Len(Spelled(y)) => Spelled(x)[p] = Spelled(y)[p]
  BY DEF Overlap
<1>2. Backslash # "n" /\ Backslash # Quote /\ Backslash # LineFeed /\ Quote # "n" /\ LineFeed # Quote
  BY DEF Backslash, Quote, LineFeed
<1>3. \/ x = LineFeed /\ Spelled(x) = <<Backslash, "n">>
      \/ x \in {Backslash, Quote} /\ Spelled(x) = <<Backslash, x>>
      \/ x \notin {LineFeed, Backslash, Quote} /\ Spelled(x) = <<x>>
  BY <1>2 DEF Spelled
<1>4. \/ y = LineFeed /\ Spelled(y) = <<Backslash, "n">>
      \/ y \in {Backslash, Quote} /\ Spelled(y) = <<Backslash, y>>
      \/ y \notin {LineFeed, Backslash, Quote} /\ Spelled(y) = <<y>>
  BY <1>2 DEF Spelled
<1>5. Spelled(x)[1] = Spelled(y)[1]
  BY <1>1, <1>3, <1>4
<1>6. CASE x \in {LineFeed, Backslash, Quote} /\ y \in {LineFeed, Backslash, Quote}
  <2>1. Len(Spelled(x)) = 2 /\ Len(Spelled(y)) = 2
    BY <1>3, <1>4, <1>6
  <2>2. Spelled(x)[2] = Spelled(y)[2]
    BY <1>1, <2>1
  <2> QED
    BY <1>2, <1>3, <1>4, <1>6, <2>2
<1>7. CASE x \notin {LineFeed, Backslash, Quote} \/ y \notin {LineFeed, Backslash, Quote}
  BY <1>2, <1>3, <1>4, <1>5, <1>7
<1> QED
  BY <1>6, <1>7

\* Quotes around two texts do not make them equal.
LEMMA BetweenQuotes ==
  ASSUME NEW X, NEW s \in Seq(X), NEW t \in Seq(X), NEW q \in X,
         <<q>> \o s \o <<q>> = <<q>> \o t \o <<q>>
  PROVE  s = t
<1>1. <<q>> \in Seq(X) /\ Len(<<q>>) = 1
  OBVIOUS
<1>2. ASSUME NEW u \in Seq(X)
      PROVE  /\ Len(<<q>> \o u \o <<q>>) = Len(u) + 2
             /\ \A k \in 1 .. Len(u) : (<<q>> \o u \o <<q>>)[k + 1] = u[k]
  <2>1. Len(u) \in Nat
    BY LenProperties
  <2>2. /\ <<q>> \o u \in Seq(X) /\ Len(<<q>> \o u) = 1 + Len(u)
        /\ \A k \in 1 .. 1 + Len(u) : (<<q>> \o u)[k] = IF k <= 1 THEN <<q>>[k] ELSE u[k - 1]
    BY <1>1, ConcatProperties
  <2> DEFINE v == <<q>> \o u
  <2> HIDE DEF v
  <2>3. /\ Len(v \o <<q>>) = Len(v) + 1
        /\ \A k \in 1 .. Len(v) + 1 : (v \o <<q>>)[k] = IF k <= Len(v) THEN v[k] ELSE <<q>>[k - Len(v)]
    BY <1>1, <2>2, ConcatProperties DEF v
  <2>4. ASSUME NEW k \in 1 .. Len(u) PROVE (v \o <<q>>)[k + 1] = u[k]
    <3>1. k + 1 \in 1 .. 1 + Len(u) /\ ~(k + 1 <= 1) /\ k + 1 - 1 = k
      BY <2>1
    <3>2. Len(v) = 1 + Len(u) /\ v[k + 1] = u[k]
      BY <2>2, <3>1 DEF v
    <3>3. k + 1 \in 1 .. Len(v) + 1 /\ k + 1 <= Len(v)
      BY <2>1, <3>1, <3>2
    <3> QED
      BY <2>3, <3>2, <3>3
  <2> QED
    BY <2>1, <2>2, <2>3, <2>4 DEF v
<1>3. Len(s) = Len(t)
  <2>1. Len(s) + 2 = Len(t) + 2 /\ Len(s) \in Nat /\ Len(t) \in Nat
    BY <1>2, LenProperties
  <2> QED
    BY <2>1
<1>4. \A k \in 1 .. Len(s) : s[k] = t[k]
  BY <1>2, <1>3
<1> QED
  BY <1>3, <1>4, SeqEqual

\* A literal says which text it stands for.
LEMMA LiteralInjective ==
  ASSUME NEW s, NEW t, IsText(s), IsText(t), Literal(s) = Literal(t)
  PROVE  s = t
<1> DEFINE X == Range(s) \union Range(t) \union {Quote}
           Y == X \union {Backslash, "n"}
           Each(u) == [k \in 1 .. Len(u) |-> Spelled(u[k])]
<1>1. s \in Seq(X) /\ t \in Seq(X)
  BY DEF IsText
<1>2. /\ Len(s) \in Nat /\ DOMAIN s = 1 .. Len(s) /\ \A k \in 1 .. Len(s) : s[k] \in X
      /\ Len(t) \in Nat /\ DOMAIN t = 1 .. Len(t) /\ \A k \in 1 .. Len(t) : t[k] \in X
  BY <1>1, LenProperties
<1>3. /\ Literal(s) = <<Quote>> \o FlattenSeq(Each(s)) \o <<Quote>>
      /\ Literal(t) = <<Quote>> \o FlattenSeq(Each(t)) \o <<Quote>>
  BY <1>2 DEF Literal, Spelled
<1>4. Quote \in Y
  OBVIOUS
<1> HIDE DEF X
<1>5. \A x \in X : Spelled(x) \in Seq(Y) /\ Spelled(x) # <<>>
  BY SpelledLength
<1> HIDE DEF Y
<1>6. Each(s) \in [1 .. Len(s) -> Seq(Y)] /\ Each(t) \in [1 .. Len(t) -> Seq(Y)]
  BY <1>2, <1>5
<1>7. /\ \A k \in 1 .. Len(s) : Each(s)[k] = Spelled(s[k]) /\ Each(s)[k] # <<>>
      /\ \A k \in 1 .. Len(t) : Each(t)[k] = Spelled(t[k]) /\ Each(t)[k] # <<>>
  BY <1>2, <1>5
<1> HIDE DEF Each
<1>8. FlattenSeq(Each(s)) \in Seq(Y) /\ FlattenSeq(Each(t)) \in Seq(Y)
  BY <1>2, <1>6, FlattenElements
<1>9. FlattenSeq(Each(s)) = FlattenSeq(Each(t))
  BY <1>3, <1>4, <1>8, BetweenQuotes
<1>10. \A i \in 1 .. Len(s), j \in 1 .. Len(t) :
          Overlap(Each(s)[i], Each(t)[j]) => Each(s)[i] = Each(t)[j]
  BY <1>7, SpelledApart
<1>11. Each(s) = Each(t)
  <2>1. PICK m \in Nat, n \in Nat : m = Len(s) /\ n = Len(t)
    BY <1>2
  <2> DEFINE a == Each(s)
             b == Each(t)
  <2>2. a \in [1 .. m -> Seq(Y)] /\ b \in [1 .. n -> Seq(Y)]
    BY <1>6, <2>1
  <2>3. (\A i \in 1 .. m : a[i] # <<>>) /\ (\A j \in 1 .. n : b[j] # <<>>)
    BY <1>7, <2>1
  <2>4. \A i \in 1 .. m, j \in 1 .. n : Overlap(a[i], b[j]) => a[i] = b[j]
    BY <1>10, <2>1
  <2>5. FlattenSeq(a) = FlattenSeq(b)
    BY <1>9
  <2> HIDE DEF a, b
  <2>6. Separable(a, m, b, n)
    BY <2>3, <2>4 DEF Separable
  <2>7. a = b
    BY <2>1, <2>2, <2>5, <2>6, FlattenInjective
  <2> QED
    BY <2>7 DEF a, b
<1>12. Len(s) = Len(t)
  <2>1. Len(Each(s)) = Len(s) /\ Len(Each(t)) = Len(t)
    BY <1>2, <1>6
  <2> QED
    BY <1>11, <2>1
<1>13. ASSUME NEW k \in 1 .. Len(s) PROVE s[k] = t[k]
  <2>1. Spelled(s[k]) = Spelled(t[k])
    BY <1>7, <1>11, <1>12
  <2> QED
    BY <2>1, SpelledApart DEF Overlap
<1> QED
  BY <1>1, <1>12, <1>13, SeqEqual

LEMMA OptionalInjective ==
  ASSUME NEW a, NEW b, IsOptionalText(a), IsOptionalText(b),
         OptionalLiteral(a) = OptionalLiteral(b)
  PROVE  a = b
<1>1. ASSUME NEW t, IsText(t) PROVE Literal(t) # <<"none">>
  <2> DEFINE inner == FlattenSeq([k \in DOMAIN t |-> Spelled(t[k])])
             Y == Range(t) \union {Quote} \union {Backslash, "n"}
  <2>1. t \in Seq(Range(t)) /\ Len(t) \in Nat /\ DOMAIN t = 1 .. Len(t)
    BY <1>1, LenProperties DEF IsText
  <2>2. [k \in DOMAIN t |-> Spelled(t[k])] \in [1 .. Len(t) -> Seq(Y)]
    <3>1. \A k \in DOMAIN t : t[k] \in Range(t) \union {Quote}
      BY DEF Range
    <3>2. \A x \in Range(t) \union {Quote} : Spelled(x) \in Seq(Y)
      BY SpelledLength
    <3> HIDE DEF Y
    <3> QED
      BY <2>1, <3>1, <3>2
  <2>3. inner \in Seq(Y)
    <3> HIDE DEF Y
    <3> QED
      BY <2>1, <2>2, FlattenElements
  <2>4. Literal(t) = <<Quote>> \o inner \o <<Quote>>
    BY DEF Literal, Spelled
  <2>5. <<Quote>> \in Seq(Y)
    OBVIOUS
  <2> HIDE DEF inner, Y
  <2>6. Len(<<Quote>> \o inner \o <<Quote>>) = 1 + Len(inner) + 1 /\ Len(inner) \in Nat
    BY <2>3, <2>5, ConcatProperties, LenProperties
  <2>7. Len(<<"none">>) = 1
    OBVIOUS
  <2> QED
    BY <2>4, <2>6, <2>7
<1>2. /\ OptionalLiteral(a) = IF a = <<>> THEN <<"none">> ELSE Literal(a[1])
      /\ OptionalLiteral(b) = IF b = <<>> THEN <<"none">> ELSE Literal(b[1])
  BY DEF OptionalLiteral, Given
<1>3. CASE a = <<>> \/ b = <<>>
  BY <1>1, <1>2, <1>3 DEF IsOptionalText
<1>4. CASE a # <<>> /\ b # <<>>
  <2>1. a = <<a[1]>> /\ IsText(a[1]) /\ b = <<b[1]>> /\ IsText(b[1])
    BY <1>4 DEF IsOptionalText
  <2>2. a[1] = b[1]
    BY <1>2, <1>4, <2>1, LiteralInjective
  <2> QED
    BY <2>1, <2>2
<1> QED
  BY <1>3, <1>4

\* The text of a service tells all of it, but for control characters in its path
\* and its dependencies.
LEMMA ServiceShown ==
  ASSUME NEW a, NEW b, a.kind = "service", b.kind = "service", IsService(a), IsService(b),
         a.name = b.name, TechnicalService(a) = TechnicalService(b)
  PROVE  Alike(a, b)
<1>1. /\ OptionalLiteral(a.display) = OptionalLiteral(b.display)
      /\ <<a.type, a.start, a.error, a.tag>> = <<b.type, b.start, b.error, b.tag>>
      /\ Escape(a.path) = Escape(b.path)
      /\ OptionalLiteral(a.account) = OptionalLiteral(b.account)
      /\ Escapes(a.dependencies) = Escapes(b.dependencies)
      /\ OptionalLiteral(a.group) = OptionalLiteral(b.group)
      /\ a.delayed = b.delayed
      /\ OptionalLiteral(a.description) = OptionalLiteral(b.description)
  BY DEF TechnicalService
<1>2. /\ IsOptionalText(a.display) /\ IsOptionalText(b.display)
      /\ IsOptionalText(a.account) /\ IsOptionalText(b.account)
      /\ IsOptionalText(a.group) /\ IsOptionalText(b.group)
      /\ IsOptionalText(a.description) /\ IsOptionalText(b.description)
  BY DEF IsService
<1>3. /\ a.display = b.display /\ a.account = b.account /\ a.group = b.group
      /\ a.description = b.description
  BY <1>1, <1>2, OptionalInjective
<1>4. a.type = b.type /\ a.start = b.start /\ a.error = b.error /\ a.tag = b.tag
  BY <1>1
<1> QED
  BY <1>1, <1>3, <1>4 DEF Alike, ServiceFields

LEMMA PairEqual ==
  ASSUME NEW x, NEW y, NEW z, NEW w, <<x, y>> = <<z, w>>
  PROVE  x = z /\ y = w
OBVIOUS

\* A decoded value is told with its kind and all of its texts.
LEMMA ValueShown ==
  ASSUME NEW v, NEW w, IsValue(v), IsValue(w), TechnicalDecoded(v) = TechnicalDecoded(w)
  PROVE  v = w
<1>1. TechnicalDecoded(v)[1] = v[1] /\ TechnicalDecoded(w)[1] = w[1]
  BY DEF TechnicalDecoded
<1>2. v[1] = w[1]
  BY <1>1
<1>3. CASE v[1] \in {"string", "expand"}
  <2>1. /\ v = <<v[1], v[2]>> /\ IsText(v[2]) /\ w = <<w[1], w[2]>> /\ IsText(w[2])
    BY <1>2, <1>3 DEF IsValue
  <2>2. /\ TechnicalDecoded(v) = <<v[1], Literal(v[2])>>
        /\ TechnicalDecoded(w) = <<w[1], Literal(w[2])>>
    BY <1>2, <1>3 DEF TechnicalDecoded
  <2>3. Literal(v[2]) = Literal(w[2])
    <3>1. <<v[1], Literal(v[2])>> = <<w[1], Literal(w[2])>>
      BY <2>2
    <3> QED
      BY <3>1, PairEqual
  <2>4. v[2] = w[2]
    BY <2>1, <2>3, LiteralInjective
  <2> QED
    BY <1>2, <2>1, <2>4
<1>4. CASE v[1] = "multi"
  <2> DEFINE s == v[2]
             t == w[2]
  <2>1. /\ v = <<v[1], s>> /\ IsText(s) /\ \A x \in Range(s) : IsText(x)
        /\ w = <<w[1], t>> /\ IsText(t) /\ \A x \in Range(t) : IsText(x)
    BY <1>2, <1>4 DEF IsValue
  <2>2. /\ TechnicalDecoded(v) = <<v[1], [k \in DOMAIN s |-> Literal(s[k])]>>
        /\ TechnicalDecoded(w) = <<w[1], [k \in DOMAIN t |-> Literal(t[k])]>>
    BY <1>2, <1>4 DEF TechnicalDecoded
  <2> HIDE DEF s, t
  <2>3. [k \in DOMAIN s |-> Literal(s[k])] = [k \in DOMAIN t |-> Literal(t[k])]
    <3> DEFINE F == [k \in DOMAIN s |-> Literal(s[k])]
               G == [k \in DOMAIN t |-> Literal(t[k])]
    <3>1. TechnicalDecoded(v) = <<v[1], F>> /\ TechnicalDecoded(w) = <<w[1], G>>
      BY <2>2
    <3> HIDE DEF F, G
    <3>2. <<v[1], F>> = <<w[1], G>>
      BY <3>1
    <3>3. F = G
      BY <3>2, PairEqual
    <3> QED
      BY <3>3 DEF F, G
  <2>4. DOMAIN s = DOMAIN t /\ \A k \in DOMAIN s : Literal(s[k]) = Literal(t[k])
    BY <2>3
  <2>5. \A k \in DOMAIN s : s[k] = t[k]
    <3> SUFFICES ASSUME NEW k \in DOMAIN s PROVE s[k] = t[k]
      OBVIOUS
    <3>1. IsText(s[k]) /\ IsText(t[k])
      BY <2>1, <2>4 DEF Range
    <3> QED
      BY <2>4, <3>1, LiteralInjective
  <2>6. s = t
    <3> DEFINE X == Range(s) \union Range(t)
    <3>1. s \in Seq(X) /\ t \in Seq(X)
      BY <2>1 DEF IsText
    <3> HIDE DEF X
    <3>2. DOMAIN s = 1 .. Len(s) /\ DOMAIN t = 1 .. Len(t) /\ Len(s) \in Nat /\ Len(t) \in Nat
      BY <3>1, LenProperties
    <3>3. Len(s) = Len(t)
      <4> DEFINE m == Len(s)
                 n == Len(t)
      <4>1. m \in Nat /\ n \in Nat /\ \A k \in Nat : k \in 1 .. m <=> k \in 1 .. n
        BY <2>4, <3>2
      <4> HIDE DEF m, n
      <4>2. m + 1 \in Nat /\ m + 1 \notin 1 .. m /\ n + 1 \in Nat /\ n + 1 \notin 1 .. n
        BY <4>1
      <4>3. m + 1 \notin 1 .. n /\ n + 1 \notin 1 .. m
        BY <4>1, <4>2
      <4>4. m = n
        BY <4>1, <4>3
      <4> QED
        BY <4>4 DEF m, n
    <3> QED
      BY <2>5, <3>1, <3>2, <3>3, SeqEqual
  <2> QED
    BY <1>2, <2>1, <2>6
<1>5. CASE v[1] \notin {"string", "expand", "multi"}
  BY <1>2, <1>5 DEF TechnicalDecoded
<1> QED
  BY <1>3, <1>4, <1>5

\* The text of a registry entry tells all of it, but for what its name looks like.
LEMMA EntryShown ==
  ASSUME NEW a, NEW b, a.kind = "registry", b.kind = "registry", IsEntry(a), IsEntry(b),
         ~Renamed(a, b), TechnicalRegistry(a) = TechnicalRegistry(b)
  PROVE  a = b
<1>1. a.location = b.location /\ a.decoded = b.decoded /\ a.name = b.name
  BY DEF Renamed
<1>2. TechnicalDecoded(a.value) = TechnicalDecoded(b.value) /\ a.content = b.content
  BY DEF TechnicalRegistry
<1>3. a.value = b.value
  BY <1>2, ValueShown DEF IsEntry
<1> QED
  BY <1>1, <1>2, <1>3 DEF IsEntry

\* A modified artifact was observed in both documents, under its key.
LEMMA ModifiedObserved ==
  ASSUME CallInv, Compared, NEW c \in changes, c.change = "modified"
  PROVE  \E o \in Range(before.observations), p \in Range(after.observations) :
            /\ o.datum = c.before /\ p.datum = c.after
            /\ KeyOf(o) = c.key /\ KeyOf(p) = c.key
            /\ c.before # c.after
<1>1. Accepted(before) /\ Accepted(after) /\ changes = Changes(before, after)
  BY ListedChanges
<1>2. c \in AllChanges(before, after)
  BY <1>1 DEF AllChanges
<1>3. /\ c.before = Lookup(before, c.key) /\ c.after = Lookup(after, c.key)
      /\ c.before # c.after
      /\ c.change = Classify(c.before, c.after, CoverageComplete(before, after, c.key))
  BY <1>1, <1>2, ChangeListed
<1>4. c.before # Absent /\ c.after # Absent
  BY <1>3 DEF Classify
<1>5. PICK o \in Range(before.observations) : KeyOf(o) = c.key
  BY <1>1, <1>3, <1>4, AbsentKey
<1>6. PICK p \in Range(after.observations) : KeyOf(p) = c.key
  BY <1>1, <1>3, <1>4, AbsentKey
<1>7. o.datum = c.before
  BY <1>1, <1>3, <1>5, DatumOfObservation
<1>8. p.datum = c.after
  BY <1>1, <1>3, <1>6, DatumOfObservation
<1> QED
  BY <1>3, <1>5, <1>6, <1>7, <1>8

\* What the technical text says of a change is found under its key.
LEMMA TechnicalOf ==
  ASSUME CallInv, Compared, NEW include \in BOOLEAN, NEW c \in changes
  PROVE  TechnicalText(Listed(include)).changes[c.key] = TechnicalChange(c)
<1> DEFINE cs == Listed(include)
           shown == [d \in cs |-> TechnicalChange(d)]
<1>1. c \in cs /\ cs \subseteq AllChanges(before, after)
  BY ListedChanges
<1> HIDE DEF cs
<1>2. TechnicalText(cs).changes = ByKey(shown)
  BY DEF TechnicalText
<1>3. DOMAIN shown = cs /\ shown[c] = TechnicalChange(c)
  BY <1>1
<1>4. c.key \in DOMAIN ByKey(shown)
  BY <1>1, <1>3 DEF ByKey
<1> DEFINE d == CHOOSE d \in DOMAIN shown : d.key = c.key
<1>5. d \in DOMAIN shown /\ d.key = c.key /\ ByKey(shown)[c.key] = shown[d]
  <2> HIDE DEF shown
  <2> QED
    BY <1>4, SectionItem
<1> HIDE DEF d
<1>6. d = c
  BY <1>1, <1>3, <1>5, OneChangePerKey
<1> QED
  BY <1>2, <1>3, <1>5, <1>6 DEF cs

\* Whatever has been modified can be told from the technical text, for texts of
\* any length: a literal determines its text, and what is not printed as a
\* literal is equal by the key or is one of the exceptions of the property.
THEOREM ModifiedIsShown == ViewsSpec => []DifferenceShown
<1>1. ASSUME ViewsInv, technical # NoView, NEW c \in changes, c.change = "modified",
             Shown(c).kind # "task",
             ~Alike(ArtifactOf[c.before], ArtifactOf[c.after]),
             ~Renamed(ArtifactOf[c.before], ArtifactOf[c.after])
      PROVE  technical.changes[c.key].old # technical.changes[c.key].new
  <2> DEFINE a == ArtifactOf[c.before]
             b == ArtifactOf[c.after]
  <2>1. PICK include \in BOOLEAN : technical = TechnicalText(Listed(include))
    BY <1>1 DEF ViewsInv
  <2>2. CallInv /\ Compared
    BY <1>1 DEF ViewsInv
  <2>3. /\ technical.changes[c.key].old = TechnicalArtifact(c.before)
        /\ technical.changes[c.key].new = TechnicalArtifact(c.after)
    <3>1. technical.changes[c.key] = TechnicalChange(c)
      BY <2>1, <2>2, TechnicalOf
    <3> QED
      BY <3>1 DEF TechnicalChange
  <2>4. PICK o \in Range(before.observations) : \E p \in Range(after.observations) :
            /\ o.datum = c.before /\ p.datum = c.after
            /\ KeyOf(o) = c.key /\ KeyOf(p) = c.key
            /\ c.before # c.after
    BY <1>1, <2>2, ModifiedObserved
  <2>5. PICK p \in Range(after.observations) :
            /\ o.datum = c.before /\ p.datum = c.after
            /\ KeyOf(o) = c.key /\ KeyOf(p) = c.key
            /\ c.before # c.after
    BY <2>4
  <2>6. before \in Documents /\ after \in Documents
    BY <2>1, <2>2, ListedChanges
  <2>7. /\ c.before \in DOMAIN ArtifactOf /\ c.after \in DOMAIN ArtifactOf
        /\ c.before # Absent /\ c.after # Absent
    BY <2>5, <2>6, ArtifactsKnown, DocumentsAssumption
  <2>8. a # b
    BY <2>5, <2>7, ArtifactsDistinct DEF IsInjective
  <2>9. b.kind \in {"registry", "service"} /\ a.kind \in Kinds
    BY <1>1, <2>7, ArtifactsKinds DEF Shown, ShownDatum, Kinds
  <2>10. /\ a.kind = "service" => IsService(a)
         /\ a.kind = "registry" => IsEntry(a)
         /\ b.kind = "service" => IsService(b)
         /\ b.kind = "registry" => IsEntry(b)
    BY <2>7, ArtifactsShaped
  <2>11. a.kind = "service" /\ b.kind = "service" => a.name = b.name
    BY <2>5, <2>6, ServicesNamedByKey
  <2>12. /\ a.kind = "service" => TechnicalArtifact(c.before) = <<"service", TechnicalService(a)>>
         /\ a.kind = "registry" => TechnicalArtifact(c.before) = <<"registry", TechnicalRegistry(a)>>
         /\ a.kind = "task" => TechnicalArtifact(c.before) = <<"task", TechnicalTask(a)>>
         /\ b.kind = "service" => TechnicalArtifact(c.after) = <<"service", TechnicalService(b)>>
         /\ b.kind = "registry" => TechnicalArtifact(c.after) = <<"registry", TechnicalRegistry(b)>>
    BY <2>7 DEF TechnicalArtifact
  <2>13. ~Alike(a, b) /\ ~Renamed(a, b)
    BY <1>1
  <2> HIDE DEF a, b
  <2>14. CASE a.kind = "service" /\ b.kind = "service"
    BY <2>3, <2>10, <2>11, <2>12, <2>13, <2>14, PairEqual, ServiceShown
  <2>15. CASE a.kind = "registry" /\ b.kind = "registry"
    BY <2>3, <2>8, <2>10, <2>12, <2>13, <2>15, PairEqual, EntryShown
  <2>16. CASE a.kind # b.kind
    <3>1. \A x, y, z, w : <<x, y>> = <<z, w>> => x = z
      BY PairEqual
    <3>2. a.kind \in {"registry", "service", "task"}
      BY <2>9 DEF Kinds
    <3> QED
      BY <2>3, <2>9, <2>12, <2>16, <3>1, <3>2
  <2> QED
    BY <2>9, <2>14, <2>15, <2>16
<1>2. ViewsInv => DifferenceShown
  BY <1>1 DEF DifferenceShown
<1> QED
  BY <1>2, ViewsInitially, ViewsStep, PTL DEF ViewsSpec

-----------------------------------------------------------------------------
(***************************************************************************)
(* The Snapshot of a capture                                               *)
(***************************************************************************)

\* A name has one datum, so a key has no more records than there are names.
LEMMA ContentsFinite ==
  ASSUME NEW rs \in Contents
  PROVE  IsFiniteSet(rs)
<1> DEFINE f == [r \in rs |-> r.name]
<1>1. \A r \in rs : r.name \in Names
  BY DEF Contents, Records
<1>2. \A q, r \in rs : q.name = r.name => q = r
  BY DEF Contents, Functional
<1>3. f \in Injection(rs, Names)
  BY <1>1, <1>2 DEF Injection, IsInjective
<1> HIDE DEF f
<1> QED
  BY <1>3, FS_Injection, CompareAssumption

\* InOrder lists every record of a key once, and nothing else.
LEMMA InOrderElements ==
  ASSUME NEW rs \in Contents
  PROVE  /\ InOrder(rs) \in Seq(rs)
         /\ Range(InOrder(rs)) = rs
<1> DEFINE n == Cardinality(rs)
           D == 1 .. n
           Sorted(seq) == \A i, j \in DOMAIN seq : i < j => seq[i].name < seq[j].name
<1>1. n \in Nat /\ IsFiniteSet(D) /\ Cardinality(D) = n /\ IsFiniteSet(rs)
  BY ContentsFinite, FS_CardinalityType, FS_Interval
<1>2. PICK b \in [D -> rs] : \A i, j \in D : b[i] = b[j] => i = j
  <2>1. ExistsBijection(D, rs)
    BY ContentsFinite, FS_CardinalityType
  <2> QED
    BY <2>1 DEF ExistsBijection, Bijection, Injection, IsInjective
<1>3. \A r \in rs : r.name \in Nat
  <2>1. \A r \in rs : r.name \in Names
    BY DEF Contents, Records
  <2> QED
    BY <2>1, CompareAssumption
<1>4. \A i, j \in D : b[i].name = b[j].name => i = j
  BY <1>2 DEF Contents, Functional
<1>16. \A i \in D : b[i].name \in Nat
  BY <1>2, <1>3
<1> HIDE DEF n
<1> DEFINE L == {x \in D \X D : b[x[1]].name < b[x[2]].name}
<1>5. \A i, j \in D : <<i, j>> \in L <=> b[i].name < b[j].name
  OBVIOUS
<1>6. L \in SUBSET (D \X D)
  OBVIOUS
<1> HIDE DEF L
<1>7. \A i, j \in D : i # j => <<i, j>> \in L \/ <<j, i>> \in L
  <2> SUFFICES ASSUME NEW i \in D, NEW j \in D, i # j PROVE <<i, j>> \in L \/ <<j, i>> \in L
    OBVIOUS
  <2>1. b[i].name # b[j].name /\ b[i].name \in Nat /\ b[j].name \in Nat
    BY <1>4, <1>16
  <2> QED
    BY <1>5, <2>1
<1>17. \A i, j, k \in D : <<i, j>> \in L /\ <<j, k>> \in L => <<i, k>> \in L
  <2> SUFFICES ASSUME NEW i \in D, NEW j \in D, NEW k \in D, <<i, j>> \in L, <<j, k>> \in L
               PROVE  <<i, k>> \in L
    OBVIOUS
  <2>1. b[i].name \in Nat /\ b[j].name \in Nat /\ b[k].name \in Nat
    BY <1>16
  <2>2. b[i].name < b[j].name /\ b[j].name < b[k].name
    BY <1>5
  <2>3. b[i].name < b[k].name
    BY <2>1, <2>2
  <2> QED
    BY <1>5, <2>3
<1>18. \A i, j \in D : ~(<<i, j>> \in L /\ <<j, i>> \in L)
  <2> SUFFICES ASSUME NEW i \in D, NEW j \in D, <<i, j>> \in L, <<j, i>> \in L PROVE FALSE
    OBVIOUS
  <2>1. b[i].name \in Nat /\ b[j].name \in Nat
    BY <1>16
  <2>2. b[i].name < b[j].name /\ b[j].name < b[i].name
    BY <1>5
  <2> QED
    BY <2>1, <2>2
<1>8. PICK p \in [D -> D] : \A i, j \in D : i < j => <<p[i], p[j]>> \in L
  <2>1. \E p \in [D -> D] :
            /\ p \in Injection(D, D) /\ p \in Surjection(D, D)
            /\ \A i, j \in D : i < j => <<p[i], p[j]>> \in L
    BY <1>1, <1>6, <1>7, <1>17, <1>18, OrderedIndexes
  <2> QED
    BY <2>1
<1>9. \E seq \in [D -> rs] : Sorted(seq)
  <2> DEFINE seq == [i \in D |-> b[p[i]]]
  <2>1. seq \in [D -> rs] /\ \A i \in D : seq[i] = b[p[i]]
    OBVIOUS
  <2>2. \A i, j \in D : i < j => b[p[i]].name < b[p[j]].name
    BY <1>5, <1>8
  <2>3. Sorted(seq)
    BY <2>1, <2>2
  <2> QED
    BY <2>1, <2>3
<1> DEFINE s == InOrder(rs)
<1>10. s \in [D -> rs] /\ Sorted(s)
  BY <1>9 DEF InOrder, n
<1> HIDE DEF s
<1>11. \A i, j \in D : s[i] = s[j] => i = j
  <2> SUFFICES ASSUME NEW i \in D, NEW j \in D, s[i] = s[j], i # j PROVE FALSE
    OBVIOUS
  <2>1. s[i].name < s[j].name \/ s[j].name < s[i].name
    <3>1. i < j \/ j < i
      BY <1>1
    <3> QED
      BY <1>10, <3>1
  <2>2. s[i].name \in Nat /\ s[j].name = s[i].name
    BY <1>3, <1>10
  <2> QED
    BY <2>1, <2>2
<1>12. s \in Injection(D, rs)
  BY <1>10, <1>11 DEF Injection, IsInjective
<1>13. s \in Surjection(D, rs)
  BY <1>1, <1>12, FS_Injection DEF n
<1>14. Range(s) = rs
  BY <1>10, <1>13 DEF Range, Surjection
<1>15. s \in Seq(rs)
  BY <1>1, <1>10
<1> QED
  BY <1>14, <1>15 DEF s

\* The outcomes of the scopes of a capture.
Collected(res) == DOMAIN res = 1 .. Scopes /\ \A s \in 1 .. Scopes : res[s].found \in Contents

\* The document has one run, with one entry for each scope.
LEMMA SnapshotRun ==
  ASSUME NEW res, Collected(res)
  PROVE  LET doc == Snapshot(res)
             run == doc.runs[1]
         IN  /\ doc.runs = <<run>> /\ run.id = "registry"
             /\ run.coverage = [s \in 1 .. Scopes |-> [scope |-> s, status |-> res[s].status]]
<1> DEFINE R == [s \in 1 .. Scopes |->
                   [status |-> res[s].status, found |-> InOrder(res[s].found)]]
           cov == [s \in DOMAIN R |-> [scope |-> s, status |-> R[s].status]]
           mine == [s \in 1 .. Scopes |-> [scope |-> s, status |-> res[s].status]]
<1>1. cov = mine
  OBVIOUS
<1>2. Run!Coverage("known", R) = <<>> \o cov
  BY DEF Run!Coverage, Run!Precomputed
<1>3. mine \in Seq({mine[s] : s \in 1 .. Scopes})
  BY CompareAssumption
<1>4. Run!Coverage("known", R) = mine
  <2> HIDE DEF R, cov, mine
  <2> QED
    BY <1>1, <1>2, <1>3, ConcatEmptySeq
<1>5. Snapshot(res) = Run!Document("known", R)
  BY DEF Snapshot
<1> HIDE DEF R
<1> DEFINE cover == Run!Coverage("known", R)
           line == [id |-> "registry", version |-> 1, coverage |-> cover,
                    status |-> Run!Aggregate({c.status : c \in Run!Range(cover)}),
                    diagnosed |-> {c.scope : c \in {x \in Run!Range(cover) : x.status # "complete"}}]
           observed == Run!FlattenSeq([s \in DOMAIN R |->
                         [k \in DOMAIN R[s].found |-> Run!Observed(s, R[s].found[k])]])
<1>6. Snapshot(res).runs = <<line>>
  <2>1. Snapshot(res) = [enabled |-> <<"registry">>, runs |-> <<line>>, observations |-> observed]
    BY <1>5, Zenon DEF Run!Document
  <2> HIDE DEF line, observed
  <2> QED
    BY <2>1
<1>7. line.id = "registry" /\ line.coverage = cover
  OBVIOUS
<1> HIDE DEF line, cover
<1>8. Snapshot(res).runs[1] = line
  BY <1>6
<1> QED
  BY <1>4, <1>6, <1>7, <1>8 DEF cover

\* Its observations are the records found in its scopes.
LEMMA SnapshotObservations ==
  ASSUME NEW res, Collected(res)
  PROVE  LET obs == Snapshot(res).observations
             found == {x \in (1 .. Scopes) \X Records : x[2] \in res[x[1]].found}
         IN  /\ obs \in Seq(Range(obs))
             /\ Range(obs) = {Run!Observed(x[1], x[2]) : x \in found}
<1> DEFINE R == [s \in 1 .. Scopes |->
                   [status |-> res[s].status, found |-> InOrder(res[s].found)]]
           found == {x \in (1 .. Scopes) \X Records : x[2] \in res[x[1]].found}
           X == {Run!Observed(x[1], x[2]) : x \in found}
           Seen(s) == [k \in DOMAIN R[s].found |-> Run!Observed(s, R[s].found[k])]
           seqs == [s \in DOMAIN R |-> Seen(s)]
           obs == Snapshot(res).observations
<1>1. obs = FlattenSeq(seqs)
  <2>1. Snapshot(res) = Run!Document("known", R)
    BY DEF Snapshot
  <2> HIDE DEF R
  <2>2. obs = Run!FlattenSeq(seqs)
    BY <2>1 DEF Run!Document
  <2> HIDE DEF seqs, obs
  <2> QED
    BY <2>2 DEF Run!FlattenSeq, FlattenSeq
<1>2. ASSUME NEW s \in 1 .. Scopes
      PROVE  /\ Seen(s) \in Seq(X)
             /\ Range(Seen(s)) = {Run!Observed(s, r) : r \in res[s].found}
  <2> DEFINE list == InOrder(res[s].found)
  <2>1. list \in Seq(res[s].found) /\ Range(list) = res[s].found
    BY InOrderElements DEF Collected
  <2>2. Len(list) \in Nat /\ DOMAIN list = 1 .. Len(list)
    BY <2>1, LenProperties
  <2>3. Seen(s) = [k \in 1 .. Len(list) |-> Run!Observed(s, list[k])]
    BY <2>2
  <2> HIDE DEF list, Seen
  <2>4. \A r \in res[s].found : Run!Observed(s, r) \in X
    <3>1. \A r \in res[s].found : r \in Records
      BY DEF Collected, Contents
    <3>2. \A r \in res[s].found : <<s, r>> \in found
      BY <3>1
    <3>3. \A r \in res[s].found : Run!Observed(<<s, r>>[1], <<s, r>>[2]) \in X
      <4> HIDE DEF found
      <4> QED
        BY <3>2
    <3> HIDE DEF X
    <3> QED
      BY <3>3
  <2>5. \A k \in 1 .. Len(list) : list[k] \in res[s].found
    BY <2>1, <2>2 DEF Range
  <2> HIDE DEF X
  <2>6. Seen(s) \in Seq(X)
    BY <2>2, <2>3, <2>4, <2>5
  <2>7. Range(Seen(s)) = {Run!Observed(s, r) : r \in Range(list)}
    BY <2>2, <2>3 DEF Range
  <2> QED
    BY <2>1, <2>6, <2>7
<1>3. seqs = [s \in 1 .. Scopes |-> Seen(s)]
  OBVIOUS
<1> HIDE DEF Seen, seqs, X
<1>4. seqs \in [1 .. Scopes -> Seq(X)]
  BY <1>2, <1>3
<1>5. obs \in Seq(X) /\ Range(obs) = UNION {Range(seqs[s]) : s \in 1 .. Scopes}
  BY <1>1, <1>4, CompareAssumption, FlattenElements
<1>6. UNION {Range(seqs[s]) : s \in 1 .. Scopes}
        = UNION {{Run!Observed(s, r) : r \in res[s].found} : s \in 1 .. Scopes}
  BY <1>2, <1>3
<1>7. X = UNION {{Run!Observed(s, r) : r \in res[s].found} : s \in 1 .. Scopes}
  <2>1. \A s \in 1 .. Scopes : \A r \in res[s].found : r \in Records
    BY DEF Collected, Contents
  <2>2. ASSUME NEW o \in X
        PROVE  \E s \in 1 .. Scopes : \E r \in res[s].found : o = Run!Observed(s, r)
    <3>1. PICK x \in found : o = Run!Observed(x[1], x[2])
      BY DEF X
    <3>2. x[1] \in 1 .. Scopes /\ x[2] \in res[x[1]].found
      OBVIOUS
    <3> QED
      BY <3>1, <3>2
  <2>3. ASSUME NEW s \in 1 .. Scopes, NEW r \in res[s].found
        PROVE  Run!Observed(s, r) \in X
    <3>1. <<s, r>> \in found
      BY <2>1
    <3> HIDE DEF found
    <3> QED
      BY <3>1 DEF X
  <2> QED
    BY <2>2, <2>3
<1>8. obs \in Seq(Range(obs))
  <2>1. Len(obs) \in Nat /\ DOMAIN obs = 1 .. Len(obs) /\ obs \in [1 .. Len(obs) -> X]
    BY <1>5, LenProperties
  <2> HIDE DEF obs
  <2>2. obs \in [1 .. Len(obs) -> Range(obs)]
    BY <2>1 DEF Range
  <2> QED
    BY <2>1, <2>2
<1> QED
  BY <1>5, <1>6, <1>7, <1>8 DEF X

LEMMA SnapshotAccepted ==
  ASSUME NEW res, Collected(res), Validates(Snapshot(res))
  PROVE  Accepted(Snapshot(res))
<1> DEFINE doc == Snapshot(res)
           run == doc.runs[1]
<1>1. /\ doc.runs = <<run>>
      /\ run.coverage = [s \in 1 .. Scopes |-> [scope |-> s, status |-> res[s].status]]
  BY SnapshotRun
<1>2. /\ doc.observations \in Seq(Range(doc.observations))
      /\ \A o \in Range(doc.observations) : \E r \in Records : \E s \in 1 .. Scopes :
            o = Run!Observed(s, r)
  BY SnapshotObservations
<1>3. Range(doc.runs) = {run} /\ doc.runs \in Seq(Range(doc.runs))
  <2> HIDE DEF doc, run
  <2> QED
    BY <1>1 DEF Range
<1>4. run.coverage \in Seq(Range(run.coverage))
  <2>1. Scopes \in Nat
    BY CompareAssumption
  <2> HIDE DEF run
  <2> DEFINE cov == run.coverage
  <2>2. DOMAIN cov = 1 .. Scopes /\ cov = [s \in 1 .. Scopes |-> cov[s]]
    BY <1>1
  <2> HIDE DEF cov
  <2>3. cov \in [1 .. Scopes -> Range(cov)]
    BY <2>2 DEF Range
  <2> QED
    BY <2>1, <2>3 DEF cov
<1>5. \A o \in Range(doc.observations) : o.datum # Absent
  <2>1. \A s \in 1 .. Scopes : \A r \in Records : Run!Observed(s, r).datum = r.datum
    BY DEF Run!Observed
  <2>2. \A r \in Records : r.datum # Absent
    BY CompareAssumption DEF Records
  <2> QED
    BY <1>2, <2>1, <2>2
<1> HIDE DEF doc, run
<1> QED
  BY <1>2, <1>3, <1>4, <1>5 DEF Accepted, Shaped, doc

\* Its artifacts by key are the data found.
LEMMA SnapshotLookup ==
  ASSUME NEW res, Collected(res), Validates(Snapshot(res))
  PROVE  LET doc == Snapshot(res)
         IN  /\ \A s \in 1 .. Scopes : \A r \in res[s].found :
                    LET key == <<"registry", s, r.name>>
                    IN  key \in DOMAIN Index(doc) /\ Lookup(doc, key) = r.datum
             /\ \A key : key \in DOMAIN Index(doc) \/ Lookup(doc, key) # Absent =>
                    \E s \in 1 .. Scopes : \E r \in res[s].found :
                        key = <<"registry", s, r.name>>
<1> DEFINE doc == Snapshot(res)
<1>1. Accepted(doc)
  BY SnapshotAccepted
<1>2. \A o : o \in Range(doc.observations) <=>
                \E s \in 1 .. Scopes : \E r \in res[s].found : o = Run!Observed(s, r)
  <2> DEFINE found == {x \in (1 .. Scopes) \X Records : x[2] \in res[x[1]].found}
  <2>1. Range(doc.observations) = {Run!Observed(x[1], x[2]) : x \in found}
    BY SnapshotObservations
  <2>2. ASSUME NEW s \in 1 .. Scopes, NEW r \in res[s].found
        PROVE  <<s, r>> \in found
    <3>1. r \in Records
      BY DEF Collected, Contents
    <3> QED
      BY <3>1
  <2>3. \A s \in 1 .. Scopes : \A r \in res[s].found :
            Run!Observed(<<s, r>>[1], <<s, r>>[2]) \in Range(doc.observations)
    <3> HIDE DEF found, doc
    <3> QED
      BY <2>1, <2>2
  <2>4. \A x \in found : x[1] \in 1 .. Scopes /\ x[2] \in res[x[1]].found
    OBVIOUS
  <2> HIDE DEF found, doc
  <2> QED
    BY <2>1, <2>3, <2>4
<1>3. \A s \in 1 .. Scopes : \A r \in res[s].found :
        /\ KeyOf(Run!Observed(s, r)) = <<"registry", s, r.name>>
        /\ Run!Observed(s, r).datum = r.datum
  BY DEF KeyOf, Run!Observed
<1> HIDE DEF doc
<1>4. ASSUME NEW s \in 1 .. Scopes, NEW r \in res[s].found
      PROVE  LET key == <<"registry", s, r.name>>
             IN  key \in DOMAIN Index(doc) /\ Lookup(doc, key) = r.datum
  <2>1. Run!Observed(s, r) \in Range(doc.observations)
    BY <1>2
  <2>2. /\ KeyOf(Run!Observed(s, r)) \in DOMAIN Index(doc)
        /\ Lookup(doc, KeyOf(Run!Observed(s, r))) = Run!Observed(s, r).datum
    BY <1>1, <2>1, DatumOfObservation
  <2> QED
    BY <1>3, <2>2
<1>5. ASSUME NEW key, key \in DOMAIN Index(doc) \/ Lookup(doc, key) # Absent
      PROVE  \E s \in 1 .. Scopes : \E r \in res[s].found : key = <<"registry", s, r.name>>
  <2>1. Lookup(doc, key) # Absent
    BY <1>1, <1>5, AbsentKey
  <2>2. PICK o \in Range(doc.observations) : KeyOf(o) = key
    BY <1>1, <2>1, AbsentKey
  <2> QED
    BY <1>2, <1>3, <2>2
<1> QED
  BY <1>4, <1>5 DEF doc

\* A scope that counts as complete has been captured completely.
LEMMA SnapshotStatus ==
  ASSUME NEW res, Collected(res), Validates(Snapshot(res)),
         NEW s \in 1 .. Scopes, NEW key, key[1] = "registry", key[2] = s
  PROVE  /\ ScopeStatus(Snapshot(res), key) = "complete" => res[s].status = "complete"
         /\ ScopeStatus(Snapshot(res), key) = "complete"
                <=> ScopeStatus(Snapshot(res), <<"registry", s>>) = "complete"
<1> DEFINE doc == Snapshot(res)
           run == doc.runs[1]
<1>1. Accepted(doc)
  BY SnapshotAccepted
<1>2. /\ doc.runs = <<run>> /\ run.id = "registry"
      /\ run.coverage = [x \in 1 .. Scopes |-> [scope |-> x, status |-> res[x].status]]
  BY SnapshotRun
<1> HIDE DEF doc, run
<1>3. PICK r \in DOMAIN doc.runs : doc.runs[r] = run
  BY <1>2
<1>4. /\ s \in DOMAIN doc.runs[r].coverage
      /\ doc.runs[r].id = "registry" /\ doc.runs[r].coverage[s].scope = s
      /\ doc.runs[r].coverage[s].status = res[s].status
  <2>1. s \in DOMAIN run.coverage /\ run.coverage[s].scope = s
        /\ run.coverage[s].status = res[s].status
    BY <1>2
  <2> QED
    BY <1>2, <1>3, <2>1
<1> DEFINE status == Effective(doc.runs[r], doc.runs[r].coverage[s].status)
<1>5. ScopeStatus(doc, key) = "complete" <=> status = "complete"
  BY <1>1, <1>4, CompleteScope
<1>6. ScopeStatus(doc, <<"registry", s>>) = "complete" <=> status = "complete"
  <2> DEFINE at == <<"registry", s>>
  <2>1. at[1] = "registry" /\ at[2] = s
    OBVIOUS
  <2> HIDE DEF at
  <2>2. ScopeStatus(doc, at) = "complete" <=> status = "complete"
    BY <1>1, <1>4, <2>1, CompleteScope
  <2> QED
    BY <2>2 DEF at
<1>7. status = "complete" => res[s].status = "complete"
  BY <1>4 DEF Effective, Readable
<1> HIDE DEF status
<1> QED
  BY <1>5, <1>6, <1>7 DEF doc

-----------------------------------------------------------------------------
(***************************************************************************)
(* Two captures                                                            *)
(***************************************************************************)

\* The outcomes of a capture are true to what its keys have held: what a complete
\* scope holds was there at one moment, and what a partial one holds at some.
TrueTo(res, during) ==
    /\ Collected(res)
    /\ \A s \in 1 .. Scopes :
        /\ res[s].status = "complete" => res[s].found \in during[s]
        /\ res[s].status = "partial" => \A r \in res[s].found : \E rs \in during[s] : r \in rs
        /\ res[s].status \notin {"complete", "partial"} => res[s].found = {}

CompareInv ==
    /\ stage \in {"before", "after", "compared"}
    /\ scope \in 1 .. Scopes + 1
    /\ content \in Contents
    /\ past \in [Captures -> [1 .. Scopes -> SUBSET Contents]]
    /\ stage \in Captures /\ scope <= Scopes =>
        content \in past[stage][scope] /\ seen \subseteq UNION past[stage][scope]
    /\ TrueTo(result, past[IF stage = "before" THEN "before" ELSE "after"])
    /\ stage # "before" => \E res : baseline = Snapshot(res) /\ TrueTo(res, past["before"])
    /\ IF stage = "compared"
       THEN /\ Validates(baseline) /\ Validates(Snapshot(result))
            /\ reported = Changes(baseline, Snapshot(result))
       ELSE reported = {}

LEMMA NoContent == {} \in Contents
BY DEF Contents, Functional

LEMMA PendingTrue ==
  ASSUME NEW during
  PROVE  TrueTo([s \in 1 .. Scopes |-> Outcome("pending", {})], during)
BY NoContent DEF TrueTo, Collected, Outcome

\* What was true of a past stays true of a longer one.
LEMMA StaysTrue ==
  ASSUME NEW res, NEW during, NEW longer, TrueTo(res, during),
         \A s \in 1 .. Scopes : during[s] \subseteq longer[s]
  PROVE  TrueTo(res, longer)
<1> SUFFICES ASSUME NEW s \in 1 .. Scopes
             PROVE  /\ res[s].status = "complete" => res[s].found \in longer[s]
                    /\ res[s].status = "partial" =>
                        \A r \in res[s].found : \E rs \in longer[s] : r \in rs
  BY DEF TrueTo
<1> QED
  BY DEF TrueTo

\* Noting what a key holds makes the past longer.
LEMMA PastGrows ==
  ASSUME past \in [Captures -> [1 .. Scopes -> SUBSET Contents]],
         NEW k \in Captures, NEW s \in 1 .. Scopes, NEW rs \in Contents, Noted(k, s, rs)
  PROVE  /\ past' \in [Captures -> [1 .. Scopes -> SUBSET Contents]]
         /\ \A c \in Captures : \A t \in 1 .. Scopes : past[c][t] \subseteq past'[c][t]
         /\ past'[k][s] = past[k][s] \union {rs}
BY DEF Noted

LEMMA CompareInitially == CompareInit => CompareInv
<1> SUFFICES ASSUME CompareInit PROVE CompareInv
  OBVIOUS
<1>1. /\ stage = "before" /\ reported = {} /\ scope = 1 /\ content \in Contents /\ seen = content
      /\ result = [s \in 1 .. Scopes |-> Outcome("pending", {})]
  BY DEF CompareInit, CaptureInit
<1>2. /\ past \in [Captures -> [1 .. Scopes -> SUBSET Contents]]
      /\ past["before"][1] = {content}
  BY <1>1, CompareAssumption DEF CompareInit, Captures, NoPast
<1>3. TrueTo(result, past["before"])
  BY <1>1, PendingTrue
<1>4. scope \in 1 .. Scopes + 1
  BY <1>1, CompareAssumption
<1> QED
  BY <1>1, <1>2, <1>3, <1>4 DEF CompareInv

LEMMA CompareStep == CompareInv /\ [CompareNext]_compareVars => CompareInv'
<1> SUFFICES ASSUME CompareInv, [CompareNext]_compareVars PROVE CompareInv'
  OBVIOUS
<1> USE DEF CompareInv
<1>0. Scopes \in Nat /\ scope \in Nat
  BY CompareAssumption
<1>1. CASE ChangeKey
  <2>1. /\ stage \in Captures /\ scope <= Scopes /\ scope \in 1 .. Scopes
        /\ content' \in Contents /\ seen' = seen \union content'
        /\ UNCHANGED <<scope, result, stage, baseline, reported>>
        /\ Noted(stage, scope, content')
    BY <1>0, <1>1 DEF ChangeKey, Change
  <2>2. /\ past' \in [Captures -> [1 .. Scopes -> SUBSET Contents]]
        /\ \A c \in Captures : \A t \in 1 .. Scopes : past[c][t] \subseteq past'[c][t]
        /\ past'[stage][scope] = past[stage][scope] \union {content'}
    BY <2>1, PastGrows
  <2>3. content' \in past'[stage][scope] /\ seen' \subseteq UNION past'[stage][scope]
    BY <2>1, <2>2
  <2>4. TrueTo(result, past'[IF stage = "before" THEN "before" ELSE "after"])
    BY <2>2, StaysTrue DEF Captures
  <2>5. stage # "before" => \E res : baseline = Snapshot(res) /\ TrueTo(res, past'["before"])
    BY <2>2, StaysTrue DEF Captures
  <2> QED
    BY <2>1, <2>2, <2>3, <2>4, <2>5 DEF Captures
<1>2. CASE CaptureScope
  <2>1. /\ stage \in Captures /\ scope <= Scopes /\ scope \in 1 .. Scopes
        /\ scope' = scope + 1
        /\ UNCHANGED <<stage, baseline, reported>>
    BY <1>0, <1>2 DEF CaptureScope, EndScope
  <2>2. PICK outcome \in Outcomes(content, seen) :
            result' = [result EXCEPT ![scope] = outcome]
    BY <1>2 DEF CaptureScope, EndScope
  <2>3. content' \in Contents /\ seen' = content'
    BY <1>2, NoContent DEF CaptureScope, EndScope
  <2>4. /\ past' \in [Captures -> [1 .. Scopes -> SUBSET Contents]]
        /\ \A c \in Captures : \A t \in 1 .. Scopes : past[c][t] \subseteq past'[c][t]
        /\ scope' <= Scopes => content' \in past'[stage][scope']
    <3>1. CASE scope < Scopes
      <4>1. Noted(stage, scope + 1, content') /\ scope + 1 \in 1 .. Scopes
        BY <1>0, <1>2, <3>1 DEF CaptureScope
      <4>2. /\ past' \in [Captures -> [1 .. Scopes -> SUBSET Contents]]
            /\ \A c \in Captures : \A t \in 1 .. Scopes : past[c][t] \subseteq past'[c][t]
            /\ past'[stage][scope + 1] = past[stage][scope + 1] \union {content'}
        BY <2>1, <2>3, <4>1, PastGrows
      <4> QED
        BY <2>1, <4>2
    <3>2. CASE ~(scope < Scopes)
      BY <1>0, <1>2, <2>1, <3>2 DEF CaptureScope
    <3> QED
      BY <3>1, <3>2
  <2>5. TrueTo(result', past[stage])
    <3>1. /\ outcome.found \in Contents
          /\ outcome.status = "complete" => outcome.found \in past[stage][scope]
          /\ outcome.status = "partial" =>
                \A r \in outcome.found : \E rs \in past[stage][scope] : r \in rs
          /\ outcome.status \notin {"complete", "partial"} => outcome.found = {}
      <4>1. content \in past[stage][scope] /\ seen \subseteq UNION past[stage][scope]
        BY <2>1
      <4>2. CASE outcome = Outcome("complete", content)
        BY <4>1, <4>2 DEF Outcome
      <4>3. ASSUME NEW rs \in SUBSET seen, Functional(rs), outcome = Outcome("partial", rs)
            PROVE  /\ outcome.found \in Contents /\ outcome.status = "partial"
                   /\ \A r \in outcome.found : \E x \in past[stage][scope] : r \in x
        <5>1. past[stage][scope] \in SUBSET Contents
          BY <2>1 DEF Captures
        <5>2. \A r \in rs : \E x \in past[stage][scope] : r \in x
          BY <4>1
        <5>3. rs \in Contents
          BY <4>3, <5>1, <5>2 DEF Contents
        <5> QED
          BY <4>3, <5>2, <5>3 DEF Outcome
      <4>4. CASE \E st \in {"permission_denied", "failed"} : outcome = Outcome(st, {})
        BY <4>4, NoContent DEF Outcome
      <4> QED
        BY <4>2, <4>3, <4>4 DEF Outcomes
    <3>2. TrueTo(result, past[stage])
      BY <2>1 DEF Captures
    <3>3. /\ DOMAIN result' = 1 .. Scopes
          /\ \A s \in 1 .. Scopes : result'[s] = IF s = scope THEN outcome ELSE result[s]
      BY <2>1, <2>2, <3>2 DEF TrueTo, Collected
    <3> QED
      BY <3>1, <3>2, <3>3 DEF TrueTo, Collected
  <2>6. TrueTo(result', past'[IF stage = "before" THEN "before" ELSE "after"])
    BY <2>1, <2>4, <2>5, StaysTrue DEF Captures
  <2>7. stage # "before" => \E res : baseline = Snapshot(res) /\ TrueTo(res, past'["before"])
    BY <2>4, StaysTrue DEF Captures
  <2>8. scope' <= Scopes =>
            content' \in past'[stage][scope'] /\ seen' \subseteq UNION past'[stage][scope']
    BY <2>3, <2>4
  <2>9. scope' \in 1 .. Scopes + 1
    BY <1>0, <2>1
  <2> QED
    BY <2>1, <2>3, <2>4, <2>6, <2>7, <2>8, <2>9 DEF Captures
<1>3. CASE BeginSecond
  <2>1. /\ stage = "before" /\ stage' = "after" /\ baseline' = Snapshot(result)
        /\ scope' = 1 /\ content' \in Contents /\ seen' = content'
        /\ result' = [s \in 1 .. Scopes |-> Outcome("pending", {})]
        /\ Noted("after", 1, content') /\ reported' = reported
    BY <1>3 DEF BeginSecond
  <2>2. 1 \in 1 .. Scopes
    BY CompareAssumption
  <2>3. /\ past' \in [Captures -> [1 .. Scopes -> SUBSET Contents]]
        /\ \A c \in Captures : \A t \in 1 .. Scopes : past[c][t] \subseteq past'[c][t]
        /\ past'["after"][1] = past["after"][1] \union {content'}
    BY <2>1, <2>2, PastGrows DEF Captures
  <2>4. TrueTo(result, past'["before"])
    BY <2>1, <2>3, StaysTrue DEF Captures
  <2>5. TrueTo(result', past'["after"])
    BY <2>1, PendingTrue
  <2>6. scope' \in 1 .. Scopes + 1
    BY <1>0, <2>1
  <2> QED
    BY <2>1, <2>3, <2>4, <2>5, <2>6 DEF Captures
<1>4. CASE CompareCaptures
  <2>1. /\ stage = "after" /\ stage' = "compared"
        /\ Validates(baseline) /\ Validates(Snapshot(result))
        /\ reported' = Changes(baseline, Snapshot(result))
        /\ UNCHANGED <<scope, content, seen, result, past, baseline>>
    BY <1>4 DEF CompareCaptures, captureVars
  <2> QED
    BY <2>1 DEF Captures, Snapshot
<1>5. CASE UNCHANGED compareVars
  BY <1>5 DEF compareVars
<1> QED
  BY <1>1, <1>2, <1>3, <1>4, <1>5 DEF CompareNext, ShowResult

THEOREM ComparedCaptures == CompareSpec => []CompareInv
BY CompareInitially, CompareStep, PTL DEF CompareSpec

\* A reported change is about one value of one scope, present or absent as the
\* classification says.
LEMMA ReportedChange ==
  ASSUME NEW old, NEW new, Collected(old), Collected(new),
         Validates(Snapshot(old)), Validates(Snapshot(new)),
         NEW c \in Changes(Snapshot(old), Snapshot(new))
  PROVE  LET b == Lookup(Snapshot(old), c.key)
             a == Lookup(Snapshot(new), c.key)
         IN  /\ c.before = b /\ c.after = a /\ b # a
             /\ c.change = Classify(b, a, CoverageComplete(Snapshot(old), Snapshot(new), c.key))
             /\ \E s \in 1 .. Scopes : \E r \in old[s].found \union new[s].found :
                    c.key = <<"registry", s, r.name>>
<1> DEFINE d == Snapshot(old)
           e == Snapshot(new)
<1>1. /\ c = [key |-> c.key, before |-> Lookup(d, c.key), after |-> Lookup(e, c.key),
               change |-> Classify(Lookup(d, c.key), Lookup(e, c.key),
                                   CoverageComplete(d, e, c.key))]
      /\ Lookup(d, c.key) # Lookup(e, c.key)
      /\ c.key \in Keys(d, e)
  <2>1. c \in AllChanges(d, e) /\ c \in Changes(d, e)
    BY DEF AllChanges
  <2> HIDE DEF d, e
  <2> QED
    BY <2>1, ChangeListed DEF Changes
<1>2. c.key \in DOMAIN Index(d) \/ c.key \in DOMAIN Index(e)
  BY <1>1 DEF Keys
<1>3. \E s \in 1 .. Scopes : \E r \in old[s].found \union new[s].found :
            c.key = <<"registry", s, r.name>>
  BY <1>2, SnapshotLookup
<1> HIDE DEF d, e
<1>4. /\ c.before = Lookup(d, c.key) /\ c.after = Lookup(e, c.key)
      /\ c.change = Classify(Lookup(d, c.key), Lookup(e, c.key), CoverageComplete(d, e, c.key))
  BY <1>1
<1> QED
  BY <1>1, <1>3, <1>4 DEF d, e

\* What a Snapshot shows of a name, in a scope that holds records of it or that
\* has been read completely.
LEMMA ShownOfName ==
  ASSUME NEW res, Collected(res), Validates(Snapshot(res)),
         NEW s \in 1 .. Scopes, NEW name
  PROVE  LET d == Lookup(Snapshot(res), <<"registry", s, name>>)
         IN  IF d = Absent
             THEN \A r \in res[s].found : r.name # name
             ELSE [name |-> name, datum |-> d] \in res[s].found
<1> DEFINE doc == Snapshot(res)
           key == <<"registry", s, name>>
<1>1. \A r \in res[s].found :
        LET k == <<"registry", s, r.name>>
        IN  k \in DOMAIN Index(doc) /\ Lookup(doc, k) = r.datum
  BY SnapshotLookup
<1>2. \A r \in res[s].found : r = [name |-> r.name, datum |-> r.datum] /\ r.datum # Absent
  BY CompareAssumption DEF Collected, Contents, Records
<1>3. Lookup(doc, key) # Absent => \E t \in 1 .. Scopes : \E r \in res[t].found :
            key = <<"registry", t, r.name>>
  BY SnapshotLookup
<1> HIDE DEF doc
<1>4. CASE Lookup(doc, key) = Absent
  <2>1. \A r \in res[s].found : r.name # name
    BY <1>1, <1>2, <1>4
  <2> QED
    BY <1>4, <2>1 DEF doc
<1>5. CASE Lookup(doc, key) # Absent
  <2>1. PICK t \in 1 .. Scopes : \E r \in res[t].found : key = <<"registry", t, r.name>>
    BY <1>3, <1>5
  <2>2. PICK r \in res[t].found : key = <<"registry", t, r.name>>
    BY <2>1
  <2>3. t = s /\ r.name = name
    BY <2>2
  <2>4. [name |-> name, datum |-> Lookup(doc, key)] \in res[s].found
    BY <1>1, <1>2, <2>2, <2>3
  <2> QED
    BY <1>5, <2>4 DEF doc
<1> QED
  BY <1>4, <1>5

\* What was shown of a name was so in its key at some moment of the capture.
LEMMA ShownWasTrue ==
  ASSUME NEW res, NEW during, TrueTo(res, during), Validates(Snapshot(res)),
         NEW s \in 1 .. Scopes, NEW name
  PROVE  LET key == <<"registry", s, name>>
             d == Lookup(Snapshot(res), key)
         IN  /\ d # Absent => \E rs \in during[s] : [name |-> name, datum |-> d] \in rs
             /\ d = Absent /\ ScopeStatus(Snapshot(res), key) = "complete" =>
                    \E rs \in during[s] : \A r \in rs : r.name # name
<1> DEFINE key == <<"registry", s, name>>
           d == Lookup(Snapshot(res), key)
<1>1. Collected(res)
  BY DEF TrueTo
<1>2. IF d = Absent
      THEN \A r \in res[s].found : r.name # name
      ELSE [name |-> name, datum |-> d] \in res[s].found
  BY <1>1, ShownOfName
<1>3. ScopeStatus(Snapshot(res), key) = "complete" => res[s].status = "complete"
  BY <1>1, SnapshotStatus
<1> HIDE DEF d, key
<1>4. \A r \in res[s].found : \E rs \in during[s] : r \in rs
  BY DEF TrueTo
<1>5. res[s].status = "complete" => res[s].found \in during[s]
  BY DEF TrueTo
<1> QED
  BY <1>2, <1>3, <1>4, <1>5 DEF d, key

\* No change is invented: an artifact reported as added was missing at a moment of
\* the first capture and there at one of the second, the reverse for removed, and
\* of a modified one both values were there.
THEOREM ChangesAreReal == CompareSpec => []ChangesReal
<1>1. CompareInv => ChangesReal
  <2> SUFFICES ASSUME CompareInv, NEW c \in reported
               PROVE  /\ c.change = "added" => Missing("before", c) /\ Held("after", c, c.after)
                      /\ c.change = "removed" => Held("before", c, c.before) /\ Missing("after", c)
                      /\ c.change = "modified" =>
                            Held("before", c, c.before) /\ Held("after", c, c.after)
    BY DEF ChangesReal
  <2>1. /\ stage = "compared" /\ Validates(baseline) /\ Validates(Snapshot(result))
        /\ reported = Changes(baseline, Snapshot(result))
        /\ TrueTo(result, past["after"])
    BY DEF CompareInv
  <2>2. PICK res : baseline = Snapshot(res) /\ TrueTo(res, past["before"])
    BY <2>1 DEF CompareInv
  <2> DEFINE new == Snapshot(result)
  <2>3. /\ c.before = Lookup(baseline, c.key) /\ c.after = Lookup(new, c.key)
        /\ c.change = Classify(c.before, c.after, CoverageComplete(baseline, new, c.key))
        /\ \E s \in 1 .. Scopes : \E r \in res[s].found \union result[s].found :
              c.key = <<"registry", s, r.name>>
    BY <2>1, <2>2, ReportedChange DEF TrueTo
  <2>4. PICK s \in 1 .. Scopes : \E name : c.key = <<"registry", s, name>>
    BY <2>3
  <2>5. PICK name : c.key = <<"registry", s, name>>
    BY <2>4
  <2>6. ChangeScope(c) = s /\ ChangeName(c) = name
    BY <2>5 DEF ChangeScope, ChangeName
  <2>7. /\ c.before # Absent => Held("before", c, c.before)
        /\ c.before = Absent /\ ScopeStatus(baseline, c.key) = "complete" => Missing("before", c)
    BY <2>1, <2>2, <2>3, <2>5, <2>6, ShownWasTrue DEF Held, Missing
  <2>8. /\ c.after # Absent => Held("after", c, c.after)
        /\ c.after = Absent /\ ScopeStatus(new, c.key) = "complete" => Missing("after", c)
    BY <2>1, <2>3, <2>5, <2>6, ShownWasTrue DEF Held, Missing
  <2>9. CoverageComplete(baseline, new, c.key) <=>
            ScopeStatus(baseline, c.key) = "complete" /\ ScopeStatus(new, c.key) = "complete"
    BY DEF CoverageComplete
  <2>10. /\ c.change = "modified" => c.before # Absent /\ c.after # Absent
         /\ c.change = "added" => c.before = Absent /\ CoverageComplete(baseline, new, c.key)
         /\ c.change = "removed" => c.after = Absent /\ CoverageComplete(baseline, new, c.key)
    BY <2>3 DEF Classify
  <2>11. c.before # c.after
    BY <2>1, <2>2, ReportedChange DEF TrueTo
  <2> HIDE DEF new
  <2> QED
    BY <2>7, <2>8, <2>9, <2>10, <2>11
<1> QED
  BY <1>1, ComparedCaptures, PTL

\* What a Snapshot shows of a scope that was complete and held one content
\* throughout: that content.
LEMMA QuietScopeShown ==
  ASSUME NEW res, NEW during, TrueTo(res, during), Validates(Snapshot(res)),
         NEW s \in 1 .. Scopes, NEW rs \in Contents, during[s] = {rs},
         CompleteOf(Snapshot(res), s)
  PROVE  /\ res[s].found = rs
         /\ \A name : ScopeStatus(Snapshot(res), <<"registry", s, name>>) = "complete"
<1>1. Collected(res)
  BY DEF TrueTo
<1>2. ASSUME NEW name
      PROVE  /\ ScopeStatus(Snapshot(res), <<"registry", s, name>>) = "complete"
             /\ res[s].status = "complete"
  <2> DEFINE key == <<"registry", s, name>>
  <2>1. key[1] = "registry" /\ key[2] = s
    OBVIOUS
  <2> HIDE DEF key
  <2>2. /\ ScopeStatus(Snapshot(res), key) = "complete" => res[s].status = "complete"
        /\ ScopeStatus(Snapshot(res), key) = "complete"
                <=> ScopeStatus(Snapshot(res), <<"registry", s>>) = "complete"
    BY <1>1, <2>1, SnapshotStatus
  <2> QED
    BY <2>2 DEF CompleteOf, key
<1>3. res[s].found \in during[s]
  BY <1>2 DEF TrueTo
<1> QED
  BY <1>2, <1>3

\* Nothing is missed and nothing in doubt: where both captures read a scope
\* completely and undisturbed, what is reported of it is the difference.
THEOREM QuietScopesAreExact == CompareSpec => []QuietScopesExact
<1>1. CompareInv => QuietScopesExact
  <2> SUFFICES ASSUME CompareInv, stage = "compared",
                      NEW s \in 1 .. Scopes, NEW old \in Contents, NEW new \in Contents,
                      CompleteOf(baseline, s), CompleteOf(Snapshot(result), s),
                      past["before"][s] = {old}, past["after"][s] = {new}
               PROVE  /\ \A c \in reported : ChangeScope(c) = s => c.change # "inconclusive"
                      /\ {ChangeName(c) : c \in {x \in reported : ChangeScope(x) = s}} =
                            {r.name : r \in (old \ new) \union (new \ old)}
    BY DEF QuietScopesExact
  <2>1. /\ Validates(baseline) /\ Validates(Snapshot(result))
        /\ reported = Changes(baseline, Snapshot(result))
        /\ TrueTo(result, past["after"])
    BY DEF CompareInv
  <2>2. PICK res : baseline = Snapshot(res) /\ TrueTo(res, past["before"])
    BY DEF CompareInv
  <2>3. Collected(res) /\ Collected(result)
    BY <2>1, <2>2 DEF TrueTo
  <2> DEFINE d == baseline
             e == Snapshot(result)
             K(name) == <<"registry", s, name>>
  <2>4. /\ res[s].found = old /\ \A name : ScopeStatus(d, K(name)) = "complete"
        /\ result[s].found = new /\ \A name : ScopeStatus(e, K(name)) = "complete"
    BY <2>1, <2>2, QuietScopeShown
  <2>5. \A name :
          /\ IF Lookup(d, K(name)) = Absent THEN \A r \in old : r.name # name
             ELSE [name |-> name, datum |-> Lookup(d, K(name))] \in old
          /\ IF Lookup(e, K(name)) = Absent THEN \A r \in new : r.name # name
             ELSE [name |-> name, datum |-> Lookup(e, K(name))] \in new
    BY <2>1, <2>2, <2>3, <2>4, ShownOfName
  <2>6. \A c \in reported :
          /\ c.change = Classify(Lookup(d, c.key), Lookup(e, c.key), CoverageComplete(d, e, c.key))
          /\ Lookup(d, c.key) # Lookup(e, c.key)
          /\ \E t \in 1 .. Scopes : \E name : c.key = <<"registry", t, name>>
    BY <2>1, <2>2, <2>3, ReportedChange
  <2>7. \A c \in reported : ChangeScope(c) = s => c.key = K(ChangeName(c))
    <3> SUFFICES ASSUME NEW c \in reported, ChangeScope(c) = s PROVE c.key = K(ChangeName(c))
      OBVIOUS
    <3>1. PICK t \in 1 .. Scopes : \E name : c.key = <<"registry", t, name>>
      BY <2>6
    <3>2. PICK name : c.key = <<"registry", t, name>>
      BY <3>1
    <3> QED
      BY <3>2 DEF ChangeScope, ChangeName
  <2>8. \A q, r \in old : q.name = r.name => q = r
    BY DEF Contents, Functional
  <2>9. \A q, r \in new : q.name = r.name => q = r
    BY DEF Contents, Functional
  <2>10. \A r \in old \union new : r = [name |-> r.name, datum |-> r.datum] /\ r.datum # Absent
    BY CompareAssumption DEF Contents, Records
  <2>11. ASSUME NEW c \in reported, ChangeScope(c) = s
         PROVE  /\ c.change # "inconclusive"
                /\ \E r \in (old \ new) \union (new \ old) : r.name = ChangeName(c)
    <3> DEFINE name == ChangeName(c)
               b == Lookup(d, K(name))
               a == Lookup(e, K(name))
    <3>1. /\ c.change = Classify(b, a, CoverageComplete(d, e, K(name)))
          /\ b # a
      BY <2>6, <2>7, <2>11
    <3>2. CoverageComplete(d, e, K(name))
      BY <2>4 DEF CoverageComplete
    <3>3. c.change # "inconclusive"
      <4> HIDE DEF b, a, d, e, K, name
      <4> QED
        BY <3>1, <3>2 DEF Classify
    <3>4. /\ IF b = Absent THEN \A r \in old : r.name # name ELSE [name |-> name, datum |-> b] \in old
          /\ IF a = Absent THEN \A r \in new : r.name # name ELSE [name |-> name, datum |-> a] \in new
      BY <2>5
    <3> HIDE DEF b, a, d, e, K, name
    <3>5. \E r \in (old \ new) \union (new \ old) : r.name = name
      <4>1. CASE b # Absent
        <5> DEFINE r == [name |-> name, datum |-> b]
        <5>1. r \in old /\ r.name = name /\ r.datum = b
          BY <3>4, <4>1
        <5>2. r \notin new
          <6>1. a = Absent => \A x \in new : x.name # name
            BY <3>4
          <6>2. a # Absent => \E x \in new : x.name = name /\ x.datum = a
            BY <3>4
          <6> HIDE DEF r
          <6> QED
            BY <2>9, <3>1, <5>1, <6>1, <6>2
        <5> HIDE DEF r
        <5> QED
          BY <5>1, <5>2
      <4>2. CASE b = Absent
        <5> DEFINE r == [name |-> name, datum |-> a]
        <5>1. r \in new /\ r.name = name
          BY <3>1, <3>4, <4>2
        <5>2. r \notin old
          BY <3>4, <4>2, <5>1
        <5> HIDE DEF r
        <5> QED
          BY <5>1, <5>2
      <4> QED
        BY <4>1, <4>2
    <3> QED
      BY <3>3, <3>5 DEF name
  <2>12. ASSUME NEW r \in (old \ new) \union (new \ old)
         PROVE  \E c \in reported : ChangeScope(c) = s /\ ChangeName(c) = r.name
    <3> DEFINE name == r.name
               b == Lookup(d, K(name))
               a == Lookup(e, K(name))
               c == [key |-> K(name), before |-> b, after |-> a,
                     change |-> Classify(b, a, CoverageComplete(d, e, K(name)))]
    <3>1. b # a
      <4>1. /\ IF b = Absent THEN \A x \in old : x.name # name ELSE [name |-> name, datum |-> b] \in old
            /\ IF a = Absent THEN \A x \in new : x.name # name ELSE [name |-> name, datum |-> a] \in new
        BY <2>5
      <4> HIDE DEF b, a, d, e, K
      <4>2. r = [name |-> name, datum |-> r.datum]
        BY <2>10
      <4>3. r \in old => b = r.datum
        BY <2>8, <2>10, <4>1, <4>2
      <4>4. r \in new => a = r.datum
        BY <2>9, <2>10, <4>1, <4>2
      <4>5. r.datum # Absent
        BY <2>10
      <4> HIDE DEF name
      <4> QED
        BY <4>1, <4>2, <4>3, <4>4, <4>5
    <3>2. K(name) \in Keys(d, e)
      <4>1. K(name) \in DOMAIN Index(d) \/ K(name) \in DOMAIN Index(e)
        <5> HIDE DEF d, e
        <5> QED
          BY <3>1 DEF Lookup
      <4> HIDE DEF d, e, K
      <4> QED
        BY <4>1 DEF Keys
    <3>3. c \in reported
      <4>1. reported = Changes(d, e)
        BY <2>1
      <4> HIDE DEF d, e, K, name
      <4> QED
        BY <3>1, <3>2, <4>1 DEF Changes
    <3>4. c.key = <<"registry", s, name>>
      OBVIOUS
    <3> HIDE DEF c
    <3> QED
      BY <3>3, <3>4 DEF ChangeScope, ChangeName
  <2> HIDE DEF d, e, K
  <2> QED
    BY <2>11, <2>12
<1> QED
  BY <1>1, ComparedCaptures, PTL
=============================================================================
