------------------------ MODULE SnapshotFilesProofs -------------------------
(***************************************************************************)
(* What SnapshotFiles promises, for any number of commands, files and      *)
(* paths and for every limit: a reported Snapshot is whole and stays so, a *)
(* diff can read it, and a diff decodes nothing that is not whole.         *)
(***************************************************************************)
EXTENDS SnapshotFiles, TLAPS

-----------------------------------------------------------------------------
(***************************************************************************)
(* Typing                                                                  *)
(***************************************************************************)

\* A writer that writes has a document and a file to write to, and a reader at
\* work has a file open: what the actions take for granted.
Equipped ==
    /\ \A w \in Writers :
        step[w] \in {"create", "write", "reported"} => captured[w] \in Documents
    /\ \A w \in Writers : step[w] \in {"write", "reported"} => file[w] = w
    /\ \A r \in Readers : at[r] \in {"inspect", "read", "decode"} => handle[r] \in Files

Typed == TypeOK /\ Equipped

LEMMA TypedInit == Init => Typed
BY FilesAssumption
DEF Init, Typed, TypeOK, Equipped, Files, WriterSteps, ReaderSteps, Sides

LEMMA TypedSnapshot ==
  ASSUME Typed, NEW w \in Writers, Snapshot(w)
  PROVE  Typed'
<1>0. w \in Files
  BY DEF Files
<1>1. CASE Capture(w)
  <2>1. captured' \in [Writers -> Documents \union {None}] /\ step' \in [Writers -> WriterSteps]
    BY <1>1 DEF Capture, Typed, TypeOK, WriterSteps
  <2>2. \/ step'[w] = "create" /\ captured'[w] \in Documents
       \/ step'[w] = "failed"
    BY <1>1 DEF Capture, Typed, TypeOK
  <2>3. \A v \in Writers \ {w} : step'[v] = step[v] /\ captured'[v] = captured[v]
    BY <1>1 DEF Capture, Typed, TypeOK
  <2> QED
    BY <1>1, <2>1, <2>2, <2>3 DEF Capture, Typed, TypeOK, Equipped, dirVars, readerVars
<1>2. CASE Create(w)
  <2>1. captured[w] \in Documents
    BY <1>2 DEF Create, Typed, Equipped
  <2>2. /\ dir' \in [Paths -> Files \union {None}]
        /\ content' \in [Files -> Documents \union {None}]
        /\ file' \in [Writers -> Files \union {None}]
        /\ step' \in [Writers -> WriterSteps]
    <3>1. dir' \in [Paths -> Files \union {None}]
      BY <1>0, <1>2 DEF Create, Typed, TypeOK
    <3>2. content' \in [Files -> Documents \union {None}]
      BY <1>0, <1>2, <2>1 DEF Create, Typed, TypeOK
    <3>3. file' \in [Writers -> Files \union {None}]
      BY <1>0, <1>2 DEF Create, Typed, TypeOK
    <3>4. step' \in [Writers -> WriterSteps]
      BY <1>2 DEF Create, Typed, TypeOK, WriterSteps
    <3> QED
      BY <3>1, <3>2, <3>3, <3>4
  <2>3. \/ step'[w] = "write" /\ file'[w] = w
       \/ step'[w] = "failed"
    BY <1>2 DEF Create, Typed, TypeOK
  <2>4. \A v \in Writers \ {w} : step'[v] = step[v] /\ file'[v] = file[v]
    BY <1>2 DEF Create, Typed, TypeOK
  <2> QED
    BY <1>2, <2>1, <2>2, <2>3, <2>4 DEF Create, Typed, TypeOK, Equipped, readerVars
<1>3. CASE Write(w)
  <2>1. PICK n \in written[file[w]] + 1 .. captured[w].size :
          /\ written' = [written EXCEPT ![file[w]] = n]
          /\ step' = [step EXCEPT ![w] = IF n = captured[w].size THEN "reported" ELSE "write"]
    BY <1>3 DEF Write
  <2>2. file[w] = w /\ captured[w] \in Documents /\ w \in Files
    BY <1>3 DEF Write, Typed, Equipped, Files
  <2>3. n \in Nat
    BY <2>1, <2>2, FilesAssumption DEF Typed, TypeOK
  <2> QED
    BY <1>3, <2>1, <2>2, <2>3 DEF Write, Typed, TypeOK, Equipped, WriterSteps, readerVars
<1>4. CASE StopWriting(w)
  BY <1>4 DEF StopWriting, Typed, TypeOK, Equipped, WriterSteps, dirVars, readerVars
<1> QED
  BY <1>1, <1>2, <1>3, <1>4 DEF Snapshot

LEMMA ReadableNat ==
  ASSUME Typed, NEW f \in Files
  PROVE  Length(f) \in Nat /\ Readable(f) \in Nat
BY FilesAssumption DEF Typed, TypeOK, Length, Readable

LEMMA TypedDiff ==
  ASSUME Typed, NEW r \in Readers, Diff(r)
  PROVE  Typed'
<1>1. CASE Open(r)
  <2>1. dir[args[r][side[r]]] \in Files \union {None}
    BY DEF Typed, TypeOK
  <2> QED
    BY <1>1, <2>1 DEF Open, Typed, TypeOK, Equipped, ReaderSteps, dirVars, writerVars
<1>2. CASE Inspect(r)
  BY <1>2 DEF Inspect, Typed, TypeOK, Equipped, ReaderSteps, dirVars, writerVars
<1>3. CASE Read(r)
  <2>1. handle[r] \in Files
    BY <1>3 DEF Read, Typed, Equipped
  <2>2. Readable(handle[r]) \in Nat /\ got[r] \in Nat
    BY <2>1, ReadableNat DEF Typed, TypeOK
  <2>3. \A n \in got[r] + 1 .. Readable(handle[r]) : n \in Nat
    BY <2>2
  <2>4. got' \in [Readers -> Nat]
    <3>1. CASE got' = got
      BY <3>1 DEF Typed, TypeOK
    <3>2. ASSUME NEW n \in got[r] + 1 .. Readable(handle[r]), got' = [got EXCEPT ![r] = n]
          PROVE  got' \in [Readers -> Nat]
      BY <2>3, <3>2 DEF Typed, TypeOK
    <3> QED
      BY <1>3, <3>1, <3>2 DEF Read
  <2> QED
    BY <1>3, <2>4 DEF Read, Typed, TypeOK, Equipped, ReaderSteps, dirVars, writerVars
<1>4. CASE Decode(r)
  <2>1. handle[r] \in Files /\ side[r] \in Sides
    BY <1>4 DEF Decode, Typed, TypeOK, Equipped
  <2>2. loaded' \in [Readers -> [Sides -> Files \union {None}]]
    BY <1>4, <2>1 DEF Decode, Typed, TypeOK
  <2>3. side' \in [Readers -> Sides]
    BY <1>4 DEF Decode, Typed, TypeOK, Sides
  <2>4. at' \in [Readers -> ReaderSteps]
    BY <1>4 DEF Decode, Typed, TypeOK, ReaderSteps
  <2>5. \A q \in Readers : at'[q] \in {"inspect", "read", "decode"} => at'[q] = at[q]
    BY <1>4 DEF Decode, Typed, TypeOK
  <2> QED
    BY <1>4, <2>2, <2>3, <2>4, <2>5
    DEF Decode, Typed, TypeOK, Equipped, dirVars, writerVars
<1>5. CASE Compare(r)
  BY <1>5 DEF Compare, Typed, TypeOK, Equipped, ReaderSteps, dirVars, writerVars
<1>6. CASE StopReading(r)
  BY <1>6 DEF StopReading, Typed, TypeOK, Equipped, ReaderSteps, dirVars, writerVars
<1> QED
  BY <1>1, <1>2, <1>3, <1>4, <1>5, <1>6 DEF Diff

LEMMA TypedOthers ==
  ASSUME Typed, Others
  PROVE  Typed'
<1>1. ASSUME NEW p \in Paths, Remove(p) PROVE Typed'
  BY <1>1 DEF Remove, Typed, TypeOK, Equipped, writerVars, readerVars
<1>2. ASSUME NEW p \in Paths, NEW q \in Paths, Move(p, q) PROVE Typed'
  BY <1>2 DEF Move, Typed, TypeOK, Equipped, writerVars, readerVars
<1>3. ASSUME NEW p \in Paths, AppendTo(p) PROVE Typed'
  BY <1>3 DEF AppendTo, Typed, TypeOK, Equipped, writerVars, readerVars
<1> QED
  BY <1>1, <1>2, <1>3 DEF Others

LEMMA TypedNext == Typed /\ [Next]_vars => Typed'
<1> SUFFICES ASSUME Typed, [Next]_vars PROVE Typed'
  OBVIOUS
<1>1. CASE UNCHANGED vars
  BY <1>1 DEF Typed, TypeOK, Equipped, vars, dirVars, writerVars, readerVars
<1> QED
  BY <1>1, TypedSnapshot, TypedDiff, TypedOthers DEF Next

\* Every reachable state of the commands and their files is well typed.
THEOREM FilesTyped == Spec => []TypeOK
<1>1. Typed => TypeOK
  BY DEF Typed
<1> QED
  BY TypedInit, TypedNext, <1>1, PTL DEF Spec

-----------------------------------------------------------------------------
(***************************************************************************)
(* The snapshot commands and their files                                   *)
(***************************************************************************)

\* A command writes to no file but its own, which nobody else begins or names.
OwnFile(w) ==
    /\ file[w] \in {None, w}
    /\ step[w] \in {"capture", "create"} => file[w] = None
    /\ file[w] = None => content[w] = None /\ written[w] = 0
    /\ file[w] = w => content[w] = captured[w] /\ captured[w] \in Documents

Fitting(w) ==
    /\ step[w] \in {"create", "write", "reported"} => Supported(captured[w]) /\ Fits(captured[w])
    /\ step[w] = "reported" => written[w] = captured[w].size

Begun(f) == f \in Files /\ content[f] # None

WritersInv ==
    /\ \A w \in Writers : OwnFile(w) /\ Fitting(w)
    /\ \A p \in Paths : dir[p] # None => Begun(dir[p])

LEMMA WritersInit == Init => WritersInv
BY FilesAssumption DEF Init, WritersInv, OwnFile, Fitting, Begun, Files

\* The file a command writes is the only one it changes.
LEMMA OneFileWritten ==
  ASSUME Typed, WritersInv, NEW w \in Writers, Snapshot(w)
  PROVE  /\ \A f \in Files : f # w => content'[f] = content[f] /\ written'[f] = written[f]
         /\ Begun(w) => content'[w] = content[w] /\ written'[w] >= written[w]
         /\ \A v \in Writers : v # w => /\ step'[v] = step[v] /\ file'[v] = file[v]
                                        /\ captured'[v] = captured[v]
         /\ step[w] # "reported"
<1>0. w \in Files
  BY DEF Files
<1>1. CASE Capture(w)
  BY <1>1 DEF Capture, Typed, TypeOK, Begun, dirVars
<1>2. CASE Create(w)
  BY <1>0, <1>2 DEF Create, Typed, TypeOK, WritersInv, OwnFile, Begun
<1>3. CASE Write(w)
  <2>1. file[w] = w
    BY <1>3 DEF Write, Typed, Equipped
  <2>2. PICK n \in written[w] + 1 .. captured[w].size :
          /\ written' = [written EXCEPT ![w] = n]
          /\ step' = [step EXCEPT ![w] = IF n = captured[w].size THEN "reported" ELSE "write"]
    BY <1>3, <2>1 DEF Write
  <2>3. n >= written[w]
    BY <1>0, <2>2 DEF Typed, TypeOK
  <2> QED
    BY <1>0, <1>3, <2>2, <2>3 DEF Write, Typed, TypeOK
<1>4. CASE StopWriting(w)
  BY <1>4 DEF StopWriting, Typed, TypeOK, Begun, dirVars
<1> QED
  BY <1>1, <1>2, <1>3, <1>4 DEF Snapshot

LEMMA WritersSnapshot ==
  ASSUME Typed, WritersInv, NEW w \in Writers, Snapshot(w)
  PROVE  WritersInv'
<1>0. w \in Files /\ w # None
  BY FilesAssumption DEF Files
<1>1. \A v \in Writers : v # w => OwnFile(v)' /\ Fitting(v)'
  BY OneFileWritten DEF WritersInv, OwnFile, Fitting, Fits, Files
<1>2. OwnFile(w)' /\ Fitting(w)'
  <2>1. CASE Capture(w)
    BY <1>0, <2>1
    DEF Capture, Typed, TypeOK, WritersInv, OwnFile, Fitting, Fits, dirVars
  <2>2. CASE Create(w)
    <3>1. file[w] = None /\ written[w] = 0 /\ captured[w] \in Documents
      BY <2>2 DEF Create, WritersInv, OwnFile, Typed, Equipped
    <3>2. \/ file'[w] = w /\ content'[w] = captured[w] /\ step'[w] = "write"
          \/ file'[w] = file[w] /\ content'[w] = content[w] /\ step'[w] = "failed"
      BY <1>0, <2>2 DEF Create, Typed, TypeOK
    <3> QED
      BY <1>0, <2>2, <3>1, <3>2 DEF Create, WritersInv, OwnFile, Fitting, Fits
  <2>3. CASE Write(w)
    <3>1. file[w] = w
      BY <2>3 DEF Write, Typed, Equipped
    <3>2. PICK n \in written[w] + 1 .. captured[w].size :
            /\ written' = [written EXCEPT ![w] = n]
            /\ step' = [step EXCEPT ![w] = IF n = captured[w].size THEN "reported" ELSE "write"]
      BY <2>3, <3>1 DEF Write
    <3> QED
      BY <1>0, <2>3, <3>1, <3>2
      DEF Write, Typed, TypeOK, WritersInv, OwnFile, Fitting, Fits
  <2>4. CASE StopWriting(w)
    BY <1>0, <2>4 DEF StopWriting, Typed, TypeOK, WritersInv, OwnFile, Fitting, dirVars
  <2> QED
    BY <2>1, <2>2, <2>3, <2>4 DEF Snapshot
<1>3. ASSUME NEW p \in Paths, dir'[p] # None
      PROVE  Begun(dir[p])'
  <2>1. ASSUME dir'[p] = dir[p] PROVE Begun(dir[p])'
    <3>1. Begun(dir[p])
      BY <1>3, <2>1 DEF WritersInv
    <3>2. content'[dir[p]] = content[dir[p]]
      BY <3>1, OneFileWritten DEF Begun
    <3> QED
      BY <2>1, <3>1, <3>2 DEF Begun
  <2>2. CASE Create(w)
    <3>1. captured[w] \in Documents
      BY <2>2 DEF Create, Typed, Equipped
    <3>2. \/ dir'[p] = dir[p]
          \/ dir'[p] = w /\ content'[w] = captured[w]
      BY <1>0, <2>2 DEF Create, Typed, TypeOK
    <3>3. captured[w] # None
      BY <3>1, FilesAssumption
    <3> QED
      BY <1>0, <2>1, <3>2, <3>3 DEF Begun
  <2>3. CASE Capture(w) \/ Write(w) \/ StopWriting(w)
    BY <2>1, <2>3 DEF Capture, Write, StopWriting, dirVars
  <2> QED
    BY <2>2, <2>3 DEF Snapshot
<1> QED
  BY <1>1, <1>2, <1>3 DEF WritersInv

LEMMA WritersOthers ==
  ASSUME Typed, WritersInv, Others
  PROVE  /\ WritersInv'
         /\ UNCHANGED <<content, written, writerVars, readerVars>>
         /\ \A f \in Files : extra'[f] >= extra[f]
<1>1. UNCHANGED <<content, written, writerVars, readerVars>>
  BY DEF Others, Remove, Move, AppendTo
<1>2. \A f \in Files : extra'[f] >= extra[f]
  <2>1. \A f \in Files : extra[f] \in Nat
    BY DEF Typed, TypeOK
  <2> QED
    BY <2>1 DEF Others, Remove, Move, AppendTo, Typed, TypeOK
<1>3. \A p \in Paths : dir'[p] # None => \E q \in Paths : dir'[p] = dir[q]
  BY DEF Others, Remove, Move, AppendTo, Typed, TypeOK
<1> QED
  BY <1>1, <1>2, <1>3 DEF WritersInv, OwnFile, Fitting, Begun, writerVars

LEMMA WritersNext == Typed /\ WritersInv /\ [Next]_vars => WritersInv'
<1> SUFFICES ASSUME Typed, WritersInv, [Next]_vars PROVE WritersInv'
  OBVIOUS
<1>1. CASE UNCHANGED <<dirVars, writerVars>>
  BY <1>1 DEF WritersInv, OwnFile, Fitting, Begun, dirVars, writerVars
<1>2. ASSUME NEW r \in Readers, Diff(r) PROVE UNCHANGED <<dirVars, writerVars>>
  BY <1>2 DEF Diff, Open, Inspect, Read, Decode, Compare, StopReading
<1> QED
  BY <1>1, <1>2, WritersSnapshot, WritersOthers DEF Next, vars

\* What no step does to a file that was begun, and to a command that reported.
LEMMA FilesGrow ==
  ASSUME Typed, WritersInv, [Next]_vars
  PROVE  /\ \A f \in Files : Begun(f) => content'[f] = content[f] /\ written'[f] >= written[f]
         /\ \A f \in Files : extra'[f] >= extra[f]
         /\ \A v \in Writers : step[v] = "reported" =>
                step'[v] = "reported" /\ written'[v] = written[v]
<1>0. \A f \in Files : written[f] \in Nat /\ extra[f] \in Nat
  BY DEF Typed, TypeOK
<1>1. CASE UNCHANGED <<dirVars, writerVars>>
  BY <1>0, <1>1 DEF dirVars, writerVars
<1>2. ASSUME NEW r \in Readers, Diff(r) PROVE UNCHANGED <<dirVars, writerVars>>
  BY <1>2 DEF Diff, Open, Inspect, Read, Decode, Compare, StopReading
<1>3. CASE Others
  BY <1>0, <1>3, WritersOthers DEF writerVars
<1>4. ASSUME NEW w \in Writers, Snapshot(w)
      PROVE  /\ \A f \in Files : Begun(f) => content'[f] = content[f] /\ written'[f] >= written[f]
             /\ \A v \in Writers : step[v] = "reported" =>
                    step'[v] = "reported" /\ written'[v] = written[v]
             /\ extra' = extra
  <2>1. extra' = extra
    BY <1>4 DEF Snapshot, Capture, Create, Write, StopWriting, dirVars
  <2> QED
    BY <1>0, <1>4, <2>1, OneFileWritten DEF Files
<1> QED
  BY <1>0, <1>1, <1>2, <1>3, <1>4 DEF Next, vars

\* A file that was reported as created holds the whole document, for good.
THEOREM ReportedStayWhole == Spec => []ReportedWhole
<1>1. Typed /\ WritersInv => ReportedWhole
  BY FilesAssumption
  DEF Typed, Equipped, WritersInv, OwnFile, Fitting, ReportedWhole, Files
<1> QED
  BY TypedInit, TypedNext, WritersInit, WritersNext, <1>1, PTL DEF Spec

\* No command and no other program cuts or rewrites what is in a file.
THEOREM FilesAppendOnly == Spec => AppendOnly
<1>1. Typed /\ WritersInv /\ [Next]_vars =>
        [\A f \in Files : content[f] # None => /\ content'[f] = content[f]
                                               /\ written'[f] >= written[f]]_vars
  BY FilesGrow DEF Begun
<1> QED
  BY TypedInit, TypedNext, WritersInit, WritersNext, <1>1, PTL DEF Spec, AppendOnly

-----------------------------------------------------------------------------
(***************************************************************************)
(* The diff commands                                                       *)
(***************************************************************************)

\* The buffer holds bytes of a file that was begun, and not too many of them.
BufferOK(r) ==
    /\ at[r] \in {"inspect", "read", "decode"} => Begun(handle[r])
    /\ at[r] \in {"inspect", "read", "decode"} => got[r] <= Length(handle[r])
    /\ got[r] <= Limit + 1

\* A reader that is sure of its file has all of it when it stops reading.
SureOK(r) ==
    /\ sure[r] => handle[r] \in Writers /\ step[handle[r]] = "reported"
    /\ at[r] = "decode" /\ sure[r] => got[r] > Limit \/ got[r] >= written[handle[r]]
    /\ at[r] \in {"too_large", "unreadable"} /\ sure[r] => extra[handle[r]] > 0

Whole(f) == Begun(f) /\ Supported(content[f]) /\ written[f] >= content[f].size - 1

LoadedOK(r) == \A s \in Sides : loaded[r][s] # None => Whole(loaded[r][s])

ReadersInv == \A r \in Readers : BufferOK(r) /\ SureOK(r) /\ LoadedOK(r)

LEMMA ReadersInit == Init => ReadersInv
BY FilesAssumption DEF Init, ReadersInv, BufferOK, SureOK, LoadedOK

\* What writers and other programs do to the files leaves a reader as it is.
LEMMA ReadersKept ==
  ASSUME Typed, WritersInv, ReadersInv, [Next]_vars, NEW r \in Readers,
         UNCHANGED <<at[r], side[r], handle[r], got[r], loaded[r], sure[r]>>
  PROVE  (BufferOK(r) /\ SureOK(r) /\ LoadedOK(r))'
<1>0. \A f \in Files : /\ written[f] \in Nat /\ written'[f] \in Nat
                       /\ extra[f] \in Nat /\ extra'[f] \in Nat
  BY TypedNext DEF Typed, TypeOK
<1>1. BufferOK(r)'
  <2>1. ASSUME at[r] \in {"inspect", "read", "decode"}
        PROVE  Begun(handle[r])' /\ got[r] <= Length(handle[r])'
    <3>1. Begun(handle[r]) /\ got[r] <= Length(handle[r]) /\ got[r] \in Nat
      BY <2>1 DEF ReadersInv, BufferOK, Typed, TypeOK
    <3>2. content'[handle[r]] = content[handle[r]] /\ written'[handle[r]] >= written[handle[r]]
          /\ extra'[handle[r]] >= extra[handle[r]]
      BY <3>1, FilesGrow DEF Begun
    <3> QED
      BY <1>0, <3>1, <3>2 DEF Begun, Length
  <2> QED
    BY <2>1 DEF ReadersInv, BufferOK
<1>2. SureOK(r)'
  <2>1. ASSUME sure[r]
        PROVE  /\ handle[r] \in Writers /\ step'[handle[r]] = "reported"
               /\ written'[handle[r]] = written[handle[r]]
               /\ extra'[handle[r]] >= extra[handle[r]]
    BY <2>1, FilesGrow DEF ReadersInv, SureOK, Files
  <2> QED
    BY <1>0, <2>1 DEF ReadersInv, SureOK, Files
<1>3. LoadedOK(r)'
  <2>1. ASSUME NEW s \in Sides, loaded[r][s] # None
        PROVE  Whole(loaded[r][s])'
    <3>1. Whole(loaded[r][s])
      BY <2>1 DEF ReadersInv, LoadedOK
    <3>2. /\ content'[loaded[r][s]] = content[loaded[r][s]]
          /\ written'[loaded[r][s]] >= written[loaded[r][s]]
      BY <3>1, FilesGrow DEF Whole, Begun
    <3>3. content[loaded[r][s]] \in Documents
      BY <3>1 DEF Typed, TypeOK, Whole, Begun
    <3>4. loaded'[r][s] = loaded[r][s]
      OBVIOUS
    <3> QED
      BY <1>0, <3>1, <3>2, <3>3, <3>4, FilesAssumption DEF Whole, Begun
  <2> QED
    BY <2>1 DEF LoadedOK
<1> QED
  BY <1>1, <1>2, <1>3

\* A file that was reported as created fits into the limit and decodes.
LEMMA SureFile ==
  ASSUME Typed, WritersInv, NEW w \in Writers, step[w] = "reported"
  PROVE  /\ written[w] = content[w].size /\ written[w] \in Nat /\ written[w] <= Limit
         /\ Decodes(w, written[w])
<1>1. /\ file[w] = w /\ captured[w] \in Documents /\ Supported(captured[w])
      /\ captured[w].size <= Limit /\ written[w] = captured[w].size
  BY DEF Typed, Equipped, WritersInv, Fitting, Fits
<1>2. content[w] = captured[w]
  BY <1>1 DEF WritersInv, OwnFile
<1> QED
  BY <1>1, <1>2, FilesAssumption DEF Decodes

LEMMA OneReaderMoves ==
  ASSUME Typed, NEW r \in Readers, Diff(r), NEW q \in Readers, q # r
  PROVE  UNCHANGED <<at[q], side[q], handle[q], got[q], loaded[q], sure[q]>>
BY DEF Diff, Open, Inspect, Read, Decode, Compare, StopReading, Typed, TypeOK

LEMMA ReaderMoves ==
  ASSUME Typed, WritersInv, ReadersInv, NEW r \in Readers, Diff(r)
  PROVE  (BufferOK(r) /\ SureOK(r) /\ LoadedOK(r))'
<1>0. Limit \in Nat /\ got[r] \in Nat
  BY FilesAssumption DEF Typed, TypeOK
<1>f. UNCHANGED <<dirVars, writerVars>>
  BY DEF Diff, Open, Inspect, Read, Decode, Compare, StopReading
<1>l. ASSUME NEW f \in Files
      PROVE  written[f] \in Nat /\ extra[f] \in Nat /\ Length(f) = written[f] + extra[f]
  BY DEF Typed, TypeOK, Length
<1>g. \A f \in Files : Begun(f)' = Begun(f) /\ Length(f)' = Length(f) /\ Whole(f)' = Whole(f)
  BY <1>f DEF dirVars, Begun, Length, Whole
<1>1. CASE Open(r)
  <2>1. got'[r] = 0 /\ loaded' = loaded
    BY <1>1 DEF Open, Typed, TypeOK
  <2>2. CASE dir[args[r][side[r]]] = None
    <3>1. at'[r] = "failed" /\ handle' = handle /\ sure' = sure
      BY <1>1, <2>2 DEF Open, Typed, TypeOK
    <3> QED
      BY <1>0, <1>f, <2>1, <3>1
      DEF ReadersInv, BufferOK, SureOK, LoadedOK, Whole, Begun, dirVars, writerVars
  <2>3. CASE dir[args[r][side[r]]] # None
    <3>1. DEFINE f == dir[args[r][side[r]]]
    <3>2. Begun(f)
      BY <2>3 DEF WritersInv, Typed, TypeOK
    <3>3. /\ at'[r] = "inspect" /\ handle'[r] = f
          /\ sure'[r] = \E w \in Writers : step[w] = "reported" /\ file[w] = f
      BY <1>1, <2>3 DEF Open, Typed, TypeOK
    <3>4. sure'[r] => f \in Writers /\ step[f] = "reported"
      BY <3>3 DEF Typed, Equipped
    <3>5. BufferOK(r)'
      BY <1>0, <1>f, <1>l, <2>1, <3>2, <3>3 DEF BufferOK, Begun, Length, dirVars
    <3>6. SureOK(r)'
      BY <1>f, <3>3, <3>4 DEF SureOK, writerVars
    <3>7. LoadedOK(r)'
      BY <1>f, <2>1 DEF ReadersInv, LoadedOK, Whole, Begun, dirVars
    <3> QED
      BY <3>5, <3>6, <3>7
  <2> QED
    BY <2>2, <2>3
<1>2. CASE Inspect(r)
  <2>1. handle[r] \in Files /\ got[r] <= Length(handle[r]) /\ Begun(handle[r])
    BY <1>2 DEF Inspect, ReadersInv, BufferOK, Begun
  <2>2. /\ at'[r] = IF Length(handle[r]) > Limit THEN "too_large" ELSE "read"
        /\ UNCHANGED <<handle, got, loaded, sure>>
    BY <1>2 DEF Inspect, Typed, TypeOK
  <2>3. BufferOK(r)'
    BY <1>f, <2>1, <2>2 DEF ReadersInv, BufferOK, Begun, Length, dirVars
  <2>4. ASSUME sure[r], at'[r] = "too_large" PROVE extra[handle[r]] > 0
    <3>1. handle[r] \in Writers /\ step[handle[r]] = "reported"
      BY <2>4 DEF ReadersInv, SureOK
    <3> QED
      BY <1>0, <1>l, <2>1, <2>2, <2>4, <3>1, SureFile
  <2>5. SureOK(r)'
    BY <1>f, <2>2, <2>4 DEF ReadersInv, SureOK, dirVars, writerVars
  <2>6. LoadedOK(r)'
    BY <1>f, <2>2 DEF ReadersInv, LoadedOK, Whole, Begun, dirVars
  <2> QED
    BY <2>3, <2>5, <2>6
<1>3. CASE Read(r)
  <2>1. handle[r] \in Files /\ got[r] <= Length(handle[r]) /\ Begun(handle[r])
    BY <1>3 DEF Read, ReadersInv, BufferOK, Begun
  <2>2. UNCHANGED <<handle, loaded, sure>>
    BY <1>3 DEF Read
  <2>3. Readable(handle[r]) <= Limit + 1 /\ Readable(handle[r]) <= Length(handle[r])
        /\ Readable(handle[r]) \in Nat
    BY <1>0, <1>l, <2>1 DEF Readable
  <2>4. \/ at'[r] = "read" /\ got'[r] \in got[r] + 1 .. Readable(handle[r])
        \/ at'[r] = "decode" /\ got'[r] = got[r] /\ got[r] >= Readable(handle[r])
    BY <1>3 DEF Read, Typed, TypeOK
  <2>5. BufferOK(r)'
    <3>1. got'[r] <= Limit + 1 /\ got'[r] <= Length(handle[r])
      BY <1>0, <1>l, <2>1, <2>3, <2>4 DEF ReadersInv, BufferOK
    <3> QED
      BY <1>f, <2>1, <2>2, <3>1 DEF BufferOK, Begun, Length, dirVars
  <2>6. SureOK(r)'
    <3>1. at'[r] = "decode" => got[r] > Limit \/ got[r] >= written[handle[r]]
      BY <1>0, <1>l, <2>1, <2>4 DEF Readable
    <3> QED
      BY <1>f, <2>2, <2>4, <3>1 DEF ReadersInv, SureOK, dirVars, writerVars
  <2>7. LoadedOK(r)'
    BY <1>f, <2>2 DEF ReadersInv, LoadedOK, Whole, Begun, dirVars
  <2> QED
    BY <2>5, <2>6, <2>7
<1>4. CASE Decode(r)
  <2>1. /\ handle[r] \in Files /\ Begun(handle[r]) /\ side[r] \in Sides
        /\ got[r] <= Length(handle[r]) /\ at[r] = "decode"
    BY <1>4 DEF Decode, ReadersInv, BufferOK, Begun, Typed, TypeOK
  <2>2. UNCHANGED <<handle, got, sure>>
    BY <1>4 DEF Decode
  <2>3. CASE got[r] <= Limit /\ Decodes(handle[r], got[r])
    <3>1. /\ at'[r] \in {"open", "compare"}
          /\ loaded' = [loaded EXCEPT ![r][side[r]] = handle[r]]
      BY <1>0, <1>4, <2>3 DEF Decode, Typed, TypeOK
    <3>2. Whole(handle[r])
      <4>1. content[handle[r]] \in Documents
        BY <2>1 DEF Begun, Typed, TypeOK
      <4> QED
        BY <1>0, <1>l, <2>1, <2>3, <4>1, FilesAssumption DEF Whole, Decodes
    <3>3. \A s \in Sides : loaded'[r][s] = IF s = side[r] THEN handle[r] ELSE loaded[r][s]
      BY <2>1, <3>1 DEF Typed, TypeOK
    <3>4. LoadedOK(r)'
      BY <1>f, <3>2, <3>3 DEF ReadersInv, LoadedOK, Whole, Begun, dirVars
    <3> QED
      BY <1>f, <2>2, <3>1, <3>4 DEF ReadersInv, BufferOK, SureOK, dirVars, writerVars
  <2>4. CASE ~(got[r] <= Limit /\ Decodes(handle[r], got[r]))
    <3>1. /\ at'[r] \in {"too_large", "unreadable"}
          /\ loaded' = loaded
      BY <1>0, <1>4, <2>4 DEF Decode, Typed, TypeOK
    <3>2. ASSUME sure[r] PROVE extra[handle[r]] > 0
      <4>1. handle[r] \in Writers /\ step[handle[r]] = "reported"
        BY <3>2 DEF ReadersInv, SureOK
      <4>2. /\ written[handle[r]] <= Limit /\ written[handle[r]] \in Nat
            /\ Decodes(handle[r], written[handle[r]])
        BY <4>1, SureFile
      <4>3. got[r] > Limit \/ got[r] >= written[handle[r]]
        BY <2>1, <3>2 DEF ReadersInv, SureOK
      <4>4. got[r] # written[handle[r]]
        BY <2>4, <4>2
      <4> QED
        BY <1>0, <1>l, <2>1, <4>2, <4>3, <4>4
    <3>3. SureOK(r)'
      BY <1>f, <2>2, <3>1, <3>2 DEF ReadersInv, SureOK, dirVars, writerVars
    <3> QED
      BY <1>f, <2>2, <3>1, <3>3
      DEF ReadersInv, BufferOK, LoadedOK, Whole, Begun, dirVars
  <2> QED
    BY <2>3, <2>4
<1>5. CASE Compare(r) \/ StopReading(r)
  <2>1. /\ at'[r] \in {"compared", "refused", "failed"}
        /\ UNCHANGED <<handle, got, loaded, sure>>
    BY <1>5 DEF Compare, StopReading, Typed, TypeOK
  <2> QED
    BY <1>f, <2>1
    DEF ReadersInv, BufferOK, SureOK, LoadedOK, Whole, Begun, dirVars, writerVars
<1> QED
  BY <1>1, <1>2, <1>3, <1>4, <1>5 DEF Diff

LEMMA ReadersNext == Typed /\ WritersInv /\ ReadersInv /\ [Next]_vars => ReadersInv'
<1> SUFFICES ASSUME Typed, WritersInv, ReadersInv, [Next]_vars,
                    NEW r \in Readers
             PROVE  (BufferOK(r) /\ SureOK(r) /\ LoadedOK(r))'
  BY DEF ReadersInv
<1>1. CASE UNCHANGED readerVars
  BY <1>1, ReadersKept DEF readerVars
<1>2. ASSUME NEW q \in Readers, Diff(q)
      PROVE  (BufferOK(r) /\ SureOK(r) /\ LoadedOK(r))'
  <2>1. CASE q = r
    BY <1>2, <2>1, ReaderMoves
  <2>2. CASE q # r
    <3>1. UNCHANGED <<at[r], side[r], handle[r], got[r], loaded[r], sure[r]>>
      BY <1>2, <2>2, OneReaderMoves
    <3> QED
      BY <3>1, ReadersKept
  <2> QED
    BY <2>1, <2>2
<1>3. ASSUME NEW w \in Writers, Snapshot(w) PROVE UNCHANGED readerVars
  BY <1>3 DEF Snapshot, Capture, Create, Write, StopWriting
<1>4. CASE Others
  BY <1>1, <1>4, WritersOthers
<1> QED
  BY <1>1, <1>2, <1>3, <1>4 DEF Next, vars

LEMMA FilesInvariant == Spec => [](Typed /\ WritersInv /\ ReadersInv)
BY TypedInit, TypedNext, WritersInit, WritersNext, ReadersInit, ReadersNext, PTL DEF Spec

\* A diff decodes only whole Snapshots, whatever it reads and whenever.
THEOREM DiffsLoadWhole == Spec => []LoadedWhole
<1>1. ReadersInv => LoadedWhole
  BY DEF ReadersInv, LoadedOK, Whole, Begun, LoadedWhole
<1> QED
  BY FilesInvariant, <1>1, PTL

\* What was reported as created can be read, as long as nobody adds to it.
THEOREM ReportedReadable == Spec => []RefusedForAReason
<1>1. ReadersInv => RefusedForAReason
  BY DEF ReadersInv, SureOK, RefusedForAReason
<1> QED
  BY FilesInvariant, <1>1, PTL

\* A diff holds at most one byte more than the limit, however a file grows.
THEOREM BuffersBounded == Spec => []ReadBounded
<1>1. ReadersInv => ReadBounded
  BY DEF ReadersInv, BufferOK, ReadBounded
<1> QED
  BY FilesInvariant, <1>1, PTL
=============================================================================
