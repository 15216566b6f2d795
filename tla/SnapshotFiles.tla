---------------------------- MODULE SnapshotFiles ----------------------------
(***************************************************************************)
(* The commands of systemdiff-cli on the files they share.  A snapshot     *)
(* command creates a file and writes a document to it piece by piece; a    *)
(* diff command reads two files, which may still be growing.  Any command  *)
(* fails or is killed between two calls; other programs move and remove    *)
(* files, and append to those that no command is writing.                  *)
(*                                                                         *)
(* Bytes are counted, not spelled out: a file holds the first so many      *)
(* bytes of one document, and then what others appended to it, which       *)
(* leaves it no JSON document.  The last byte of a document is the newline *)
(* that follows its closing brace.                                         *)
(***************************************************************************)
EXTENDS Integers

CONSTANTS
    Writers,      \* processes that run "snapshot --output"
    Readers,      \* processes that run "diff"
    Given,        \* files from elsewhere
    Paths,
    Documents,    \* records with fields type, version and size
    Limit,        \* MAX_SNAPSHOT_OUTPUT_BYTES = MAX_SNAPSHOT_INPUT_BYTES
    MaxExtra,     \* bound of the model: bytes appended to a file
    None          \* no file, no document

Files == Writers \union Given

ASSUME FilesAssumption ==
    /\ Limit \in Nat /\ MaxExtra \in Nat
    /\ \A d \in Documents : d.size \in Nat /\ d.size > 1
    /\ Writers \intersect Given = {}
    /\ None \notin Files \union Documents \union Paths

VARIABLES
    dir,        \* dir[p]: the file at path p, or None
    content,    \* content[f]: the document the file was begun with
    written,    \* written[f]: how many of its bytes are in the file
    extra,      \* extra[f]: how many bytes follow that are no part of it
    step,       \* step[w]: where the snapshot command is
    output,     \* output[w]: its --output path
    captured,   \* captured[w]: the Snapshot it serialized
    file,       \* file[w]: the file it has created
    at,         \* at[r]: where the diff command is
    side,       \* side[r]: the argument it is loading
    args,       \* args[r]: its two paths
    handle,     \* handle[r]: the file it has opened
    got,        \* got[r]: the bytes it has read from it
    loaded,     \* loaded[r]: the files whose documents it has decoded
    sure        \* history: its file was reported as created when it was opened

dirVars == <<dir, content, written, extra>>
writerVars == <<step, output, captured, file>>
readerVars == <<at, side, args, handle, got, loaded, sure>>
vars == <<dirVars, writerVars, readerVars>>

-----------------------------------------------------------------------------
Sides == {"before", "after"}

WriterSteps == {"capture", "create", "write", "reported", "failed"}

ReaderSteps == {"open", "inspect", "read", "decode", "compare", "compared",
                "refused", "too_large", "unreadable", "failed"}

Length(f) == written[f] + extra[f]

\* What a snapshot command produces, and what decode_snapshot_document takes.
Supported(d) == d.type = "snapshot" /\ d.version = 1

\* Mutant: the newline after the document is not counted.
MutantFits(d) == d.size - 1 <= Limit

\* serialize_snapshot_with_limit, the CappedBuffer and write_json.
Fits(d) == d.size <= Limit

\* Mutant: a document that ends too early is completed by the reader.
MutantDecodes(f, n) == n <= written[f] /\ Supported(content[f])

\* decode_snapshot_document of the first n bytes of a file: the JSON must be
\* whole, with the newline or without, its type and version those of a Snapshot.
Decodes(f, n) ==
    /\ n <= written[f]
    /\ n >= content[f].size - 1
    /\ Supported(content[f])

-----------------------------------------------------------------------------
TypeOK ==
    /\ dir \in [Paths -> Files \union {None}]
    /\ content \in [Files -> Documents \union {None}]
    /\ written \in [Files -> Nat]
    /\ extra \in [Files -> Nat]
    /\ step \in [Writers -> WriterSteps]
    /\ output \in [Writers -> Paths]
    /\ captured \in [Writers -> Documents \union {None}]
    /\ file \in [Writers -> Files \union {None}]
    /\ at \in [Readers -> ReaderSteps]
    /\ side \in [Readers -> Sides]
    /\ args \in [Readers -> [Sides -> Paths]]
    /\ handle \in [Readers -> Files \union {None}]
    /\ got \in [Readers -> Nat]
    /\ loaded \in [Readers -> [Sides -> Files \union {None}]]
    /\ sure \in [Readers -> BOOLEAN]

\* Files from elsewhere are whole or cut short, and at one path at most.
Init ==
    /\ dir \in [Paths -> Given \union {None}]
    /\ \A p, q \in Paths : dir[p] = dir[q] => p = q \/ dir[p] = None
    /\ content \in {c \in [Files -> Documents \union {None}] :
                        \A f \in Files : c[f] = None <=> f \in Writers}
    /\ written \in {n \in [Files -> 0 .. Limit + 1] :
                        \A f \in Files : IF f \in Writers THEN n[f] = 0
                                         ELSE n[f] <= content[f].size}
    /\ extra = [f \in Files |-> 0]
    /\ step = [w \in Writers |-> "capture"]
    /\ output \in [Writers -> Paths]
    /\ captured = [w \in Writers |-> None]
    /\ file = [w \in Writers |-> None]
    /\ at = [r \in Readers |-> "open"]
    /\ side = [r \in Readers |-> "before"]
    /\ args \in [Readers -> [Sides -> Paths]]
    /\ handle = [r \in Readers |-> None]
    /\ got = [r \in Readers |-> 0]
    /\ loaded = [r \in Readers |-> [s \in Sides |-> None]]
    /\ sure = [r \in Readers |-> FALSE]

-----------------------------------------------------------------------------
(***************************************************************************)
(* snapshot --output                                                       *)
(***************************************************************************)

\* capture_snapshot and serialize_snapshot_with_limit: no file exists yet.
Capture(w) ==
    /\ step[w] = "capture"
    /\ \E d \in {d \in Documents : Supported(d)} :
        \/ /\ Fits(d)
           /\ captured' = [captured EXCEPT ![w] = d]
           /\ step' = [step EXCEPT ![w] = "create"]
        \/ /\ ~Fits(d)
           /\ step' = [step EXCEPT ![w] = "failed"]
           /\ UNCHANGED captured
    /\ UNCHANGED <<dirVars, output, file, readerVars>>

\* Mutant: a file that exists is truncated and used.
MutantCreate(w) ==
    /\ step[w] = "create"
    /\ LET f == IF dir[output[w]] = None THEN w ELSE dir[output[w]]
       IN  /\ dir' = [dir EXCEPT ![output[w]] = f]
           /\ content' = [content EXCEPT ![f] = captured[w]]
           /\ written' = [written EXCEPT ![f] = 0]
           /\ file' = [file EXCEPT ![w] = f]
    /\ step' = [step EXCEPT ![w] = "write"]
    /\ UNCHANGED <<extra, output, captured, readerVars>>

\* create_new: the path must be free.
Create(w) ==
    /\ step[w] = "create"
    /\ \/ /\ dir[output[w]] = None
          /\ dir' = [dir EXCEPT ![output[w]] = w]
          /\ content' = [content EXCEPT ![w] = captured[w]]
          /\ file' = [file EXCEPT ![w] = w]
          /\ step' = [step EXCEPT ![w] = "write"]
       \/ /\ dir[output[w]] # None
          /\ step' = [step EXCEPT ![w] = "failed"]
          /\ UNCHANGED <<dir, content, file>>
    /\ UNCHANGED <<written, extra, output, captured, readerVars>>

\* write_all: as many calls as it takes; the last one is reported to the user.
Write(w) ==
    /\ step[w] = "write"
    /\ \E n \in written[file[w]] + 1 .. captured[w].size :
        /\ written' = [written EXCEPT ![file[w]] = n]
        /\ step' = [step EXCEPT ![w] = IF n = captured[w].size THEN "reported"
                                       ELSE "write"]
    /\ UNCHANGED <<dir, content, extra, output, captured, file, readerVars>>

\* Any error, or the end of the process; a file stays as it is.
StopWriting(w) ==
    /\ step[w] \in {"capture", "create", "write"}
    /\ step' = [step EXCEPT ![w] = "failed"]
    /\ UNCHANGED <<dirVars, output, captured, file, readerVars>>

-----------------------------------------------------------------------------
(***************************************************************************)
(* diff: load_snapshot of the two arguments, then diff_snapshots           *)
(***************************************************************************)
Open(r) ==
    /\ at[r] = "open"
    /\ LET f == dir[args[r][side[r]]]
       IN  \/ /\ f # None
              /\ handle' = [handle EXCEPT ![r] = f]
              /\ at' = [at EXCEPT ![r] = "inspect"]
              /\ sure' = [sure EXCEPT ![r] =
                    \E w \in Writers : step[w] = "reported" /\ file[w] = f]
           \/ /\ f = None
              /\ at' = [at EXCEPT ![r] = "failed"]
              /\ UNCHANGED <<handle, sure>>
    /\ got' = [got EXCEPT ![r] = 0]
    /\ UNCHANGED <<dirVars, writerVars, side, args, loaded>>

\* validate_snapshot_input_size of the metadata.
Inspect(r) ==
    /\ at[r] = "inspect"
    /\ at' = [at EXCEPT ![r] = IF Length(handle[r]) > Limit THEN "too_large" ELSE "read"]
    /\ UNCHANGED <<dirVars, writerVars, side, args, handle, got, loaded, sure>>

\* take(limit + 1): what there is to read of a file at this moment.
Readable(f) == IF Length(f) > Limit THEN Limit + 1 ELSE Length(f)

\* read_to_end: another call until there is nothing left.
Read(r) ==
    /\ at[r] = "read"
    /\ \/ /\ \E n \in got[r] + 1 .. Readable(handle[r]) : got' = [got EXCEPT ![r] = n]
          /\ UNCHANGED at
       \/ /\ got[r] >= Readable(handle[r])
          /\ at' = [at EXCEPT ![r] = "decode"]
          /\ UNCHANGED got
    /\ UNCHANGED <<dirVars, writerVars, side, args, handle, loaded, sure>>

\* The size again, then decode_snapshot_document; the second argument follows.
Decode(r) ==
    /\ at[r] = "decode"
    /\ \/ /\ got[r] > Limit
          /\ at' = [at EXCEPT ![r] = "too_large"]
          /\ UNCHANGED <<side, loaded>>
       \/ /\ got[r] <= Limit /\ ~Decodes(handle[r], got[r])
          /\ at' = [at EXCEPT ![r] = "unreadable"]
          /\ UNCHANGED <<side, loaded>>
       \/ /\ got[r] <= Limit /\ Decodes(handle[r], got[r])
          /\ loaded' = [loaded EXCEPT ![r][side[r]] = handle[r]]
          /\ side' = [side EXCEPT ![r] = "after"]
          /\ at' = [at EXCEPT ![r] = IF side[r] = "before" THEN "open" ELSE "compare"]
    /\ UNCHANGED <<dirVars, writerVars, args, handle, got, sure>>

\* diff_snapshots refuses documents that are invalid or incompatible.
Compare(r) ==
    /\ at[r] = "compare"
    /\ \E outcome \in {"compared", "refused"} : at' = [at EXCEPT ![r] = outcome]
    /\ UNCHANGED <<dirVars, writerVars, side, args, handle, got, loaded, sure>>

StopReading(r) ==
    /\ at[r] \in {"open", "inspect", "read", "decode", "compare"}
    /\ at' = [at EXCEPT ![r] = "failed"]
    /\ UNCHANGED <<dirVars, writerVars, side, args, handle, got, loaded, sure>>

-----------------------------------------------------------------------------
(***************************************************************************)
(* Other programs                                                          *)
(***************************************************************************)
Remove(p) ==
    /\ dir[p] # None
    /\ dir' = [dir EXCEPT ![p] = None]
    /\ UNCHANGED <<content, written, extra, writerVars, readerVars>>

Move(p, q) ==
    /\ dir[p] # None /\ dir[q] = None
    /\ dir' = [dir EXCEPT ![p] = None, ![q] = dir[p]]
    /\ UNCHANGED <<content, written, extra, writerVars, readerVars>>

AppendTo(p) ==
    /\ dir[p] # None
    /\ \A w \in Writers : file[w] = dir[p] => step[w] # "write"
    /\ extra[dir[p]] < MaxExtra
    /\ extra' = [extra EXCEPT ![dir[p]] = @ + 1]
    /\ UNCHANGED <<dir, content, written, writerVars, readerVars>>

-----------------------------------------------------------------------------
Snapshot(w) == Capture(w) \/ Create(w) \/ Write(w) \/ StopWriting(w)

Diff(r) ==
    Open(r) \/ Inspect(r) \/ Read(r) \/ Decode(r) \/ Compare(r) \/ StopReading(r)

Others == \E p, q \in Paths : Remove(p) \/ Move(p, q) \/ AppendTo(p)

Next ==
    \/ \E w \in Writers : Snapshot(w)
    \/ \E r \in Readers : Diff(r)
    \/ Others

Spec == Init /\ [][Next]_vars

-----------------------------------------------------------------------------
(***************************************************************************)
(* Properties                                                              *)
(***************************************************************************)

\* "Created Snapshot" is the truth for good: the file holds the whole document
\* of this command, whatever other commands were given the same path.
ReportedWhole ==
    \A w \in Writers : step[w] = "reported" =>
        /\ content[file[w]] = captured[w]
        /\ written[file[w]] = captured[w].size

\* A diff gives up on the size or the text of a file only if the file had not
\* been reported as created, or another program has added to it: what a
\* snapshot command may write, a diff command can read.
RefusedForAReason ==
    \A r \in Readers :
        at[r] \in {"too_large", "unreadable"} /\ sure[r] => extra[handle[r]] > 0

\* What a diff has decoded is a whole Snapshot, also when it was opened while a
\* command was writing it, or is what a command left that failed half-way.
LoadedWhole ==
    \A r \in Readers, s \in Sides : loaded[r][s] # None =>
        /\ content[loaded[r][s]] # None
        /\ Supported(content[loaded[r][s]])
        /\ written[loaded[r][s]] >= content[loaded[r][s]].size - 1

\* A file that grows after its size was checked fills no more memory than one
\* byte over the limit.
ReadBounded == \A r \in Readers : got[r] <= Limit + 1

\* No file is ever cut or rewritten, so the prefix that a reader holds stays one.
AppendOnly ==
    [][\A f \in Files :
          content[f] # None => /\ content'[f] = content[f]
                               /\ written'[f] >= written[f]]_vars
=============================================================================
