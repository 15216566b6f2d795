--------------------------- MODULE MCSnapshotFiles ---------------------------
(***************************************************************************)
(* Small documents for SnapshotFiles: a Snapshot within the limit, one    *)
(* that only its newline makes too long, and a document of another type.   *)
(***************************************************************************)
EXTENDS SnapshotFiles, TLC

Doc(type, version, size) == [type |-> type, version |-> version, size |-> size]

MCDocuments == {Doc("snapshot", 1, 2), Doc("snapshot", 1, 3), Doc("diff", 1, 2)}

Symmetry == Permutations(Writers) \union Permutations(Paths)
=============================================================================
