--------------------------- MODULE MCRegistryScan ---------------------------
(***************************************************************************)
(* Small keys for RegistryScan.  The name 2 is longer than 1; of the data, *)
(* one is empty, two differ in type and size, and one is over the limit.   *)
(***************************************************************************)
EXTENDS ScanRefinement

MCNameUnits == [n \in Names |-> IF n = 2 THEN 2 ELSE 1]

MCBytes == [none |-> 0, short |-> 1, long |-> 2, huge |-> 5]
MCDataBytes == [d \in Data |-> MCBytes[d]]
MCTypeOf == [d \in Data |-> IF d = "long" THEN "binary" ELSE "string"]
=============================================================================
