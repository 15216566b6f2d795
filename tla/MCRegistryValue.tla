--------------------------- MODULE MCRegistryValue ---------------------------
(***************************************************************************)
(* Values for RegistryValue: all lists of up to six units and all other    *)
(* data of up to five under one name, and all names of up to three units   *)
(* over one datum.                                                         *)
(***************************************************************************)
EXTENDS RegistryValue

CONSTANT NameUnitSet    \* the units of names

MaxList == 6
MaxData == 5
MaxName == 3

Input(kind, name, type, units, odd) ==
    [kind |-> kind, name |-> name, type |-> type, units |-> units, odd |-> odd]

SomeData(max) == UNION {[1 .. n -> {Zero, High, Low, "a"}] : n \in 0 .. max}
SomeNames == UNION {[1 .. n -> NameUnitSet] : n \in 0 .. MaxName}

MCInputs ==
    {Input("run", <<"a">>, 7, units, odd) : units \in SomeData(MaxList), odd \in BOOLEAN}
    \union
    {Input("run", <<"a">>, type, units, odd) :
        type \in {0, 1, 2, 4, 5, 11, 12}, units \in SomeData(MaxData), odd \in BOOLEAN}
    \union
    {Input(kind, name, 1, <<"a", Zero>>, FALSE) :
        kind \in {"run", "run_once"}, name \in SomeNames}
=============================================================================
