--------------------------- MODULE MCSQIDataStruct --------------------------
(* A vector, a second one for copies and for the results of iterate, and a   *)
(* dictionary of one key; two numbers.                                        *)
EXTENDS SQIDataStruct, TLC

CONSTANTS n1, n2, v, w, k

MCObj     == {n1, n2}
MCVal     == n1 :> 1 @@ n2 :> 2
MCVectors == {v, w}
MCDico    == {k}
MCInCall  == {"same"}
MCSymmetry == Permutations({v, w})
=============================================================================
