------------------------------ MODULE MCSQIList ------------------------------
(* Two numbers and a literal number that are equal, two lists and a literal    *)
(* list, a global variable and a local one.                                    *)
EXTENDS SQIList, TLC

CONSTANTS n1, n2, t1, l1, l2, text1, g, x

MCNums     == {n1, n2, t1}
MCLiterals == {t1}
MCVal      == [n \in MCNums |-> 1]
MCLists    == {l1, l2, text1}
MCText     == [t \in {text1} |-> <<t1>>]
MCGlobals  == {g}
MCLocals   == {x}

Symmetry == Permutations({n1, n2}) \cup Permutations({l1, l2})
=============================================================================
