---------------------------- MODULE MCSQIVarMap -----------------------------
(* SQIVarMap on one or two threads and names.                              *)
EXTENDS SQIVarMap, TLC

CONSTANTS s, t, x, y, v1, v2, o1, o2, true

MCTwo        == {s, t}
MCOneKey     == {x}
MCTwoKeys    == {x, y}
MCOneVar     == {v1}
MCVars       == {v1, v2}
MCOneObj     == {o1}
MCTwoObjs    == {o1, o2}
MCNone       == {}
MCSet        == {"set"}
MCGetErase   == {"get", "erase"}
MCAllOutputs == {"nothing", "true", "old", "new"}
MCSymmetry   == Permutations({s, t}) \cup Permutations({x, y}) \cup Permutations({v1, v2})
                \cup Permutations({o1, o2})
=============================================================================
