---------------------------- MODULE MCSQIObject -----------------------------
(* SQIObject on four objects, two of them lists of at most two elements. *)
EXTENDS SQIObject, TLC

CONSTANTS a, b, l, m, local, tree, v, p

MCObj   == {a, b, l, m}
MCLists == {l, m}
MCHeaps == {local, tree}
MCEternal == {tree}
MCVars  == {v}
MCArgs  == {p}
MCSymmetry == Permutations({a, b}) \cup Permutations({l, m})
=============================================================================
