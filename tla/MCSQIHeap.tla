----------------------------- MODULE MCSQIHeap ------------------------------
(* SQIHeap on three objects, two of them lists, in two ordinary heaps and an  *)
(* eternal one.                                                               *)
EXTENDS SQIHeap

CONSTANTS a, lst1, lst2, local, global, tree, var, slot

MCObj      == {a, lst1, lst2}
MCLists    == {lst1, lst2}
MCHeaps    == {local, global, tree}
MCEternal  == {tree}
MCVars     == {var}
MCArgs     == {slot}
=============================================================================
