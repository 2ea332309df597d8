----------------------------- MODULE MCSQIHook ------------------------------
(* One event of a window, one of a button or a list, one menu item.         *)
EXTENDS SQIHook, TLC

CONSTANTS resized, invoked, item, f, g, b, c1, c2

MCHooks   == {resized, invoked, item}
MCWindow  == {resized}
MCItems   == {item}
MCListed  == {resized, invoked}
MCNodes   == {f, g, b}
MCBlocks  == {b}
MCCalls   == {c1, c2}
MCSymmetry == Permutations({f, g}) \cup Permutations({c1, c2})
=============================================================================
