---------------------------- MODULE MCSQIBinding ----------------------------
(* SQIBinding with three blocks, and three calls or none.                   *)
EXTENDS SQIBinding, TLC

CONSTANTS b1, b2, b3, c1, c2, c3

MCBlocks   == {b1, b2, b3}
MCCalls    == {c1, c2, c3}
MCNoCalls  == {}
MCGet      == {"get"}
MCSet      == {"set"}
MCErase    == {"erase"}
MCExtra    == {TRUE}
MCNoExtra  == {FALSE}
MCSymmetry == Permutations(MCBlocks) \cup Permutations(MCCalls)
=============================================================================
