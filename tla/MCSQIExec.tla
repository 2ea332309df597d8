----------------------------- MODULE MCSQIExec ------------------------------
(* SQIExec with one call of exec.wait, one of exec.bg and a script that prints. *)
EXTENDS SQIExec

CONSTANTS w1, b1, tty, script

MCWaits == {w1}
MCBgs   == {b1}
=============================================================================
