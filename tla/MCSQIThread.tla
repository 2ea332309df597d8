---------------------------- MODULE MCSQIThread -----------------------------
(* SQIThread with two threads and two squirrels that call. *)
EXTENDS SQIThread

CONSTANTS t1, t2, c, d, q, r

MCIds        == {t1, t2}
MCClients    == {c, d}
MCSquirrels  == {q, r}
MCNoReturn   == {t2}
MCModes      == {"one", "first", "all"}
=============================================================================
