---------------------------- MODULE MCSQIGluing -----------------------------
(* SQIGluing with three widgets that differ in size, expansion and alignment. *)
EXTENDS SQIGluing

CONSTANTS a, b, c

MCWidgets == {a, b, c}
MCPref    == [w \in MCWidgets |-> IF w = a THEN [w |-> 2, h |-> 1]
                                  ELSE IF w = b THEN [w |-> 1, h |-> 3] ELSE [w |-> 1, h |-> 1]]
MCExpandX == {a, b}
MCExpandY == {b}
MCHAlign  == [w \in MCWidgets |-> IF w = c THEN "right" ELSE "left"]
MCVAlign  == [w \in MCWidgets |-> IF w = c THEN "center" ELSE IF w = a THEN "bottom" ELSE "top"]
MCAligns  == {"top", "bottom", "left", "right"}
MCStacked == {"top", "bottom"}
MCSizes   == {[w |-> 0, h |-> 0], [w |-> 3, h |-> 2], [w |-> 1, h |-> 0]}
=============================================================================
