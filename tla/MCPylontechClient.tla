------------------------- MODULE MCPylontechClient -------------------------
(* PylontechClient on small address ranges.                                *)
EXTENDS PylontechClient

\* The lengths that the Python schema gives the replies.
MCInfoLen ==
    [k \in Kinds |-> CASE k \in {"probe", "serial"} -> 17
                       [] k = "manufacturer" -> 32
                       [] k = "values" -> 47
                       [] k = "system" -> 25
                       [] k = "management" -> 10]
=============================================================================
