-------------------------- MODULE MCAdapterSession --------------------------
(* AdapterSession on small address ranges.                                 *)
EXTENDS AdapterRefinement

\* The lengths of the test frames in protocol.rs and of the Python schema.
MCInfoLen ==
    [k \in Kinds |-> CASE k \in {"probe", "serial"} -> 17
                       [] k = "manufacturer" -> 32
                       [] k = "values" -> 47
                       [] k = "system" -> 25
                       [] k = "management" -> 10]
=============================================================================
