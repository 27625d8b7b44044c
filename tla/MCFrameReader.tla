--------------------------- MODULE MCFrameReader ---------------------------
(* FrameReader with two modules, one of which is asked two questions.      *)
EXTENDS FrameReader

\* As in MCAdapterSession.
MCInfoLen ==
    [k \in {"probe", "serial", "manufacturer", "values", "system", "management"} |->
        CASE k \in {"probe", "serial"} -> 17
          [] k = "manufacturer" -> 32
          [] k = "values" -> 47
          [] k = "system" -> 25
          [] k = "management" -> 10]

MCAsked == {<<2, "serial">>, <<2, "values">>, <<3, "values">>}
=============================================================================
