--------------------------- MODULE MCRuntimeStats ---------------------------
(* RuntimeStats with one module and a few frames.                          *)
EXTENDS RuntimeStats

MCLimit ==
    [c \in Counter |->
        IF c \in {"source_frames_written", "source_frames_read",
                  "mqtt_messages_sent"} \cup Bytes
        THEN 2 ELSE 1]
=============================================================================
