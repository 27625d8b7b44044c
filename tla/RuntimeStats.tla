---------------------------- MODULE RuntimeStats ----------------------------
(***************************************************************************)
(* The runtime statistics of the Rust adapter (stats.rs): counters that    *)
(* the main thread adds to as it goes (request and read_raw_frame of       *)
(* protocol.rs, publish_text of mqtt.rs, run and run_session_inner of      *)
(* main.rs), and the reporter thread that prints them every interval       *)
(* together with what they grew by since the line before.                  *)
(*                                                                         *)
(* The counters are atomic, but one by one, and every access is Relaxed:   *)
(* a snapshot may take each of them at another moment of the time it needs *)
(* and in any order.  `seen' collects what each counter was meanwhile.     *)
(* A u64 does not overflow within the life of a machine, so the counters   *)
(* are natural numbers; Limit bounds them for TLC.                         *)
(***************************************************************************)
EXTENDS Integers, FiniteSets

CONSTANTS
    Modules,      \* number of modules that a cycle polls
    RequestLen,   \* bytes of a request frame
    ReplyLens,    \* bytes of the frames that may be read
    Limit         \* for each counter, where the main thread stops

Counter == {"successful_cycles", "mqtt_messages_sent", "recoveries",
            "source_bytes_read", "source_bytes_written", "source_frames_read",
            "source_frames_written", "source_timeouts", "source_errors"}
Bytes == {"source_bytes_read", "source_bytes_written"}

ASSUME StatsAssumption ==
    /\ Modules \in Nat \ {0}
    /\ RequestLen \in Nat \ {0} /\ ReplyLens \subseteq Nat \ {0}
    /\ Limit \in [Counter -> Nat]

VARIABLES
    count,      \* the nine atomic counters
    request,    \* "none", "sent" (written, nothing read), "read" (not parsed)
    answers,    \* values read in the cycle at hand
    messages,   \* states queued in the cycle at hand
    taking,     \* is the reporter within `snapshot'?
    seen,       \* the values each counter has had since that began
    previous,   \* the reporter's last snapshot, or Nil
    told        \* its first snapshot plus every difference it printed since

cycle == <<answers, messages>>
reporter == <<taking, previous, told>>
vars == <<count, request, cycle, seen, reporter>>

Zero == [c \in Counter |-> 0]
Nil == [c \in Counter |-> -1]

TypeOK ==
    /\ count \in [Counter -> Nat]
    /\ request \in {"none", "sent", "read"}
    /\ answers \in 0..Modules
    /\ messages \in 0..Modules + 1
    /\ taking \in BOOLEAN
    /\ seen \in [Counter -> SUBSET Nat]
    /\ previous \in [Counter -> Nat] \cup {Nil}
    /\ told \in [Counter -> Int]

Init ==
    /\ count = Zero /\ request = "none" /\ answers = 0 /\ messages = 0
    /\ taking = FALSE /\ seen = [c \in Counter |-> {}]
    /\ previous = Nil /\ told = Nil

\* The main thread adds to the counters S, in whatever order others see it;
\* `bytes' is the length of the frame, if one is counted.
Record(S, bytes) ==
    /\ \A c \in S \ Bytes : count[c] < Limit[c]
    /\ count' = [c \in Counter |->
                    IF c \notin S THEN count[c]
                    ELSE count[c] + (IF c \in Bytes THEN bytes ELSE 1)]
    /\ seen' = [c \in Counter |->
                    IF taking THEN seen[c] \cup {count'[c]} ELSE seen[c]]
    /\ UNCHANGED reporter

-----------------------------------------------------------------------------
(* The main thread: requests.                                              *)

Send ==
    /\ request = "none"
    /\ Record({"source_frames_written", "source_bytes_written"}, RequestLen)
    /\ request' = "sent"
    /\ UNCHANGED cycle

ReadFrame ==
    /\ request = "sent"
    /\ \E len \in ReplyLens : Record({"source_frames_read", "source_bytes_read"}, len)
    /\ request' = "read"
    /\ UNCHANGED cycle

\* The frame is well-formed; it may hold values that the cycle asked for.
ParseFrame ==
    /\ request = "read"
    /\ request' = "none"
    /\ answers' \in {answers, answers + 1} \cap 0..Modules
    /\ UNCHANGED <<count, messages, seen, reporter>>

\* A request ends with an error that is counted in S.  Whether it ends the
\* session or only a probe of the scan, nothing is left of a cycle.
Fails(S) ==
    /\ request' = "none"
    /\ Record(S, 0)
    /\ answers' = 0 /\ messages' = 0

WriteFails == request = "none" /\ Fails({"source_errors"})

FrameRejected == request = "read" /\ Fails({"source_errors"})

\* Mutant: an error on reading is not counted.
ReadFailsUncounted == request = "sent" /\ Fails({})

ReadFails == request = "sent" /\ Fails({"source_errors"})

\* Mutant: half a frame counts as a frame.
TimedOutInFrame ==
    request = "sent" /\ Fails({"source_timeouts", "source_frames_read"})

TimedOut == request = "sent" /\ Fails({"source_timeouts"})

-----------------------------------------------------------------------------
(* The main thread: publications, cycles and sessions.                     *)

\* A message is queued; the states follow when all values have been read.
Publish ==
    /\ request = "none"
    /\ Record({"mqtt_messages_sent"}, 0)
    /\ messages' \in IF answers = Modules
                     THEN {messages, messages + 1} \cap 0..Modules + 1
                     ELSE {messages}
    /\ UNCHANGED <<request, answers>>

\* Mutant: the cycle counts before its states are published.
CompleteUnpublished ==
    /\ request = "none"
    /\ answers = Modules
    /\ Record({"successful_cycles"}, 0)
    /\ answers' = 0 /\ messages' = 0
    /\ UNCHANGED request

\* The stack state and the state of every module have been published.
CompleteCycle ==
    /\ request = "none"
    /\ answers = Modules /\ messages = Modules + 1
    /\ Record({"successful_cycles"}, 0)
    /\ answers' = 0 /\ messages' = 0
    /\ UNCHANGED request

\* Mutant: every session counts from zero.
RecoverAndReset ==
    /\ request = "none"
    /\ count["recoveries"] < Limit["recoveries"]
    /\ count' = [Zero EXCEPT !["recoveries"] = count["recoveries"] + 1]
    /\ seen' = [c \in Counter |->
                    IF taking THEN seen[c] \cup {count'[c]} ELSE seen[c]]
    /\ answers' = 0 /\ messages' = 0
    /\ UNCHANGED <<request, reporter>>

\* A session has failed.
Recover ==
    /\ request = "none"
    /\ Record({"recoveries"}, 0)
    /\ answers' = 0 /\ messages' = 0
    /\ UNCHANGED request

-----------------------------------------------------------------------------
(* The reporter thread.                                                    *)

BeginSnapshot ==
    /\ ~taking
    /\ taking' = TRUE
    /\ seen' = [c \in Counter |-> {count[c]}]
    /\ UNCHANGED <<count, request, cycle, previous, told>>

\* Every counter is taken at some moment of its own.
Snapshots ==
    [successful_cycles : seen["successful_cycles"],
     mqtt_messages_sent : seen["mqtt_messages_sent"],
     recoveries : seen["recoveries"],
     source_bytes_read : seen["source_bytes_read"],
     source_bytes_written : seen["source_bytes_written"],
     source_frames_read : seen["source_frames_read"],
     source_frames_written : seen["source_frames_written"],
     source_timeouts : seen["source_timeouts"],
     source_errors : seen["source_errors"]]

\* delta_from
Delta(current) == [c \in Counter |-> current[c] - previous[c]]

\* The snapshot is complete; the first one is only remembered, every other is
\* printed with the difference to the one before.
Report ==
    /\ taking
    /\ taking' = FALSE
    /\ \E current \in Snapshots :
          /\ previous' = current
          /\ told' = IF previous = Nil THEN current
                     ELSE [c \in Counter |-> told[c] + Delta(current)[c]]
    /\ seen' = [c \in Counter |-> {}]
    /\ UNCHANGED <<count, request, cycle>>

MainThread ==
    \/ Send \/ ReadFrame \/ ParseFrame \/ WriteFails \/ FrameRejected \/ ReadFails
    \/ TimedOut \/ Publish \/ CompleteCycle \/ Recover

Next == MainThread \/ BeginSnapshot \/ Report

Spec == Init /\ [][Next]_vars

-----------------------------------------------------------------------------
(* Every frame that was sent has been answered, timed out, failed or is    *)
(* being waited for, on every path through request and read_raw_frame:     *)
(* none is lost from the statistics and none is counted twice.             *)
FramesBalance ==
    LET ended == count["source_frames_read"] + count["source_timeouts"]
        asked == count["source_frames_written"]
    IN  /\ ended <= asked
        /\ asked <= ended + count["source_errors"] + (IF request = "sent" THEN 1 ELSE 0)

(* A cycle that is counted as successful has read the values of every      *)
(* module and has queued the stack state and every module state, errors    *)
(* and recoveries in between notwithstanding (run_session_inner).          *)
CyclesBacked ==
    /\ count["successful_cycles"] * Modules <= count["source_frames_read"]
    /\ count["successful_cycles"] * (Modules + 1) <= count["mqtt_messages_sent"]

(* Whoever adds up the differences of all lines gets the totals of the     *)
(* last one: nothing falls between two lines (spawn_reporter).             *)
LinesAddUp == told = previous

(* No difference is negative, although the snapshot takes the counters at  *)
(* different moments: delta_from subtracts unsigned numbers, so that one   *)
(* would end the reporter thread, or print 2^64.                           *)
NeverNegative ==
    [][previous # Nil => \A c \in Counter : told'[c] >= told[c]]_told

(* A line is wrong by no more than what happened while it was made: the    *)
(* frames received and timed out exceed those sent by at most as many as   *)
(* were sent in the meantime (snapshot).                                   *)
SkewBounded ==
    [][previous'["source_frames_read"] + previous'["source_timeouts"]
           < previous'["source_frames_written"]
             + Cardinality(seen["source_frames_written"])]_previous
=============================================================================
