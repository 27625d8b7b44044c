------------------------------- MODULE Poller -------------------------------
(***************************************************************************)
(* The Python poller (poller.py, run): a retry loop around a client, its   *)
(* transport and the reporters that were asked for.  Whatever raises ends  *)
(* the attempt: the reporters are closed and, unless it was Ctrl-C or the  *)
(* last of too many failures in a row, a new attempt begins.               *)
(*                                                                         *)
(* What the client does between a request and an answer is the subject of  *)
(* PylontechClient; here a scan or a poll succeeds or raises.  Of what the *)
(* reporters own, only the network loop that MqttReporter starts outlives  *)
(* an attempt unless it is closed.                                         *)
(***************************************************************************)
EXTENDS Naturals, Sequences

CONSTANTS
    Configured,    \* the reporters asked for, in the order they are opened
    MaxErrors,     \* failures in a row that are tolerated (10 in the code)
    CleanupEvery   \* states between two cleanups (1000 in the code)

ASSUME PollerAssumption ==
    /\ Configured \in Seq({"mongo", "hass", "mqtt"})
    /\ \A j, k \in 1..Len(Configured) : Configured[j] = Configured[k] => j = k
    /\ MaxErrors \in Nat /\ CleanupEvery \in Nat \ {0}

VARIABLES
    pc,         \* where run is
    reporters,  \* the local list of reporters
    i,          \* the reporter that the loop at hand is at
    errs, cc,   \* the local counters (cc modulo CleanupEvery)
    how,        \* which handler is closing: of Ctrl-C or of an error
    loops,      \* network loops of MQTT clients that are running
    fruitless,  \* history: failed attempts since a state went all the way
                \* (counted up to MaxErrors + 1)
    calm,       \* have the faults, Ctrl-C included, stopped for good?
    hopeless    \* does every poll fail, as with a gap in the addresses?

vars == <<pc, reporters, i, errs, cc, how, loops, fruitless, calm, hopeless>>

InTry == {"connect", "open", "started", "scan", "meta", "poll", "report", "cleanup", "sleep"}
InHandler == {"closing", "pause"}
Ended == {"returned", "gave_up", "killed"}

TypeOK ==
    /\ pc \in InTry \cup InHandler \cup Ended
    /\ reporters = SubSeq(Configured, 1, Len(reporters))
    /\ i \in 1..(Len(Configured) + 1)
    /\ errs \in 0..(MaxErrors + 1)
    /\ cc \in 0..(CleanupEvery - 1)
    /\ how \in {"interrupt", "error"}
    /\ loops \in Nat /\ fruitless \in 0..(MaxErrors + 1)
    /\ calm \in BOOLEAN /\ hopeless \in BOOLEAN

Init ==
    /\ pc = "connect" /\ reporters = <<>> /\ i = 1
    /\ errs = 0 /\ cc = 0 /\ how = "error"
    /\ loops = 0 /\ fruitless = 0 /\ calm = FALSE
    /\ hopeless \in BOOLEAN

\* A `for reporter in reporters' loop: the next round, or what comes after.
ForEach(then) ==
    IF i < Len(reporters) THEN i' = i + 1 /\ pc' = pc
                          ELSE i' = 1 /\ pc' = then

-----------------------------------------------------------------------------
(* Inside the try block.                                                   *)

\* Transport and client; MqttReporter and the others come next.
Connect ==
    /\ pc = "connect"
    /\ pc' = "open"
    /\ UNCHANGED <<reporters, i, errs, cc, how, loops, fruitless, calm, hopeless>>

\* The constructor of the next reporter; that of MqttReporter starts a loop
\* well before the reporter is on the list.
OpenReporter ==
    /\ pc \in {"open", "started"} /\ Len(reporters) < Len(Configured)
    /\ LET r == Configured[Len(reporters) + 1]
       IN  IF r = "mqtt" /\ pc = "open"
              THEN pc' = "started" /\ loops' = loops + 1 /\ reporters' = reporters
              ELSE pc' = "open" /\ reporters' = Append(reporters, r) /\ loops' = loops
    /\ UNCHANGED <<i, errs, cc, how, fruitless, calm, hopeless>>

\* Mutant: a successful scan already counts as a recovery.
ScanForgives ==
    /\ pc = "open" /\ Len(reporters) = Len(Configured)
    /\ pc' = IF reporters = <<>> THEN "poll" ELSE "meta"
    /\ errs' = 0
    /\ UNCHANGED <<reporters, i, cc, how, loops, fruitless, calm, hopeless>>

\* scan_for_batteries.
Scan ==
    /\ pc = "open" /\ Len(reporters) = Len(Configured)
    /\ pc' = IF reporters = <<>> THEN "poll" ELSE "meta"
    /\ UNCHANGED <<reporters, i, errs, cc, how, loops, fruitless, calm, hopeless>>

\* report_meta; that of MqttReporter polls the modules once.
ReportMeta ==
    /\ pc = "meta"
    /\ reporters[i] = "mqtt" => ~hopeless
    /\ ForEach("poll")
    /\ UNCHANGED <<reporters, errs, cc, how, loops, fruitless, calm, hopeless>>

\* poll_parameters yields a state.
Poll ==
    /\ pc = "poll" /\ ~hopeless
    /\ cc' = (cc + 1) % CleanupEvery
    /\ pc' = IF reporters # <<>> THEN "report"
             ELSE IF cc' = 0 THEN "cleanup" ELSE "sleep"
    /\ UNCHANGED <<reporters, i, errs, how, loops, fruitless, calm, hopeless>>

ReportState ==
    /\ pc = "report"
    /\ ForEach(IF cc = 0 THEN "cleanup" ELSE "sleep")
    /\ UNCHANGED <<reporters, errs, cc, how, loops, fruitless, calm, hopeless>>

Cleanup ==
    /\ pc = "cleanup"
    /\ ForEach("sleep")
    /\ UNCHANGED <<reporters, errs, cc, how, loops, fruitless, calm, hopeless>>

\* Mutant: the error count is not reset.
SleepUnforgiving ==
    /\ pc = "sleep"
    /\ pc' = "poll"
    /\ errs' = errs /\ fruitless' = 0
    /\ UNCHANGED <<reporters, i, cc, how, loops, calm, hopeless>>

\* Mutant: poll_parameters yields once, and then the attempt is over.
SleepThenReconnect ==
    /\ pc = "sleep"
    /\ pc' = "closing" /\ how' = "error"
    /\ errs' = 0 /\ fruitless' = 0
    /\ UNCHANGED <<reporters, i, cc, loops, calm, hopeless>>

Sleep ==
    /\ pc = "sleep"
    /\ pc' = "poll"
    /\ errs' = 0 /\ fruitless' = 0
    /\ UNCHANGED <<reporters, i, cc, how, loops, calm, hopeless>>

-----------------------------------------------------------------------------
(* The handlers.                                                           *)

\* Where nothing raises: sleeping, and the rest of a constructor.
Quiet == {"sleep", "started"}

\* An exception: of the connection, of a reporter, of the scan or of a poll.
Raise ==
    /\ pc \in InTry \ Quiet
    /\ ~calm \/ (hopeless /\ pc \in {"meta", "poll"})
    /\ pc' = "closing" /\ how' = "error" /\ i' = 1
    /\ errs' = errs + 1
    /\ fruitless' = IF fruitless <= MaxErrors THEN fruitless + 1 ELSE fruitless
    /\ UNCHANGED <<reporters, cc, loops, calm, hopeless>>

\* Ctrl-C inside the try block.
Interrupt ==
    /\ ~calm /\ pc \in InTry
    /\ pc' = "closing" /\ how' = "interrupt" /\ i' = 1
    /\ UNCHANGED <<reporters, errs, cc, loops, fruitless, calm, hopeless>>

\* Ctrl-C in a handler or in the pause after it, or a close that raises:
\* nothing catches that, and reporters may stay open.
Kill ==
    /\ ~calm /\ pc \in InHandler
    /\ pc' = "killed"
    /\ UNCHANGED <<reporters, i, errs, cc, how, loops, fruitless, calm, hopeless>>

\* What follows when the last reporter is closed.
Verdict ==
    IF how = "interrupt" THEN "returned"
    ELSE IF errs > MaxErrors THEN "gave_up" ELSE "pause"

\* Mutant: the reporters of a failed attempt are forgotten, not closed.
ForgetReporters ==
    /\ pc = "closing"
    /\ i' = 1 /\ pc' = Verdict
    /\ UNCHANGED <<reporters, errs, cc, how, loops, fruitless, calm, hopeless>>

\* reporter.close: only MqttReporter has something to stop.
CloseReporter ==
    /\ pc = "closing"
    /\ IF reporters = <<>> THEN i' = 1 /\ pc' = Verdict ELSE ForEach(Verdict)
    /\ loops' = IF i <= Len(reporters) /\ reporters[i] = "mqtt" THEN loops - 1 ELSE loops
    /\ UNCHANGED <<reporters, errs, cc, how, fruitless, calm, hopeless>>

\* The pause after an error; the next attempt starts with an empty list.
Retry ==
    /\ pc = "pause"
    /\ pc' = "connect" /\ reporters' = <<>>
    /\ UNCHANGED <<i, errs, cc, how, loops, fruitless, calm, hopeless>>

-----------------------------------------------------------------------------
BecomeCalm ==
    /\ ~calm /\ calm' = TRUE
    /\ UNCHANGED <<pc, reporters, i, errs, cc, how, loops, fruitless, hopeless>>

\* The process has ended.
Finished == pc \in Ended /\ UNCHANGED vars

Run ==
    \/ Connect \/ OpenReporter \/ Scan \/ ReportMeta \/ Poll \/ ReportState
    \/ Cleanup \/ Sleep \/ Raise \/ CloseReporter \/ Retry

Next == Run \/ Interrupt \/ Kill \/ BecomeCalm \/ Finished

Spec == Init /\ [][Next]_vars

\* Requests time out and sleeps end: run never stands still.
FairSpec == Spec /\ WF_vars(Run)

-----------------------------------------------------------------------------
(* The process gives up after more than MaxErrors failed attempts without  *)
(* one state that went all the way in between, never earlier - a failure   *)
(* before and one after a good state do not add up - and never later.      *)
GivesUpInTime ==
    /\ pc = "gave_up" => fruitless = MaxErrors + 1
    /\ pc \in InTry => fruitless <= MaxErrors

(* Each attempt starts without network loops of an earlier one, and giving *)
(* up leaves none: at most one client with the fixed MQTT client id exists *)
(* at a time (handlers of run, MqttReporter.close).                        *)
NoLoopLeftBehind ==
    /\ pc \in {"connect", "pause", "gave_up"} => loops = 0
    /\ loops <= 1

(* When faults stop, states are reported for ever, and in the end by one   *)
(* and the same attempt - unless the process has ended before (run).       *)
Polling == {"poll", "report", "cleanup", "sleep"}
ReportsOn ==
    <>calm => ([]<>(pc = "sleep") /\ <>[](pc \in Polling)) \/ <>(pc \in Ended)

(* A process whose polls all fail ends by itself, although each of its     *)
(* scans succeeds: the supervisor of the process gets to know (run).       *)
HopelessEnds == hopeless => <>(pc \in Ended)
=============================================================================
