---------------------------- MODULE Poller_proofs ----------------------------
(***************************************************************************)
(* What holds of Poller whatever reporters are configured and however many *)
(* failures are tolerated.                                                 *)
(***************************************************************************)
EXTENDS Poller, TLAPS

(* The count of errors is the number of failed attempts since the last     *)
(* state that went all the way; beyond the limit the process can only      *)
(* close its reporters and end.                                            *)
CountInv ==
    /\ errs \in 0..(MaxErrors + 1)
    /\ errs = fruitless
    /\ pc \in InTry \cup {"pause"} => errs <= MaxErrors
    /\ pc = "gave_up" => errs = MaxErrors + 1

LEMMA InitCount == Init => CountInv
  BY PollerAssumption DEF Init, CountInv, InTry

LEMMA StepCount ==
    ASSUME CountInv, [Next]_vars
    PROVE  CountInv'
  <1>0. MaxErrors \in Nat
    BY PollerAssumption
  <1> USE <1>0 DEF CountInv, InTry
  <1>1. CASE Connect
    BY <1>1 DEF Connect
  <1>2. CASE OpenReporter
    BY <1>2 DEF OpenReporter
  <1>3. CASE Scan
    BY <1>3 DEF Scan
  <1>4. CASE ReportMeta
    BY <1>4 DEF ReportMeta, ForEach
  <1>5. CASE Poll
    BY <1>5 DEF Poll
  <1>6. CASE ReportState
    BY <1>6 DEF ReportState, ForEach
  <1>7. CASE Cleanup
    BY <1>7 DEF Cleanup, ForEach
  <1>8. CASE Sleep
    BY <1>8 DEF Sleep
  <1>9. CASE Raise
    BY <1>9 DEF Raise
  <1>10. CASE CloseReporter
    <2>1. /\ UNCHANGED <<errs, fruitless>>
          /\ pc = "closing" /\ pc' \in {"closing", Verdict}
      BY <1>10 DEF CloseReporter, ForEach
    <2>2. CASE how = "interrupt"
      BY <2>1, <2>2 DEF Verdict
    <2>3. CASE how # "interrupt" /\ errs > MaxErrors
      BY <2>1, <2>3 DEF Verdict
    <2>4. CASE how # "interrupt" /\ ~(errs > MaxErrors)
      BY <2>1, <2>4 DEF Verdict
    <2> QED
      BY <2>2, <2>3, <2>4
  <1>11. CASE Retry
    BY <1>11 DEF Retry
  <1>12. CASE Interrupt
    BY <1>12 DEF Interrupt
  <1>13. CASE Kill
    BY <1>13 DEF Kill
  <1>14. CASE BecomeCalm
    BY <1>14 DEF BecomeCalm
  <1>15. CASE UNCHANGED vars
    BY <1>15 DEF vars
  <1> QED
    BY <1>1, <1>2, <1>3, <1>4, <1>5, <1>6, <1>7, <1>8, <1>9, <1>10, <1>11, <1>12,
       <1>13, <1>14, <1>15 DEF Next, Run, Finished

(* However many failures are tolerated, the process gives up after one     *)
(* more in a row, neither earlier nor later (poller.py, run).              *)
THEOREM GivesUpInTimeAlways == Spec => []GivesUpInTime
  <1>1. CountInv => GivesUpInTime
    BY PollerAssumption DEF CountInv, GivesUpInTime
  <1> QED
    BY <1>1, InitCount, StepCount, PTL DEF Spec
-----------------------------------------------------------------------------
\* Is the MqttReporter among the reporters from the n-th on?
MqttFrom(n) == \E j \in n..Len(reporters) : reporters[j] = "mqtt"

\* The list holds the reporters opened so far, in the order configured.
ListInv ==
    /\ reporters \in Seq({"mongo", "hass", "mqtt"})
    /\ Len(reporters) <= Len(Configured)
    /\ \A j \in 1..Len(reporters) : reporters[j] = Configured[j]
    /\ i \in Nat \ {0}
    /\ how \in {"interrupt", "error"}

\* A loop runs for the MqttReporter on the list, from the middle of its
\* constructor until it is closed.
LoopInv ==
    /\ loops \in {0, 1}
    /\ pc = "connect" => reporters = <<>>
    /\ pc = "started" => /\ Len(reporters) < Len(Configured) /\ loops = 1
                         /\ Configured[Len(reporters) + 1] = "mqtt"
    /\ pc \in InTry \ {"started"} => (loops = 1 <=> MqttFrom(1))
    /\ pc = "closing" /\ how = "error" => (loops = 1 <=> MqttFrom(i))
    /\ pc = "closing" /\ how = "interrupt" => (MqttFrom(i) => loops = 1)
    /\ pc \in {"pause", "gave_up"} => loops = 0

LEMMA InitLoop == Init => ListInv /\ LoopInv
  BY PollerAssumption DEF Init, ListInv, LoopInv, MqttFrom, InTry

\* No reporter is configured twice, so neither is the MqttReporter.
LEMMA OneMqtt ==
    ASSUME ListInv, NEW n \in 1..Len(reporters), reporters[n] = "mqtt"
    PROVE  \A j \in 1..Len(reporters) : reporters[j] = "mqtt" => j = n
  <1>1. Len(reporters) \in Nat /\ Len(Configured) \in Nat
    BY PollerAssumption DEF ListInv
  <1> QED
    BY <1>1, PollerAssumption DEF ListInv

LEMMA OpenLoop ==
    ASSUME ListInv, LoopInv, OpenReporter
    PROVE  ListInv' /\ LoopInv'
  <1> DEFINE r == Configured[Len(reporters) + 1]
  <1>1. /\ Len(reporters) \in Nat /\ Len(Configured) \in Nat
        /\ Len(reporters) + 1 \in 1..Len(Configured)
        /\ r \in {"mongo", "hass", "mqtt"}
    BY PollerAssumption DEF ListInv, OpenReporter
  <1>2. CASE r = "mqtt" /\ pc = "open"
    <2>1. ~MqttFrom(1)
      BY <1>1, <1>2, PollerAssumption DEF ListInv, MqttFrom
    <2>2. pc' = "started" /\ loops' = loops + 1 /\ UNCHANGED <<reporters, i, how>>
      BY <1>2 DEF OpenReporter
    <2> QED
      BY <1>1, <1>2, <2>1, <2>2 DEF ListInv, LoopInv, InTry
  <1>3. CASE ~(r = "mqtt" /\ pc = "open")
    <2>1. /\ pc' = "open" /\ reporters' = Append(reporters, r)
          /\ UNCHANGED <<loops, i, how>>
      BY <1>3 DEF OpenReporter
    <2>2. /\ Len(reporters') = Len(reporters) + 1
          /\ reporters'[Len(reporters) + 1] = r
          /\ \A j \in 1..Len(reporters) : reporters'[j] = reporters[j]
      BY <1>1, <2>1 DEF ListInv
    <2>3. ListInv'
      <3>1. reporters' \in Seq({"mongo", "hass", "mqtt"})
        BY <1>1, <2>1 DEF ListInv
      <3>2. \A j \in 1..Len(reporters') : reporters'[j] = Configured[j]
        BY <1>1, <2>2 DEF ListInv
      <3> QED
        BY <1>1, <2>1, <2>2, <3>1, <3>2 DEF ListInv
    <2>4. CASE pc = "started"
      <3>1. r = "mqtt" /\ loops = 1
        BY <2>4 DEF LoopInv
      <3>2. MqttFrom(1)'
        BY <1>1, <2>2, <3>1 DEF MqttFrom
      <3> QED
        BY <2>1, <2>3, <3>1, <3>2 DEF LoopInv
    <2>5. CASE pc = "open"
      <3>1. r # "mqtt"
        BY <1>3, <2>5
      <3>2. MqttFrom(1)' <=> MqttFrom(1)
        BY <1>1, <2>2, <3>1 DEF MqttFrom
      <3>3. loops = 1 <=> MqttFrom(1)
        BY <2>5 DEF LoopInv, InTry
      <3> QED
        BY <2>1, <2>3, <3>2, <3>3 DEF LoopInv
    <2> QED
      BY <2>4, <2>5 DEF OpenReporter
  <1> QED
    BY <1>2, <1>3

LEMMA CloseLoop ==
    ASSUME ListInv, LoopInv, CloseReporter
    PROVE  ListInv' /\ LoopInv'
  <1>1. Len(reporters) \in Nat /\ i \in Nat \ {0}
    BY DEF ListInv
  <1>2. pc = "closing" /\ UNCHANGED <<reporters, how>>
    BY DEF CloseReporter
  <1>3. Verdict \in {"returned", "gave_up", "pause"} /\ (how = "interrupt" => Verdict = "returned")
    BY DEF Verdict
  <1>4. \/ i < Len(reporters) /\ i' = i + 1 /\ pc' = "closing"
        \/ ~(i < Len(reporters)) /\ i' = 1 /\ pc' = Verdict
    BY <1>1, <1>2 DEF CloseReporter, ForEach
  <1>5. ListInv'
    BY <1>1, <1>2, <1>4 DEF ListInv
  <1>6. CASE i <= Len(reporters) /\ reporters[i] = "mqtt"
    <2>1. loops' = 0
      BY <1>1, <1>2, <1>6 DEF CloseReporter, LoopInv, ListInv, MqttFrom
    <2>2. pc' = "closing" => ~MqttFrom(i)'
      BY <1>1, <1>2, <1>4, <1>3, <1>6, OneMqtt DEF MqttFrom
    <2> QED
      BY <1>2, <1>3, <1>4, <1>5, <2>1, <2>2 DEF LoopInv, InTry
  <1>7. CASE ~(i <= Len(reporters) /\ reporters[i] = "mqtt")
    <2>1. loops' = loops
      BY <1>7 DEF CloseReporter
    <2>2. pc' = "closing" => (MqttFrom(i)' <=> MqttFrom(i))
      BY <1>1, <1>2, <1>4, <1>3, <1>7 DEF MqttFrom
    <2>3. pc' # "closing" => ~MqttFrom(i)
      BY <1>1, <1>4, <1>7 DEF MqttFrom
    <2> QED
      BY <1>2, <1>3, <1>4, <1>5, <2>1, <2>2, <2>3 DEF LoopInv, ListInv, InTry
  <1> QED
    BY <1>6, <1>7

LEMMA StepLoop ==
    ASSUME ListInv, LoopInv, [Next]_vars
    PROVE  ListInv' /\ LoopInv'
  <1>1. CASE OpenReporter
    BY <1>1, OpenLoop
  <1>2. CASE CloseReporter
    BY <1>2, CloseLoop
  <1>3. CASE Raise \/ Interrupt
    BY <1>3 DEF Raise, Interrupt, Quiet, ListInv, LoopInv, MqttFrom, InTry
  <1>4. CASE Retry
    BY <1>4, PollerAssumption DEF Retry, ListInv, LoopInv, MqttFrom, InTry
  <1>5. CASE Kill
    BY <1>5 DEF Kill, ListInv, LoopInv, InTry
  <1>6. CASE \/ Connect \/ Scan \/ ReportMeta \/ Poll \/ ReportState
             \/ Cleanup \/ Sleep
    <2>1. /\ UNCHANGED <<reporters, loops, how>>
          /\ i' \in Nat \ {0}
          /\ pc \in InTry \ {"started"} /\ pc' \in InTry \ {"connect", "started"}
      BY <1>6 DEF Connect, Scan, ReportMeta, Poll, ReportState, Cleanup, Sleep,
                  ForEach, ListInv, InTry
    <2>2. MqttFrom(1)' <=> MqttFrom(1)
      BY <2>1 DEF MqttFrom
    <2> QED
      BY <2>1, <2>2 DEF ListInv, LoopInv, InTry
  <1>7. CASE BecomeCalm \/ UNCHANGED vars
    BY <1>7 DEF BecomeCalm, vars, ListInv, LoopInv, MqttFrom
  <1> QED
    BY <1>1, <1>2, <1>3, <1>4, <1>5, <1>6, <1>7 DEF Next, Run, Finished

(* Whatever reporters are configured, no attempt starts while a network    *)
(* loop of an earlier one is running, and no two ever run at a time        *)
(* (poller.py, run; MqttReporter.close).                                   *)
THEOREM NoLoopLeftBehindAlways == Spec => []NoLoopLeftBehind
  <1>1. ListInv /\ LoopInv => NoLoopLeftBehind
    <2> SUFFICES ASSUME ListInv, LoopInv PROVE NoLoopLeftBehind
      OBVIOUS
    <2>1. pc = "connect" => ~MqttFrom(1)
      BY DEF LoopInv, MqttFrom
    <2> QED
      BY <2>1 DEF LoopInv, NoLoopLeftBehind, InTry
  <1> QED
    BY <1>1, InitLoop, StepLoop, PTL DEF Spec
-----------------------------------------------------------------------------
\* What TypeOK says beyond CountInv, ListInv and LoopInv.
PlaceInv ==
    /\ pc \in InTry \cup InHandler \cup Ended
    /\ i <= Len(Configured) + 1
    /\ cc \in 0..(CleanupEvery - 1)
    /\ calm \in BOOLEAN /\ hopeless \in BOOLEAN

LEMMA InitPlace == Init => PlaceInv
  <1>1. Len(Configured) \in Nat /\ CleanupEvery \in Nat \ {0}
    BY PollerAssumption
  <1>2. 0 \in 0..(CleanupEvery - 1) /\ 1 <= Len(Configured) + 1
    BY <1>1
  <1>3. Init => pc \in InTry /\ i = 1 /\ cc = 0 /\ calm = FALSE /\ hopeless \in BOOLEAN
    BY DEF Init, InTry
  <1> QED
    BY <1>2, <1>3 DEF PlaceInv

LEMMA StepPlace ==
    ASSUME PlaceInv, ListInv, [Next]_vars
    PROVE  PlaceInv'
  <1>0. /\ Len(reporters) \in Nat /\ Len(Configured) \in Nat
        /\ Len(reporters) <= Len(Configured) /\ i \in Nat \ {0}
        /\ CleanupEvery \in Nat \ {0}
    BY PollerAssumption DEF ListInv
  <1> USE DEF PlaceInv, InTry, InHandler, Ended
  <1>1. CASE Connect \/ OpenReporter \/ Scan \/ Sleep \/ Retry \/ Kill \/ BecomeCalm
    BY <1>1 DEF Connect, OpenReporter, Scan, Sleep, Retry, Kill, BecomeCalm
  <1>2. CASE ReportMeta \/ ReportState \/ Cleanup
    BY <1>0, <1>2 DEF ReportMeta, ReportState, Cleanup, ForEach
  <1>3. CASE CloseReporter
    <2>1. Verdict \in {"returned", "gave_up", "pause"}
      BY DEF Verdict
    <2>2. pc = "closing" /\ UNCHANGED <<cc, calm, hopeless>>
      BY <1>3 DEF CloseReporter
    <2>3. \/ i < Len(reporters) /\ i' = i + 1 /\ pc' = pc
          \/ i' = 1 /\ pc' = Verdict
      BY <1>3 DEF CloseReporter, ForEach
    <2> QED
      BY <1>0, <2>1, <2>2, <2>3
  <1>4. CASE Poll
    <2>1. cc' = (cc + 1) % CleanupEvery
      BY <1>4 DEF Poll
    <2>2. cc' \in 0..(CleanupEvery - 1)
      BY <1>0, <2>1
    <2> QED
      BY <1>4, <2>2 DEF Poll
  <1>5. CASE Raise \/ Interrupt
    BY <1>0, <1>5 DEF Raise, Interrupt
  <1>6. CASE UNCHANGED vars
    BY <1>6 DEF vars
  <1> QED
    BY <1>1, <1>2, <1>3, <1>4, <1>5, <1>6 DEF Next, Run, Finished

\* A list that agrees with another as far as it goes is a prefix of it.
LEMMA PrefixOfConfigured == ListInv => reporters = SubSeq(Configured, 1, Len(reporters))
  <1> SUFFICES ASSUME ListInv PROVE reporters = SubSeq(Configured, 1, Len(reporters))
    OBVIOUS
  <1>1. /\ Len(reporters) \in 0..Len(Configured)
        /\ \A j \in 1..Len(reporters) : reporters[j] = Configured[j]
        /\ reporters \in Seq({"mongo", "hass", "mqtt"})
        /\ Configured \in Seq({"mongo", "hass", "mqtt"})
    BY PollerAssumption DEF ListInv
  <1>2. /\ Len(SubSeq(Configured, 1, Len(reporters))) = Len(reporters)
        /\ SubSeq(Configured, 1, Len(reporters)) \in Seq({"mongo", "hass", "mqtt"})
        /\ \A j \in 1..Len(reporters) : SubSeq(Configured, 1, Len(reporters))[j] = Configured[j]
    BY <1>1
  <1> QED
    BY <1>1, <1>2

(* Every variable keeps its type; above all, the list of reporters is      *)
(* always a prefix of what was asked for, and the error count stays within *)
(* one of its limit (poller.py, run).                                      *)
THEOREM TypeCorrect == Spec => []TypeOK
  <1>1. CountInv /\ ListInv /\ LoopInv /\ PlaceInv => TypeOK
    <2> SUFFICES ASSUME CountInv, ListInv, LoopInv, PlaceInv PROVE TypeOK
      OBVIOUS
    <2>1. i \in 1..(Len(Configured) + 1)
      BY PollerAssumption DEF ListInv, PlaceInv
    <2>2. fruitless \in 0..(MaxErrors + 1)
      BY DEF CountInv
    <2> QED
      BY <2>1, <2>2, PrefixOfConfigured DEF TypeOK, CountInv, ListInv, LoopInv, PlaceInv
  <1> QED
    BY <1>1, InitCount, StepCount, InitLoop, StepLoop, InitPlace, StepPlace, PTL DEF Spec
-----------------------------------------------------------------------------
\* The failures that are left to the process, the one being handled included.
Left ==
    IF pc \in InTry \/ how = "interrupt" THEN MaxErrors + 1 - errs
                                         ELSE MaxErrors + 2 - errs

\* The way an attempt that yields no state has to go at most; the end of the
\* faults is one more step.
Way(p, opened, at) ==
    LET n == Len(Configured)
    IN  CASE p = "connect" -> 4 * n + 8
          [] p = "open"    -> 4 * n + 7 - 2 * opened
          [] p = "started" -> 4 * n + 6 - 2 * opened
          [] p = "meta"    -> 2 * n + 6 - at
          [] p = "closing" -> n + 3 - at
          [] p = "pause"   -> 1
          [] p \in Ended   -> 0
          [] OTHER         -> n + 4

ToGo == Way(pc, Len(reporters), i) + (IF calm THEN 0 ELSE 1)

\* Without a poll that succeeds nothing is reported; only an error leads to
\* the pause.
HopelessInv ==
    /\ hopeless => pc \notin {"report", "cleanup", "sleep"}
    /\ pc = "pause" => how = "error"

LEMMA InitHopeless == Init => HopelessInv
  BY DEF Init, HopelessInv

LEMMA StepHopeless ==
    ASSUME HopelessInv, ListInv, [Next]_vars
    PROVE  HopelessInv'
  <1>1. CASE CloseReporter
    <2>1. pc = "closing" /\ UNCHANGED <<how, hopeless>>
      BY <1>1 DEF CloseReporter
    <2>2. pc' = "closing" \/ pc' = Verdict
      BY <1>1, <2>1 DEF CloseReporter, ForEach
    <2>3. /\ Verdict \in {"returned", "gave_up", "pause"}
          /\ Verdict = "pause" => how # "interrupt"
      BY DEF Verdict
    <2> QED
      BY <2>1, <2>2, <2>3 DEF HopelessInv, ListInv
  <1>2. CASE ~CloseReporter
    BY <1>2 DEF HopelessInv, Next, Run, Finished, vars, Connect, OpenReporter, Scan, ReportMeta,
                Poll, ReportState, Cleanup, Sleep, Raise, Retry, Interrupt, Kill, BecomeCalm,
                ForEach
  <1> QED
    BY <1>1, <1>2

\* The ways in numbers: a handler is nearer to the end than what it handles.
LEMMA WayIs ==
    ASSUME NEW l \in 0..Len(Configured), NEW a \in 1..Len(Configured) + 1
    PROVE  LET n == Len(Configured)
           IN  /\ n \in Nat
               /\ Way("connect", l, a) = 4 * n + 8
               /\ Way("open", l, a) = 4 * n + 7 - 2 * l
               /\ Way("started", l, a) = 4 * n + 6 - 2 * l
               /\ Way("meta", l, a) = 2 * n + 6 - a
               /\ Way("closing", l, a) = n + 3 - a
               /\ Way("pause", l, a) = 1
               /\ \A p \in Ended : Way(p, l, a) = 0
               /\ \A p \in {"poll", "report", "cleanup", "sleep", "scan"} :
                     Way(p, l, a) = n + 4
  <1>1. Len(Configured) \in Nat
    BY PollerAssumption
  <1> QED
    BY <1>1 DEF Way, Ended

LEMMA WayBounds ==
    ASSUME NEW l \in 0..Len(Configured), NEW a \in 1..Len(Configured) + 1
    PROVE  /\ \A p \in InTry \cup InHandler \cup Ended : Way(p, l, a) \in Nat
           /\ \A p \in InTry : Way(p, l, a) >= Len(Configured) + 4
           /\ \A p \in InHandler : Way(p, l, a) > 0
  <1>1. l \in Nat /\ a \in Nat /\ Len(Configured) \in Nat
        /\ l <= Len(Configured) /\ 1 <= a /\ a <= Len(Configured) + 1
    BY PollerAssumption
  <1>2. ASSUME NEW p \in InTry PROVE Way(p, l, a) \in Nat /\ Way(p, l, a) >= Len(Configured) + 4
    BY <1>1, <1>2, WayIs DEF InTry
  <1>3. ASSUME NEW p \in InHandler PROVE Way(p, l, a) \in Nat /\ Way(p, l, a) > 0
    BY <1>1, <1>3, WayIs DEF InHandler
  <1>4. ASSUME NEW p \in Ended PROVE Way(p, l, a) \in Nat
    BY <1>4, WayIs
  <1> QED
    BY <1>2, <1>3, <1>4

\* Where the reporters, the loops over them and the errors are.
LEMMA Places ==
    ASSUME CountInv, ListInv, PlaceInv
    PROVE  /\ Len(reporters) \in 0..Len(Configured) /\ i \in 1..Len(Configured) + 1
           /\ Len(Configured) \in Nat /\ MaxErrors \in Nat
           /\ errs \in Nat /\ Left \in Nat /\ ToGo \in Nat
  <1>1. /\ Len(reporters) \in 0..Len(Configured) /\ i \in 1..Len(Configured) + 1
        /\ Len(Configured) \in Nat /\ MaxErrors \in Nat /\ errs \in Nat
    BY PollerAssumption DEF CountInv, ListInv, PlaceInv
  <1>2. Left \in Nat
    BY <1>1 DEF Left, CountInv
  <1>3. Way(pc, Len(reporters), i) \in Nat
    BY <1>1, WayBounds DEF PlaceInv
  <1> QED
    BY <1>1, <1>2, <1>3 DEF ToGo

Nearer == Left' < Left \/ (Left' = Left /\ ToGo' < ToGo)

LEMMA HopelessStep ==
    ASSUME CountInv, ListInv, PlaceInv, HopelessInv,
           CountInv', ListInv', PlaceInv', hopeless, Next, ~UNCHANGED vars
    PROVE  Nearer
<1> DEFINE n == Len(Configured)
           l == Len(reporters)
           w == Way(pc, l, i)
           v == Way(pc', l', i')
<1>1. /\ l \in 0..n /\ i \in 1..n + 1 /\ n \in Nat /\ MaxErrors \in Nat
      /\ errs \in Nat /\ Left \in Nat /\ ToGo \in Nat
  BY Places
<1>2. /\ l' \in 0..n /\ i' \in 1..n + 1 /\ w \in Nat /\ v \in Nat
  <2>1. l' \in 0..n /\ i' \in 1..n + 1
    BY <1>1 DEF ListInv, PlaceInv
  <2> QED
    BY <1>1, <2>1, WayBounds DEF PlaceInv
<1>3. ToGo = w + (IF calm THEN 0 ELSE 1) /\ ToGo' = v + (IF calm' THEN 0 ELSE 1)
  BY DEF ToGo
<1>4. v < w /\ calm' = calm => ToGo' < ToGo
  BY <1>2, <1>3
<1>5. UNCHANGED <<errs, how>> /\ (pc \in InTry <=> pc' \in InTry) => Left' = Left
  BY DEF Left
<1>6. CASE Connect
  <2>1. /\ pc = "connect" /\ pc' = "open" /\ UNCHANGED <<reporters, i, errs, how, calm>>
    BY <1>6 DEF Connect
  <2>2. w = 4 * n + 8 /\ v = 4 * n + 7 - 2 * l
    BY <1>1, <2>1, WayIs
  <2> QED
    BY <1>1, <1>4, <1>5, <2>1, <2>2 DEF Nearer, InTry
<1>7. CASE OpenReporter
  <2>1. /\ pc \in {"open", "started"} /\ pc' \in {"open", "started"}
        /\ UNCHANGED <<i, errs, how, calm>>
        /\ \/ pc = "open" /\ pc' = "started" /\ reporters' = reporters
           \/ pc' = "open" /\ l' = l + 1
    <3>1. \A r \in {"mongo", "hass", "mqtt"} : Len(Append(reporters, r)) = l + 1
      BY DEF ListInv
    <3>2. Configured[l + 1] \in {"mongo", "hass", "mqtt"}
      <4>1. l + 1 \in 1..n
        BY <1>1, <1>7 DEF OpenReporter
      <4> QED
        BY <4>1, PollerAssumption
    <3> QED
      BY <1>7, <3>1, <3>2 DEF OpenReporter
  <2>2. v < w
    <3>1. CASE pc = "open" /\ pc' = "started" /\ reporters' = reporters
      <4>1. w = 4 * n + 7 - 2 * l /\ v = 4 * n + 6 - 2 * l
        BY <1>1, <2>1, <3>1, WayIs
      <4> QED
        BY <1>1, <4>1
    <3>2. CASE pc' = "open" /\ l' = l + 1
      <4>1. v = 4 * n + 7 - 2 * (l + 1)
        BY <1>1, <1>2, <2>1, <3>2, WayIs
      <4>2. w = 4 * n + 7 - 2 * l \/ w = 4 * n + 6 - 2 * l
        BY <1>1, <2>1, WayIs
      <4> QED
        BY <1>1, <4>1, <4>2
    <3> QED
      BY <2>1, <3>1, <3>2
  <2> QED
    BY <1>4, <1>5, <2>1, <2>2 DEF Nearer, InTry
<1>8. CASE Scan
  <2>1. /\ pc = "open" /\ pc' \in {"poll", "meta"} /\ UNCHANGED <<reporters, i, errs, how, calm>>
    BY <1>8 DEF Scan
  <2>2. w = 4 * n + 7 - 2 * l
    BY <1>1, <2>1, WayIs
  <2>3. v = n + 4 \/ v = 2 * n + 6 - i
    BY <1>1, <2>1, WayIs
  <2> QED
    BY <1>1, <1>4, <1>5, <2>1, <2>2, <2>3 DEF Nearer, InTry
<1>9. CASE ReportMeta
  <2>1. /\ pc = "meta" /\ UNCHANGED <<reporters, errs, how, calm>>
        /\ \/ pc' = "meta" /\ i' = i + 1
           \/ pc' = "poll" /\ i' = 1
    BY <1>9 DEF ReportMeta, ForEach
  <2>2. w = 2 * n + 6 - i
    BY <1>1, <2>1, WayIs
  <2>3. v = n + 4 \/ v = 2 * n + 6 - (i + 1)
    <3>1. l' = l /\ l' \in 0..n /\ i' \in 1..n + 1
      BY <1>2, <2>1
    <3>2. CASE pc' = "meta" /\ i' = i + 1
      <4>1. v = 2 * n + 6 - i'
        BY <3>1, <3>2, WayIs
      <4> QED
        BY <3>2, <4>1
    <3>3. CASE pc' = "poll"
      BY <3>1, <3>3, WayIs
    <3> QED
      BY <2>1, <3>2, <3>3
  <2> QED
    BY <1>1, <1>4, <1>5, <2>1, <2>2, <2>3 DEF Nearer, InTry
<1>10. CASE Raise
  <2>1. /\ pc \in InTry /\ pc' = "closing" /\ how' = "error" /\ i' = 1 /\ errs' = errs + 1
        /\ UNCHANGED <<reporters, calm>>
    BY <1>10 DEF Raise
  <2>2. Left' = Left
    BY <1>1, <2>1 DEF Left, InTry
  <2>3. w >= n + 4
    BY <1>1, <2>1, WayBounds
  <2>4. v = n + 3 - 1
    BY <1>1, <1>2, <2>1, WayIs
  <2> QED
    BY <1>1, <1>2, <1>4, <2>1, <2>2, <2>3, <2>4 DEF Nearer
<1>11. CASE Interrupt
  <2>1. /\ pc \in InTry /\ pc' = "closing" /\ how' = "interrupt" /\ i' = 1
        /\ UNCHANGED <<reporters, errs, calm>>
    BY <1>11 DEF Interrupt
  <2>2. Left' = Left
    BY <1>1, <2>1 DEF Left, InTry
  <2>3. w >= n + 4
    BY <1>1, <2>1, WayBounds
  <2>4. v = n + 3 - 1
    BY <1>1, <1>2, <2>1, WayIs
  <2> QED
    BY <1>1, <1>2, <1>4, <2>1, <2>2, <2>3, <2>4 DEF Nearer
<1>12. CASE Kill
  <2>1. /\ pc \in InHandler /\ pc' = "killed" /\ UNCHANGED <<reporters, i, errs, how, calm>>
    BY <1>12 DEF Kill
  <2>2. w > 0 /\ v = 0
    BY <1>1, <1>2, <2>1, WayBounds, WayIs DEF Ended
  <2>3. pc \notin InTry /\ pc' \notin InTry
    BY <2>1 DEF InHandler, InTry
  <2> QED
    BY <1>4, <1>5, <2>1, <2>2, <2>3 DEF Nearer
<1>13. CASE CloseReporter
  <2>1. /\ pc = "closing" /\ UNCHANGED <<reporters, errs, how, calm>>
        /\ \/ pc' = "closing" /\ i' = i + 1
           \/ pc' \in {"pause"} \cup Ended /\ i' = 1
    <3>1. Verdict \in {"pause"} \cup Ended
      BY DEF Verdict, Ended
    <3> QED
      BY <1>13, <3>1 DEF CloseReporter, ForEach
  <2>2. w = n + 3 - i
    BY <1>1, <2>1, WayIs
  <2>3. v = n + 3 - (i + 1) \/ v <= 1
    <3>1. CASE pc' = "closing" /\ i' = i + 1
      BY <1>1, <1>2, <2>1, <3>1, WayIs
    <3>2. CASE pc' \in {"pause"} \cup Ended /\ i' = 1
      <4>1. v \in {0, 1}
        BY <1>1, <1>2, <3>2, WayIs
      <4> QED
        BY <3>2, <4>1
    <3> QED
      BY <2>1, <3>1, <3>2
  <2>4. v < w
    <3> HIDE DEF v, w, n
    <3> QED
      BY <1>1, <1>2, <2>2, <2>3
  <2>5. pc \notin InTry /\ pc' \notin InTry
    BY <2>1 DEF Ended, InTry
  <2> QED
    BY <1>4, <1>5, <2>1, <2>4, <2>5 DEF Nearer
<1>14. CASE Retry
  <2>1. pc = "pause" /\ how = "error" /\ pc' = "connect" /\ UNCHANGED <<errs, how>>
    BY <1>14 DEF Retry, HopelessInv
  <2>2. Left = MaxErrors + 2 - errs /\ Left' = MaxErrors + 1 - errs
    BY <2>1 DEF Left, InTry
  <2> QED
    BY <1>1, <2>2 DEF Nearer
<1>15. CASE BecomeCalm
  <2>1. ~calm /\ calm' /\ UNCHANGED <<pc, reporters, i, errs, how>>
    BY <1>15 DEF BecomeCalm
  <2>2. v = w
    BY <2>1
  <2>3. ToGo' < ToGo
    BY <1>2, <1>3, <2>1, <2>2
  <2> QED
    BY <1>5, <2>1, <2>3 DEF Nearer
<1>16. ~Poll /\ ~ReportState /\ ~Cleanup /\ ~Sleep /\ ~Finished
  BY DEF Poll, ReportState, Cleanup, Sleep, Finished, HopelessInv
<1> QED
  BY <1>6, <1>7, <1>8, <1>9, <1>10, <1>11, <1>12, <1>13, <1>14, <1>15, <1>16 DEF Next, Run

(* Each step of a poller whose polls all fail, its handlers, pauses and    *)
(* new attempts included, brings the end of the process nearer: either     *)
(* fewer failures are left to it, or the same number and less of the way   *)
(* to the next.  It does not go in circles through scans that succeed      *)
(* (poller.py, run), so it ends unless it stops in between.                *)
THEOREM HopelessRunsDown ==
    Spec => /\ [](Left \in Nat /\ ToGo \in Nat)
            /\ [][hopeless => Left' < Left \/ (Left' = Left /\ ToGo' < ToGo)]_vars
  <1>1. ListInv /\ CountInv /\ PlaceInv => Left \in Nat /\ ToGo \in Nat
    BY Places
  <1>2. ASSUME CountInv, ListInv, PlaceInv, HopelessInv, [Next]_vars,
               CountInv', ListInv', PlaceInv'
        PROVE  [hopeless => Left' < Left \/ (Left' = Left /\ ToGo' < ToGo)]_vars
    <2> SUFFICES ASSUME hopeless, Next, ~UNCHANGED vars PROVE Nearer
      BY <1>2 DEF Nearer
    <2> QED
      BY <1>2, HopelessStep
  <1> QED
    BY <1>1, <1>2, InitCount, StepCount, InitLoop, StepLoop, InitPlace, StepPlace,
       InitHopeless, StepHopeless, PTL DEF Spec
=============================================================================
