------------------------ MODULE RuntimeStats_proofs ------------------------
(***************************************************************************)
(* The statistics of RuntimeStats for every number of modules, every frame *)
(* length and counters without a limit worth speaking of.                  *)
(***************************************************************************)
EXTENDS RuntimeStats, FiniteSetTheorems, TLAPS

\* The counters by what they count.
Cycles == count["successful_cycles"]
Sent == count["mqtt_messages_sent"]
Written == count["source_frames_written"]
Read == count["source_frames_read"]
Timeouts == count["source_timeouts"]
Errors == count["source_errors"]

StatsType ==
    /\ TypeOK
    /\ previous # Nil => previous \in [Counter -> Nat]

\* What FramesBalance and CyclesBacked say between two steps of a request
\* and of a cycle.
FrameInv ==
    /\ Written >= Read + Timeouts + (IF request = "sent" THEN 1 ELSE 0)
    /\ Written <= Read + Timeouts + Errors + (IF request = "sent" THEN 1 ELSE 0)

CycleInv ==
    /\ Read >= Cycles * Modules + answers + (IF request = "read" THEN 1 ELSE 0)
    /\ Sent >= Cycles * (Modules + 1) + messages

\* What may be part of the snapshot that is being taken lies between the
\* snapshot before and the counters now.
SeenInv ==
    \A c \in Counter :
        /\ ~taking => seen[c] = {}
        /\ \A v \in seen[c] : v <= count[c] /\ previous[c] <= v
        /\ previous[c] <= count[c]

\* Of the frames written, it has every number since the snapshot began.
SpanInv ==
    LET span == seen["source_frames_written"]
    IN  IsFiniteSet(span) /\ \A v \in span : v..Written \subseteq span

\* A step of the main thread adds to the counters and to nothing else.
LEMMA RecordGrows ==
    ASSUME TypeOK, NEW S, NEW n \in Nat, Record(S, n)
    PROVE  /\ count' \in [Counter -> Nat] /\ seen' \in [Counter -> SUBSET Nat]
           /\ \A c \in Counter : count'[c] >= count[c]
           /\ \A c \in Counter \ S : count'[c] = count[c]
           /\ \A c \in S \cap (Counter \ Bytes) : count'[c] = count[c] + 1
           /\ \A c \in Counter :
                 seen'[c] = IF taking THEN seen[c] \cup {count'[c]} ELSE seen[c]
           /\ UNCHANGED reporter
  BY DEF Record, TypeOK, reporter

LEMMA MainThreadRecords ==
    ASSUME TypeOK, MainThread
    PROVE  \/ UNCHANGED <<count, seen, reporter>>
           \/ \E S \in SUBSET Counter, n \in Nat : Record(S, n)
  <1>1. CASE Send
    BY <1>1, StatsAssumption DEF Send, Counter
  <1>2. CASE ReadFrame
    BY <1>2, StatsAssumption DEF ReadFrame, Counter
  <1>3. CASE ParseFrame
    BY <1>3 DEF ParseFrame
  <1>4. CASE WriteFails \/ FrameRejected \/ ReadFails \/ TimedOut
    BY <1>4 DEF WriteFails, FrameRejected, ReadFails, TimedOut, Fails, Counter
  <1>5. CASE Publish \/ CompleteCycle \/ Recover
    BY <1>5 DEF Publish, CompleteCycle, Recover, Counter
  <1> QED
    BY <1>1, <1>2, <1>3, <1>4, <1>5 DEF MainThread

LEMMA NilNotNat == Nil \notin [Counter -> Nat]
  BY DEF Nil, Counter

LEMMA SnapshotType ==
    ASSUME TypeOK, NEW s \in Snapshots
    PROVE  s \in [Counter -> Nat] /\ \A c \in Counter : s[c] \in seen[c]
  BY DEF Snapshots, TypeOK, Counter

-----------------------------------------------------------------------------
LEMMA InitStats == Init => StatsType /\ FrameInv /\ CycleInv /\ SeenInv /\ SpanInv
  <1> SUFFICES ASSUME Init
               PROVE  StatsType /\ FrameInv /\ CycleInv /\ SeenInv /\ SpanInv
    OBVIOUS
  <1> USE StatsAssumption
  <1>1. \A c \in Counter : count[c] = 0 /\ previous[c] = -1 /\ seen[c] = {}
    BY DEF Init, Zero, Nil
  <1>2. StatsType
    <2>1. count \in [Counter -> Nat] /\ seen \in [Counter -> SUBSET Nat]
          /\ told \in [Counter -> Int]
      BY DEF Init, Zero, Nil
    <2>2. answers \in 0..Modules /\ messages \in 0..Modules + 1
      BY DEF Init
    <2>3. request = "none" /\ taking = FALSE /\ previous = Nil
      BY DEF Init
    <2> QED
      BY <2>1, <2>2, <2>3 DEF StatsType, TypeOK
  <1>3. FrameInv /\ CycleInv
    BY <1>1 DEF Init, Counter, FrameInv, CycleInv, Cycles, Sent, Written, Read, Timeouts,
                Errors
  <1>4. SeenInv
    BY <1>1 DEF SeenInv
  <1>5. SpanInv
    BY <1>1, FS_EmptySet DEF SpanInv, Counter
  <1> QED
    BY <1>2, <1>3, <1>4, <1>5

LEMMA StepStatsType ==
    ASSUME StatsType, [Next]_vars
    PROVE  StatsType'
  <1> USE StatsAssumption DEF StatsType
  <1>1. CASE MainThread
    <2>1. count' \in [Counter -> Nat] /\ seen' \in [Counter -> SUBSET Nat]
          /\ UNCHANGED reporter
      BY <1>1, MainThreadRecords, RecordGrows DEF TypeOK
    <2>2. /\ request' \in {"none", "sent", "read"}
          /\ answers' \in 0..Modules /\ messages' \in 0..Modules + 1
      BY <1>1 DEF TypeOK, MainThread, Send, ReadFrame, ParseFrame, WriteFails,
                  FrameRejected, ReadFails, TimedOut, Fails, Publish, CompleteCycle,
                  Recover, cycle
    <2> QED
      BY <2>1, <2>2 DEF TypeOK, reporter
  <1>2. CASE BeginSnapshot
    BY <1>2 DEF TypeOK, BeginSnapshot, cycle
  <1>3. CASE Report
    <2>1. PICK s \in Snapshots :
              /\ previous' = s
              /\ told' = IF previous = Nil THEN s
                         ELSE [c \in Counter |-> told[c] + Delta(s)[c]]
      BY <1>3 DEF Report
    <2>2. s \in [Counter -> Nat]
      BY SnapshotType
    <2>3. told' \in [Counter -> Int]
      BY <2>1, <2>2 DEF TypeOK, Delta
    <2> QED
      BY <1>3, <2>1, <2>2, <2>3 DEF TypeOK, Report, cycle
  <1>4. CASE UNCHANGED vars
    BY <1>4 DEF TypeOK, vars, cycle, reporter
  <1> QED
    BY <1>1, <1>2, <1>3, <1>4 DEF Next

(* The statistics are well-typed; no cycle has more answers than modules.  *)
THEOREM TypeCorrect == Spec => []TypeOK
  <1>1. StatsType => TypeOK
    BY DEF StatsType
  <1> QED
    BY <1>1, InitStats, StepStatsType, PTL DEF Spec

-----------------------------------------------------------------------------
LEMMA StepFrame ==
    ASSUME TypeOK, FrameInv, [Next]_vars
    PROVE  FrameInv'
  <1> DEFINE Numbers == Written \in Nat /\ Read \in Nat /\ Timeouts \in Nat /\ Errors \in Nat
  <1>1. Numbers
    BY DEF TypeOK, Counter, Written, Read, Timeouts, Errors
  <1>2. CASE Send
    <2>1. Written' = Written + 1 /\ UNCHANGED <<Read, Timeouts, Errors>>
      BY <1>2, StatsAssumption, RecordGrows
         DEF Send, Counter, Bytes, Written, Read, Timeouts, Errors
    <2> QED
      BY <1>1, <1>2, <2>1 DEF Send, FrameInv
  <1>3. CASE ReadFrame
    <2>1. Read' = Read + 1 /\ UNCHANGED <<Written, Timeouts, Errors>>
      BY <1>3, StatsAssumption, RecordGrows
         DEF ReadFrame, Counter, Bytes, Written, Read, Timeouts, Errors
    <2> QED
      BY <1>1, <1>3, <2>1 DEF ReadFrame, FrameInv
  <1>4. CASE WriteFails \/ FrameRejected \/ ReadFails
    <2>1. Errors' = Errors + 1 /\ UNCHANGED <<Written, Read, Timeouts>>
      BY <1>4, RecordGrows
         DEF WriteFails, FrameRejected, ReadFails, Fails, Counter, Bytes, Written, Read,
             Timeouts, Errors
    <2> QED
      BY <1>1, <1>4, <2>1 DEF WriteFails, FrameRejected, ReadFails, Fails, FrameInv
  <1>5. CASE TimedOut
    <2>1. Timeouts' = Timeouts + 1 /\ UNCHANGED <<Written, Read, Errors>>
      BY <1>5, RecordGrows
         DEF TimedOut, Fails, Counter, Bytes, Written, Read, Timeouts, Errors
    <2> QED
      BY <1>1, <1>5, <2>1 DEF TimedOut, Fails, FrameInv
  <1>6. CASE Publish \/ CompleteCycle \/ Recover
    <2>1. UNCHANGED <<Written, Read, Timeouts, Errors, request>>
      BY <1>6, RecordGrows
         DEF Publish, CompleteCycle, Recover, Counter, Written, Read, Timeouts, Errors
    <2> QED
      BY <2>1 DEF FrameInv
  <1>7. CASE ParseFrame
    BY <1>7 DEF ParseFrame, FrameInv, Written, Read, Timeouts, Errors
  <1>8. CASE BeginSnapshot \/ Report \/ UNCHANGED vars
    BY <1>8 DEF BeginSnapshot, Report, vars, FrameInv, Written, Read, Timeouts, Errors
  <1> QED
    BY <1>2, <1>3, <1>4, <1>5, <1>6, <1>7, <1>8 DEF Next, MainThread

(* Whatever fails and whenever: a frame that was sent is accounted for     *)
(* exactly once.                                                           *)
THEOREM FramesBalanceAlways == Spec => []FramesBalance
  <1>1. TypeOK /\ FrameInv => FramesBalance
    BY DEF TypeOK, Counter, FrameInv, FramesBalance, Written, Read, Timeouts, Errors
  <1>2. StatsType => TypeOK
    BY DEF StatsType
  <1> QED
    BY <1>1, <1>2, InitStats, StepStatsType, StepFrame, PTL DEF Spec

-----------------------------------------------------------------------------
LEMMA OneCycleMore ==
    ASSUME NEW c \in Nat, NEW m \in Nat
    PROVE  (c + 1) * m = c * m + m /\ c * m \in Nat
  OBVIOUS

LEMMA StepCycle ==
    ASSUME TypeOK, CycleInv, [Next]_vars
    PROVE  CycleInv'
  <1>1. Cycles \in Nat /\ Read \in Nat /\ Sent \in Nat /\ answers \in Nat /\ messages \in Nat
    BY StatsAssumption DEF TypeOK, Counter, Cycles, Read, Sent
  <1>2. Cycles * Modules \in Nat /\ Cycles * (Modules + 1) \in Nat
    BY <1>1, OneCycleMore, StatsAssumption
  <1> DEFINE few == Cycles * Modules
             many == Cycles * (Modules + 1)
  <1>3. Read >= few + answers + (IF request = "read" THEN 1 ELSE 0) /\ Sent >= many + messages
    BY DEF CycleInv
  <1>4. ASSUME UNCHANGED Cycles,
               Read' >= few + answers' + (IF request' = "read" THEN 1 ELSE 0),
               Sent' >= many + messages'
        PROVE  CycleInv'
    BY <1>4 DEF CycleInv
  <1> HIDE DEF few, many
  <1>5. CASE Send \/ WriteFails \/ FrameRejected \/ ReadFails \/ TimedOut
    <2>1. /\ UNCHANGED <<Cycles, Read, Sent>> /\ request' # "read"
          /\ answers' \in {0, answers} /\ messages' \in {0, messages}
      BY <1>5, RecordGrows, StatsAssumption
         DEF Send, WriteFails, FrameRejected, ReadFails, TimedOut, Fails, Counter, Cycles,
             Read, Sent, cycle
    <2> QED
      BY <1>1, <1>2, <1>3, <1>4, <2>1 DEF few, many
  <1>6. CASE ReadFrame
    <2>1. UNCHANGED <<Cycles, Sent, cycle>> /\ Read' = Read + 1 /\ request = "sent"
      BY <1>6, RecordGrows, StatsAssumption
         DEF ReadFrame, Counter, Bytes, Cycles, Read, Sent
    <2>2. answers' = answers /\ messages' = messages
      BY <2>1 DEF cycle
    <2> QED
      BY <1>1, <1>2, <1>3, <1>4, <2>1, <2>2 DEF few, many
  <1>7. CASE ParseFrame
    <2>1. /\ UNCHANGED <<Cycles, Read, Sent, messages>> /\ request = "read"
          /\ request' = "none" /\ answers' \in {answers, answers + 1}
      BY <1>7 DEF ParseFrame, Cycles, Read, Sent
    <2> QED
      BY <1>1, <1>2, <1>3, <1>4, <2>1 DEF few, many
  <1>8. CASE Publish
    <2>1. /\ UNCHANGED <<Cycles, Read, request, answers>> /\ Sent' = Sent + 1
          /\ messages' \in {messages, messages + 1}
      BY <1>8, RecordGrows DEF Publish, Counter, Bytes, Cycles, Read, Sent
    <2> QED
      BY <1>1, <1>2, <1>3, <1>4, <2>1 DEF few, many
  <1>9. CASE CompleteCycle
    <2>1. /\ UNCHANGED <<Read, Sent>> /\ Cycles' = Cycles + 1
          /\ answers = Modules /\ messages = Modules + 1 /\ request' = "none"
          /\ answers' = 0 /\ messages' = 0
      BY <1>9, RecordGrows DEF CompleteCycle, Counter, Bytes, Cycles, Read, Sent
    <2>2. Cycles' * Modules = few + Modules /\ Cycles' * (Modules + 1) = many + (Modules + 1)
      BY <1>1, <2>1, OneCycleMore, StatsAssumption DEF few, many
    <2>3. Read >= few + Modules /\ Sent >= many + (Modules + 1)
      BY <1>1, <1>2, <1>3, <2>1, StatsAssumption DEF few, many
    <2> QED
      BY <1>1, <1>2, <2>1, <2>2, <2>3, StatsAssumption DEF CycleInv, few, many
  <1>10. CASE Recover
    <2>1. UNCHANGED <<Cycles, Read, Sent, request>> /\ answers' = 0 /\ messages' = 0
      BY <1>10, RecordGrows DEF Recover, Counter, Bytes, Cycles, Read, Sent
    <2> QED
      BY <1>1, <1>2, <1>3, <1>4, <2>1 DEF few, many
  <1>11. CASE BeginSnapshot \/ Report \/ UNCHANGED vars
    <2>1. UNCHANGED <<Cycles, Read, Sent, request, answers, messages>>
      BY <1>11 DEF BeginSnapshot, Report, vars, cycle, Cycles, Read, Sent
    <2> QED
      BY <2>1 DEF CycleInv
  <1> QED
    BY <1>5, <1>6, <1>7, <1>8, <1>9, <1>10, <1>11 DEF Next, MainThread

(* The count of successful cycles never runs ahead of the replies and the  *)
(* messages a cycle takes, for every number of modules.                    *)
THEOREM CyclesBackedAlways == Spec => []CyclesBacked
  <1>1. TypeOK /\ CycleInv => CyclesBacked
    <2> SUFFICES ASSUME TypeOK, CycleInv PROVE CyclesBacked
      OBVIOUS
    <2>1. Cycles \in Nat /\ Read \in Nat /\ Sent \in Nat /\ answers \in Nat /\ messages \in Nat
      BY StatsAssumption DEF TypeOK, Counter, Cycles, Read, Sent
    <2>2. Cycles * Modules \in Nat /\ Cycles * (Modules + 1) \in Nat
      BY <2>1, OneCycleMore, StatsAssumption
    <2>3. Read >= Cycles * Modules + answers /\ Sent >= Cycles * (Modules + 1) + messages
      BY <2>1, <2>2 DEF CycleInv
    <2>4. Read >= Cycles * Modules /\ Sent >= Cycles * (Modules + 1)
      BY <2>1, <2>2, <2>3
    <2> QED
      BY <2>4 DEF CyclesBacked, Cycles, Read, Sent
  <1>2. StatsType => TypeOK
    BY DEF StatsType
  <1> QED
    BY <1>1, <1>2, InitStats, StepStatsType, StepCycle, PTL DEF Spec

-----------------------------------------------------------------------------
LEMMA PreviousLow ==
    ASSUME StatsType
    PROVE  \A c \in Counter : previous[c] \in Int /\ previous[c] >= -1
  BY DEF StatsType, TypeOK, Nil

LEMMA StepSeen ==
    ASSUME StatsType, SeenInv, [Next]_vars
    PROVE  SeenInv'
  <1>1. TypeOK /\ \A c \in Counter : previous[c] \in Int /\ count[c] \in Nat
                                  /\ seen[c] \subseteq Nat
    BY PreviousLow DEF StatsType, TypeOK
  <1>2. CASE MainThread
    <2>1. CASE UNCHANGED <<count, seen, reporter>>
      BY <2>1 DEF SeenInv, reporter
    <2>2. ASSUME NEW S \in SUBSET Counter, NEW n \in Nat, Record(S, n)
          PROVE  SeenInv'
      <3>1. \A c \in Counter : count'[c] \in Nat /\ count'[c] >= count[c]
        BY <1>1, <2>2, RecordGrows
      <3>2. \A c \in Counter :
               seen'[c] = IF taking THEN seen[c] \cup {count'[c]} ELSE seen[c]
        BY <1>1, <2>2, RecordGrows
      <3>3. taking' = taking /\ previous' = previous
        BY <2>2 DEF Record, reporter
      <3>4. ASSUME NEW c \in Counter, NEW v \in seen'[c]
            PROVE  v <= count'[c] /\ previous[c] <= v
        <4>1. CASE v \in seen[c]
          <5>1. v <= count[c] /\ previous[c] <= v /\ v \in Nat
            BY <1>1, <4>1 DEF SeenInv
          <5> QED
            BY <1>1, <3>1, <5>1
        <4>2. CASE v = count'[c]
          <5>1. previous[c] <= count[c]
            BY DEF SeenInv
          <5> QED
            BY <1>1, <3>1, <4>2, <5>1
        <4> QED
          BY <3>2, <3>4, <4>1, <4>2
      <3>5. ASSUME NEW c \in Counter
            PROVE  previous[c] <= count'[c] /\ (~taking => seen'[c] = {})
        <4>1. previous[c] <= count[c] /\ (~taking => seen[c] = {})
          BY DEF SeenInv
        <4>2. previous[c] <= count'[c]
          BY <1>1, <3>1, <4>1
        <4> QED
          BY <3>2, <4>1, <4>2
      <3> QED
        BY <3>3, <3>4, <3>5 DEF SeenInv
    <2> QED
      BY <1>1, <1>2, <2>1, <2>2, MainThreadRecords
  <1>3. CASE BeginSnapshot
    BY <1>1, <1>3 DEF BeginSnapshot, SeenInv
  <1>4. CASE Report
    <2>1. PICK s \in Snapshots : previous' = s
      BY <1>4 DEF Report
    <2>2. \A c \in Counter : s[c] \in seen[c]
      BY <1>1, SnapshotType
    <2>3. \A c \in Counter : seen'[c] = {} /\ count'[c] = count[c]
      BY <1>4 DEF Report
    <2> QED
      BY <1>1, <1>4, <2>1, <2>2, <2>3 DEF Report, SeenInv
  <1>5. CASE UNCHANGED vars
    BY <1>5 DEF vars, reporter, SeenInv
  <1> QED
    BY <1>2, <1>3, <1>4, <1>5 DEF Next

LEMMA StepSpan ==
    ASSUME StatsType, SeenInv, SpanInv, [Next]_vars
    PROVE  SpanInv'
  <1> DEFINE span == seen["source_frames_written"]
  <1>1. TypeOK /\ Written \in Nat /\ span \subseteq Nat /\ (~taking => span = {})
    BY DEF StatsType, TypeOK, Counter, Written, SeenInv
  <1>2. CASE MainThread
    <2>1. CASE UNCHANGED <<count, seen, reporter>>
      BY <2>1 DEF SpanInv, Written
    <2>2. ASSUME NEW S \in SUBSET Counter, NEW n \in Nat, Record(S, n)
          PROVE  SpanInv'
      <3>1. Written' \in {Written, Written + 1}
        BY <1>1, <2>2, RecordGrows DEF Written, Counter, Bytes
      <3>2. span' = IF taking THEN span \cup {Written'} ELSE span
        BY <1>1, <2>2, RecordGrows DEF Written, Counter
      <3>3. IsFiniteSet(span')
        BY <3>2, FS_AddElement DEF SpanInv
      <3>4. ASSUME NEW v \in span' PROVE v..Written' \subseteq span'
        <4>1. CASE v \in span
          <5>1. v..Written \subseteq span /\ v \in Nat /\ taking
            BY <1>1, <4>1 DEF SpanInv
          <5>2. v..Written' \subseteq (v..Written) \cup {Written'}
            BY <1>1, <3>1, <5>1
          <5> QED
            BY <3>2, <5>1, <5>2
        <4>2. CASE v = Written'
          BY <1>1, <3>1, <3>2, <3>4, <4>2
        <4> QED
          BY <3>2, <3>4, <4>1, <4>2
      <3> QED
        BY <3>3, <3>4 DEF SpanInv
    <2> QED
      BY <1>1, <1>2, <2>1, <2>2, MainThreadRecords
  <1>3. CASE BeginSnapshot
    <2>1. span' = {Written} /\ Written' = Written
      BY <1>3 DEF BeginSnapshot, Counter, Written
    <2>2. IsFiniteSet({Written})
      BY FS_Singleton
    <2>3. Written..Written = {Written}
      BY <1>1
    <2> QED
      BY <2>1, <2>2, <2>3 DEF SpanInv
  <1>4. CASE Report
    <2>1. span' = {}
      BY <1>4 DEF Report, Counter
    <2> QED
      BY <2>1, FS_EmptySet DEF SpanInv
  <1>5. CASE UNCHANGED vars
    BY <1>5 DEF vars, SpanInv, Written
  <1> QED
    BY <1>2, <1>3, <1>4, <1>5 DEF Next

-----------------------------------------------------------------------------
LEMMA StepLines ==
    ASSUME StatsType, LinesAddUp, [Next]_vars
    PROVE  LinesAddUp'
  <1>1. CASE MainThread
    <2>1. UNCHANGED <<told, previous>>
      BY <1>1, MainThreadRecords, RecordGrows DEF StatsType, reporter
    <2> QED
      BY <2>1 DEF LinesAddUp
  <1>2. CASE BeginSnapshot \/ UNCHANGED vars
    BY <1>2 DEF BeginSnapshot, vars, reporter, LinesAddUp
  <1>3. CASE Report
    <2>1. PICK s \in Snapshots :
              /\ previous' = s
              /\ told' = IF previous = Nil THEN s
                         ELSE [c \in Counter |-> told[c] + Delta(s)[c]]
      BY <1>3 DEF Report
    <2>2. s \in [Counter -> Nat]
      BY SnapshotType DEF StatsType
    <2>3. CASE previous # Nil
      <3>1. \A c \in Counter : told[c] + Delta(s)[c] = s[c]
        BY <2>2, <2>3 DEF StatsType, Delta, LinesAddUp
      <3>2. told' = [c \in Counter |-> s[c]]
        BY <2>1, <2>3, <3>1
      <3> QED
        BY <2>1, <2>2, <3>2 DEF LinesAddUp
    <2> QED
      BY <2>1, <2>3 DEF LinesAddUp
  <1> QED
    BY <1>1, <1>2, <1>3 DEF Next

(* The differences of all lines add up to the totals of the last one.      *)
THEOREM LinesAddUpAlways == Spec => []LinesAddUp
  <1>1. Init => LinesAddUp
    BY DEF Init, LinesAddUp
  <1> QED
    BY <1>1, InitStats, StepStatsType, StepLines, PTL DEF Spec

\* What a step of the reporter does to its last snapshot.
LEMMA ReportTakes ==
    ASSUME StatsType, SeenInv, [Next]_vars, previous' # previous
    PROVE  /\ previous' \in [Counter -> Nat]
           /\ \A c \in Counter : previous'[c] \in seen[c] /\ previous'[c] >= previous[c]
                               /\ previous'[c] <= count[c]
  <1>1. Report
    BY MainThreadRecords, RecordGrows DEF Next, BeginSnapshot, vars, reporter, StatsType
  <1>2. PICK s \in Snapshots : previous' = s
    BY <1>1 DEF Report
  <1>3. s \in [Counter -> Nat] /\ \A c \in Counter : s[c] \in seen[c]
    BY SnapshotType DEF StatsType
  <1> QED
    BY <1>2, <1>3, PreviousLow DEF SeenInv

(* No difference is ever negative, whatever the order in which a snapshot  *)
(* takes the counters.                                                     *)
THEOREM NeverNegativeAlways == Spec => NeverNegative
  <1> DEFINE Grows == previous # Nil => \A c \in Counter : told'[c] >= told[c]
  <1>1. StatsType /\ SeenInv /\ LinesAddUp /\ LinesAddUp' /\ [Next]_vars => [Grows]_told
    BY ReportTakes DEF LinesAddUp
  <1>2. Init => LinesAddUp
    BY DEF Init, LinesAddUp
  <1> QED
    BY <1>1, <1>2, InitStats, StepStatsType, StepSeen, StepLines, PTL
       DEF Spec, NeverNegative

(* A line that is made while frames are sent is wrong by no more frames    *)
(* than that.                                                              *)
THEOREM SkewBoundedAlways == Spec => SkewBounded
  <1> DEFINE span == seen["source_frames_written"]
             Bounded == previous'["source_frames_read"] + previous'["source_timeouts"]
                            < previous'["source_frames_written"] + Cardinality(span)
  <1>1. ASSUME StatsType, SeenInv, SpanInv, FrameInv, [Next]_vars, previous' # previous
        PROVE  Bounded
    <2> DEFINE w == previous'["source_frames_written"]
    <2>1. /\ previous' \in [Counter -> Nat] /\ w \in span
          /\ previous'["source_frames_read"] <= Read
          /\ previous'["source_timeouts"] <= Timeouts /\ w <= Written
      BY <1>1, ReportTakes DEF Counter, Read, Timeouts, Written
    <2>2. /\ Read \in Nat /\ Timeouts \in Nat /\ Written \in Nat /\ w \in Nat
          /\ previous'["source_frames_read"] \in Nat /\ previous'["source_timeouts"] \in Nat
      BY <1>1, <2>1 DEF StatsType, TypeOK, Counter, Read, Timeouts, Written
    <2>3. IsFiniteSet(span) /\ w..Written \subseteq span
      BY <1>1, <2>1 DEF SpanInv
    <2>4. Cardinality(w..Written) = Written - w + 1
      <3> HIDE DEF w
      <3>1. w \in Int /\ Written \in Int
        BY <2>2
      <3>2. Cardinality(w..Written) = IF w > Written THEN 0 ELSE Written - w + 1
        BY ONLY <3>1, FS_Interval, Zenon
      <3> QED
        BY <2>1, <2>2, <3>2
    <2>5. Cardinality(span) \in Nat /\ Cardinality(span) >= Written - w + 1
      BY <2>2, <2>3, <2>4, FS_Subset, FS_CardinalityType
    <2>6. Read + Timeouts <= Written
      BY <1>1, <2>2 DEF FrameInv
    <2> HIDE DEF w
    <2>7. previous'["source_frames_read"] + previous'["source_timeouts"] < w + Cardinality(span)
      BY <2>1, <2>2, <2>5, <2>6
    <2> QED
      BY <2>7 DEF w
  <1>2. StatsType => TypeOK
    BY DEF StatsType
  <1>3. StatsType /\ SeenInv /\ SpanInv /\ FrameInv /\ [Next]_vars => [Bounded]_previous
    BY <1>1
  <1> QED
    BY <1>2, <1>3, InitStats, StepStatsType, StepSeen, StepSpan, StepFrame, PTL
       DEF Spec, SkewBounded
=============================================================================
