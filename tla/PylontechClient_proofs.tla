----------------------- MODULE PylontechClient_proofs -----------------------
(***************************************************************************)
(* What the Python client finds and yields, for every address range and    *)
(* every set of batteries, on a connection that starts with an empty line. *)
(***************************************************************************)
EXTENDS PylontechClient, FiniteSetTheorems, TLAPS

Own(a, k) == [addr |-> a, kind |-> k, own |-> TRUE]

LEMMA OutdatedType ==
    ASSUME NEW w, w \subseteq Reply
    PROVE  Outdated(w) \subseteq Reply
  <1> SUFFICES ASSUME NEW q \in w
               PROVE  [addr |-> q.addr, kind |-> q.kind, own |-> FALSE] \in Reply
    BY DEF Outdated
  <1>1. q \in Reply
    OBVIOUS
  <1> QED
    BY <1>1 DEF Reply

LEMMA AnswersType ==
    ASSUME NEW a \in Address, NEW k \in Kinds
    PROVE  Answers(a, k) \subseteq Reply
  <1>1. [addr |-> a, kind |-> k, own |-> TRUE] \in Reply
    BY DEF Reply
  <1> QED
    BY <1>1 DEF Answers

\* A request that fails leaves no more on the wire than there was.
LEMMA FailureShrinks ==
    ASSUME Fails \/ LinkFails
    PROVE  /\ wire' \subseteq wire /\ request' = None /\ phase' = "connect"
           /\ UNCHANGED <<up, calm, todo, step, taken, ids, result, yielded>>
  BY DEF Fails, LinkFails, Silence, Garbled, IoError, AllButOne

LEMMA AskSends ==
    ASSUME TypeOK, Ask
    PROVE  \E a \in todo : LET k == IF phase = "scan" THEN step ELSE "values" IN
           /\ First(a) /\ request = None /\ phase \in {"scan", "poll"}
           /\ k \in Kinds /\ a \in Address
           /\ request' = [addr |-> a, kind |-> k] /\ request' # None
           /\ wire' = Outdated(wire) \cup Answers(a, k)
           /\ UNCHANGED <<up, calm, phase, todo, step, taken, ids, result, yielded>>
  <1>1. PICK a \in todo : First(a) /\ Send(a, IF phase = "scan" THEN step ELSE "values")
    BY DEF Ask
  <1>2. /\ (IF phase = "scan" THEN step ELSE "values") \in Kinds
        /\ a \in Address
    BY DEF TypeOK, Kinds, Identity
  <1>3. [addr |-> a, kind |-> IF phase = "scan" THEN step ELSE "values"] \in Request
    BY <1>2 DEF Request
  <1> QED
    BY <1>1, <1>2, <1>3, LinkAssumption DEF Ask, Send

LEMMA InitType == Init => TypeOK
  BY DEF Init, TypeOK, LinkTypeOK, Blank, Nothing, Frame

LEMMA StepType ==
    ASSUME TypeOK, [Next]_vars
    PROVE  TypeOK'
  <1> USE DEF TypeOK, LinkTypeOK
  <1>1. CASE Connect
    <2>1. wire' \subseteq Reply
      BY <1>1, OutdatedType DEF Connect, OpenLink
    <2> QED
      BY <1>1, <2>1 DEF Connect, OpenLink, Blank, Nothing, Frame
  <1>2. CASE Ask
    <2>1. PICK a \in todo : LET k == IF phase = "scan" THEN step ELSE "values" IN
           /\ k \in Kinds /\ a \in Address
           /\ request' = [addr |-> a, kind |-> k]
           /\ wire' = Outdated(wire) \cup Answers(a, k)
           /\ UNCHANGED <<up, calm, phase, todo, step, taken, ids, result, yielded>>
      BY <1>2, AskSends
    <2>2. request' \in Request
      BY <2>1 DEF Request
    <2>4. wire' \subseteq Reply
      BY <2>1, AnswersType, OutdatedType
    <2> QED
      BY <2>1, <2>2, <2>4
  <1>3. CASE ProbeHeard
    <2>1. wire' \subseteq wire
      BY <1>3 DEF ProbeHeard, AllButOne
    <2> QED
      BY <1>3, <2>1 DEF ProbeHeard, Identity
  <1>4. CASE NoBattery
    BY <1>4 DEF NoBattery, Silence
  <1>5. CASE ReadIdentity
    <2>1. PICK r \in wire :
             Takes(r) /\ taken' = [taken EXCEPT ![request.addr][request.kind] = r]
      BY <1>5 DEF ReadIdentity
    <2>2. /\ request \in Request /\ request.addr \in Address /\ request.kind \in Identity
      BY <1>5 DEF ReadIdentity, Request
    <2>3. taken' \in [Address -> [Identity -> Frame]]
      BY <2>1, <2>2 DEF Frame
    <2>4. step' \in {"probe"} \cup Identity
      BY <1>5, <2>2 DEF ReadIdentity, After, Identity
    <2>5. wire' \subseteq wire /\ request' = None
      BY <2>1 DEF Takes
    <2> QED
      BY <1>5, <2>2, <2>3, <2>4, <2>5 DEF ReadIdentity
  <1>6. CASE EndScan
    BY <1>6 DEF EndScan, Span, link
  <1>7. CASE ReadValues
    <2>1. PICK r \in wire : Takes(r) /\ result' = [result EXCEPT ![request.addr] = r]
      BY <1>7 DEF ReadValues
    <2>2. wire' \subseteq wire /\ request' = None
      BY <2>1 DEF Takes
    <2> QED
      BY <1>7, <2>1, <2>2 DEF ReadValues, Frame
  <1>8. CASE Yield
    BY <1>8 DEF Yield, Span, Nothing, Frame, link
  <1>9. CASE Fails \/ LinkFails
    BY <1>9, FailureShrinks
  <1>10. CASE Environment
    BY <1>10 DEF Environment, LinkDown, LoseReply, BecomeCalm, link
  <1>11. CASE UNCHANGED vars
    BY <1>11 DEF vars
  <1> QED
    BY <1>1, <1>2, <1>3, <1>4, <1>5, <1>6, <1>7, <1>8, <1>9, <1>10, <1>11 DEF Next, Client

(* Every variable keeps its type: what the scan lists and polls stays      *)
(* within the range it was given (scan_for_batteries, poll_parameters).    *)
THEOREM TypeCorrect == Spec => []TypeOK
  <1> QED
    BY InitType, StepType, PTL DEF Spec
-----------------------------------------------------------------------------
(* The request that is outstanding is the one that the loop at hand is at, *)
(* and no other has an answer that may still be taken for it unnoticed.    *)
RequestInv ==
    request # None =>
        /\ phase \in {"scan", "poll"}
        /\ request.addr \in todo /\ First(request.addr)
        /\ request.kind = IF phase = "scan" THEN step ELSE "values"
        /\ \A r \in wire : r.own => r = Own(request.addr, request.kind)

\* Values are asked for by polls alone, one battery at a time.
ValuesInv ==
    /\ \A r \in wire : r.addr \in Present
    /\ phase = "scan" => \A r \in wire : r.kind # "values"
    /\ phase = "poll" =>
          \A r \in wire : r.kind = "values" =>
              request # None /\ r = Own(request.addr, "values")

\* What the poll at hand has got so far, and what a scan starts from.
PollInv ==
    /\ phase = "scan" => yielded = Nothing /\ result = Nothing
    /\ phase = "poll" =>
          /\ todo \subseteq Span(ids)
          /\ \A a \in Address :
                result[a] = IF a \in Span(ids) \ todo THEN Own(a, "values") ELSE None

ClientInv == TypeOK /\ RequestInv /\ ValuesInv /\ PollInv /\ YieldsOwn

LEMMA InitClient == Init => ClientInv
  BY InitType DEF Init, ClientInv, RequestInv, ValuesInv, PollInv, YieldsOwn

\* A poll takes nothing but the answer to its own question.
LEMMA PollTakesOwn ==
    ASSUME ClientInv, ReadValues
    PROVE  /\ phase = "poll" /\ request.addr \in todo /\ request.addr \in Address
           /\ Own(request.addr, "values") \in Deliverable
           /\ result' = [result EXCEPT ![request.addr] = Own(request.addr, "values")]
           /\ wire' = wire \ {Own(request.addr, "values")}
  <1>1. PICK r \in wire : Takes(r) /\ result' = [result EXCEPT ![request.addr] = r]
    BY DEF ReadValues
  <1>2. request # None /\ request.kind = "values" /\ r.kind = "values"
    BY <1>1 DEF ReadValues, Takes, Accepts
  <1>3. phase = "poll"
    BY <1>2 DEF ClientInv, RequestInv, TypeOK, Identity
  <1>4. r = Own(request.addr, "values")
    BY <1>2, <1>3 DEF ClientInv, ValuesInv
  <1> QED
    BY <1>1, <1>2, <1>3, <1>4 DEF ClientInv, RequestInv, TypeOK, Takes

LEMMA StepClient ==
    ASSUME BridgeKeeps = 0, ClientInv, [Next]_vars
    PROVE  ClientInv'
  <1> USE DEF ClientInv
  <1>1. TypeOK /\ TypeOK'
    BY StepType
  <1>2. CASE Connect
    BY <1>1, <1>2
       DEF Connect, OpenLink, RequestInv, ValuesInv, PollInv, YieldsOwn
  <1>3. CASE Ask
    <2>1. PICK a \in todo : LET k == IF phase = "scan" THEN step ELSE "values" IN
           /\ First(a) /\ request = None /\ phase \in {"scan", "poll"}
           /\ k \in Kinds /\ a \in Address
           /\ request' = [addr |-> a, kind |-> k] /\ request' # None
           /\ wire' = Outdated(wire) \cup Answers(a, k)
           /\ UNCHANGED <<up, calm, phase, todo, step, taken, ids, result, yielded>>
      BY <1>1, <1>3, AskSends
    <2>2. \A r \in wire' :
              \/ ~r.own /\ \E q \in wire : r.addr = q.addr /\ r.kind = q.kind
              \/ r = Own(request'.addr, request'.kind) /\ r.addr \in Present
      BY <2>1 DEF Outdated, Answers, Own
    <2>3. RequestInv'
      BY <2>1, <2>2 DEF RequestInv, First
    <2>4. ValuesInv'
      BY <1>1, <2>1, <2>2 DEF ValuesInv, TypeOK, Identity, Own
    <2>5. PollInv' /\ YieldsOwn'
      BY <2>1 DEF PollInv, YieldsOwn, Span
    <2> QED
      BY <1>1, <2>3, <2>4, <2>5
  <1>4. CASE ProbeHeard
    <2>1. /\ wire' \subseteq wire /\ request' = None
          /\ UNCHANGED <<phase, todo, ids, result, yielded>>
      BY <1>4 DEF ProbeHeard, AllButOne
    <2>2. phase = "scan"
      BY <1>4 DEF ProbeHeard, RequestInv
    <2> QED
      BY <1>1, <2>1, <2>2 DEF RequestInv, ValuesInv, PollInv, YieldsOwn
  <1>5. CASE NoBattery
    <2>1. phase = "scan"
      BY <1>5 DEF NoBattery, RequestInv
    <2> QED
      BY <1>1, <1>5, <2>1 DEF NoBattery, Silence, RequestInv, ValuesInv, PollInv, YieldsOwn
  <1>6. CASE ReadIdentity
    <2>1. phase = "scan"
      BY <1>6 DEF ReadIdentity, RequestInv, Identity
    <2>2. wire' \subseteq wire /\ request' = None /\ UNCHANGED <<phase, result, yielded>>
      BY <1>6 DEF ReadIdentity, Takes
    <2> QED
      BY <1>1, <2>1, <2>2 DEF RequestInv, ValuesInv, PollInv, YieldsOwn
  <1>7. CASE EndScan
    <2>1. request = None
      BY <1>7 DEF EndScan, RequestInv
    <2>2. /\ phase' \in {"connect", "poll"} /\ todo' = Span(ids) /\ yielded = Nothing
          /\ result = Nothing /\ UNCHANGED <<wire, request, ids, result, yielded>>
      BY <1>7 DEF EndScan, PollInv, link
    <2> QED
      BY <1>1, <1>7, <2>1, <2>2
         DEF EndScan, RequestInv, ValuesInv, PollInv, YieldsOwn, Span, Nothing
  <1>8. CASE ReadValues
    <2>1. /\ phase = "poll" /\ request.addr \in todo /\ request.addr \in Address
          /\ result' = [result EXCEPT ![request.addr] = Own(request.addr, "values")]
          /\ wire' = wire \ {Own(request.addr, "values")}
      BY <1>8, PollTakesOwn
    <2>2. /\ request # None /\ request' = None /\ todo' = todo \ {request.addr}
          /\ UNCHANGED <<phase, ids, yielded>>
      BY <1>8 DEF ReadValues, Takes
    <2>3. ValuesInv'
      BY <2>1, <2>2 DEF ValuesInv
    <2>4. PollInv'
      BY <1>1, <2>1, <2>2 DEF PollInv, TypeOK, Span
    <2> QED
      BY <1>1, <2>2, <2>3, <2>4 DEF RequestInv, YieldsOwn, Span
  <1>9. CASE Yield
    <2>1. /\ phase = "poll" /\ todo = {} /\ yielded' = result /\ result' = Nothing
          /\ todo' = Span(ids) /\ UNCHANGED <<wire, request, phase, ids>>
      BY <1>9 DEF Yield, link
    <2>2. request = None
      BY <2>1 DEF RequestInv
    <2>3. YieldsOwn'
      BY <2>1 DEF PollInv, YieldsOwn, Span, Own
    <2> QED
      BY <1>1, <2>1, <2>2, <2>3 DEF RequestInv, ValuesInv, PollInv, Span, Nothing
  <1>10. CASE Fails \/ LinkFails
    BY <1>1, <1>10, FailureShrinks DEF RequestInv, ValuesInv, PollInv, YieldsOwn, Span
  <1>11. CASE Environment
    <2>1. /\ wire' \subseteq wire
          /\ UNCHANGED <<request, phase, todo, step, ids, result, yielded>>
      BY <1>11 DEF Environment, LinkDown, LoseReply, BecomeCalm, link
    <2> QED
      BY <1>1, <2>1 DEF RequestInv, ValuesInv, PollInv, YieldsOwn, Span, First
  <1>12. CASE UNCHANGED vars
    BY <1>1, <1>12 DEF vars, RequestInv, ValuesInv, PollInv, YieldsOwn, Span, First
  <1> QED
    BY <1>2, <1>3, <1>4, <1>5, <1>6, <1>7, <1>8, <1>9, <1>10, <1>11, <1>12 DEF Next, Client

(* Each state that is yielded holds, for every address from the lowest to  *)
(* the highest battery, the values which that battery sent for this very   *)
(* poll, however late, damaged or lost other answers are (poll_parameters, *)
(* get_values_single).                                                     *)
THEOREM YieldsOwnAlways ==
    ASSUME BridgeKeeps = 0
    PROVE  Spec => []YieldsOwn
  <1>1. ClientInv /\ [Next]_vars => ClientInv'
    BY StepClient
  <1>2. ClientInv => YieldsOwn
    BY DEF ClientInv
  <1> QED
    BY <1>1, <1>2, InitClient, PTL DEF Spec
-----------------------------------------------------------------------------
(* Identities on a bus that swallows nothing.  A battery on the list, or   *)
(* about to be put there, has sent five answers and five have been taken   *)
(* for its own; so either each was its own, or one of its answers is still *)
(* to come - and meets the poll of that battery.                           *)
Known(a) == a \in ids \/ (a \in todo /\ First(a) /\ step # "probe")

\* The identity requests that were made before the one at hand.
Done(k) ==
    \/ k = "serial" /\ step \in {"system", "management", "manufacturer"}
    \/ k = "system" /\ step \in {"management", "manufacturer"}
    \/ k = "management" /\ step = "manufacturer"

Exact(a) == \A k \in Identity : taken[a][k] = Own(a, k)

\* No answer is swallowed, and none comes from where nobody has asked.
AnswerComes ==
    request # None /\ request.addr \in Present =>
        Own(request.addr, request.kind) \in wire

Unasked ==
    phase = "scan" =>
        /\ ids \cap todo = {}
        /\ \A r \in wire : r.addr \in todo =>
              /\ First(r.addr)
              /\ step = "probe" => request # None /\ r = Own(r.addr, "probe")

\* An answer of a battery on the list that nobody waits for.
Owed == \E r \in wire :
            Known(r.addr) /\ r.kind # "values" /\ (request # None => ~r.own)

Absent == \E a \in Address : Known(a) /\ a \notin Present

Faithful ==
    /\ \A a \in ids : Exact(a)
    /\ \A a \in todo, k \in Identity :
          First(a) /\ step # "probe" /\ Done(k) => taken[a][k] = Own(a, k)
    /\ \A r \in wire : Known(r.addr) =>
          request # None /\ r = Own(request.addr, request.kind)

ScanInv == phase = "scan" => Owed \/ Absent \/ Faithful

\* What the scan got wrong stands in the way of every poll.
Stuck ==
    \/ \E r \in wire : /\ r.addr \in ids \cap todo /\ r.kind # "values"
                       /\ request # None => ~r.own
    \/ \E a \in ids \cap todo : a \notin Present

PolledInv ==
    /\ phase = "poll" => (Stuck /\ yielded = Nothing) \/ \A a \in ids : Exact(a)
    /\ yielded # Nothing => \A a \in ids : Exact(a)

IdentityInv == ClientInv /\ AnswerComes /\ Unasked /\ ScanInv /\ PolledInv

LEMMA InitIdentity == Init => IdentityInv
  BY InitClient DEF Init, IdentityInv, AnswerComes, Unasked, ScanInv, PolledInv

LEMMA OneFirst ==
    ASSUME TypeOK, NEW a \in todo, NEW b \in todo, First(a), First(b)
    PROVE  a = b
  <1>1. ScanStart \in Nat /\ ScanEnd \in Nat
    BY LinkAssumption
  <1>2. a \in Int /\ b \in Int
    BY <1>1 DEF TypeOK, Address
  <1> QED
    BY <1>2 DEF First

\* The address that the scan is at.
LEMMA Scanning ==
    ASSUME IdentityInv, phase = "scan", request # None
    PROVE  /\ request.addr \in todo /\ First(request.addr) /\ request.kind = step
           /\ request.addr \in Address /\ request.addr \notin ids
           /\ \A a \in todo : First(a) => a = request.addr
  <1>1. /\ request.addr \in todo /\ First(request.addr) /\ request.kind = step
        /\ todo \subseteq Address
    BY DEF IdentityInv, ClientInv, RequestInv, TypeOK
  <1>2. \A a \in todo : First(a) => a = request.addr
    BY <1>1, OneFirst DEF IdentityInv, ClientInv
  <1>3. request.addr \notin ids
    BY <1>1 DEF IdentityInv, Unasked
  <1> QED
    BY <1>1, <1>2, <1>3

LEMMA AskIdentity ==
    ASSUME IdentityInv, ClientInv', Ask
    PROVE  IdentityInv'
  <1> USE DEF IdentityInv
  <1>1. PICK a \in todo : LET k == IF phase = "scan" THEN step ELSE "values" IN
           /\ First(a) /\ request = None /\ phase \in {"scan", "poll"}
           /\ k \in Kinds /\ a \in Address
           /\ request' = [addr |-> a, kind |-> k] /\ request' # None
           /\ wire' = Outdated(wire) \cup Answers(a, k)
           /\ UNCHANGED <<up, calm, phase, todo, step, taken, ids, result, yielded>>
    BY AskSends DEF ClientInv
  <1>2. \A r \in wire' :
            \/ ~r.own /\ \E q \in wire : r.addr = q.addr /\ r.kind = q.kind
            \/ r = Own(request'.addr, request'.kind)
    BY <1>1 DEF Outdated, Answers, Own
  <1>3. \A q \in wire : \E r \in wire' : ~r.own /\ r.addr = q.addr /\ r.kind = q.kind
    <2> SUFFICES ASSUME NEW q \in wire
                 PROVE  \E r \in wire' : ~r.own /\ r.addr = q.addr /\ r.kind = q.kind
      OBVIOUS
    <2>1. [addr |-> q.addr, kind |-> q.kind, own |-> FALSE] \in wire'
      BY <1>1 DEF Outdated
    <2> QED
      BY <2>1
  <1>4. /\ \A b : Known(b)' <=> Known(b)
        /\ \A b : First(b)' <=> First(b)
        /\ \A b : Exact(b)' <=> Exact(b)
        /\ \A k : Done(k)' <=> Done(k)
    BY <1>1 DEF Known, First, Exact, Done
  <1>5. AnswerComes'
    BY <1>1 DEF AnswerComes, Answers, Own
  <1>6. Unasked'
    BY <1>1, <1>2, <1>4 DEF Unasked, Own
  <1>7. ScanInv'
    <2>1. Owed => Owed'
      BY <1>1, <1>3, <1>4 DEF Owed
    <2>2. Absent => Absent'
      BY <1>4 DEF Absent
    <2>3. Faithful => Faithful'
      BY <1>1, <1>2, <1>4 DEF Faithful
    <2> QED
      BY <1>1, <2>1, <2>2, <2>3 DEF ScanInv
  <1>8. PolledInv'
    <2>1. Stuck => Stuck'
      BY <1>1, <1>3 DEF Stuck
    <2> QED
      BY <1>1, <1>4, <2>1 DEF PolledInv
  <1> QED
    BY <1>5, <1>6, <1>7, <1>8

LEMMA HeardIdentity ==
    ASSUME IdentityInv, ClientInv', ProbeHeard
    PROVE  IdentityInv'
  <1> USE DEF IdentityInv
  <1> DEFINE b == request.addr
  <1>1. phase = "scan" /\ request # None /\ step = "probe"
    BY DEF ProbeHeard, ClientInv, RequestInv
  <1>2. /\ b \in todo /\ First(b) /\ request.kind = "probe" /\ b \in Address /\ b \notin ids
        /\ \A a \in todo : First(a) => a = b
    BY <1>1, Scanning
  <1> HIDE DEF b
  <1>3. /\ request' = None /\ step' = "serial"
        /\ UNCHANGED <<phase, todo, taken, ids, yielded>>
        /\ wire' = wire \/ \E r \in wire : wire' = wire \ {r}
    BY DEF ProbeHeard, AllButOne, Deliverable
  <1>4. \A a : Known(a)' <=> (Known(a) \/ a = b)
    BY <1>1, <1>2, <1>3 DEF Known, First
  <1>5. AnswerComes' /\ Unasked'
    BY <1>1, <1>3 DEF AnswerComes, Unasked, First
  <1>6. PolledInv'
    BY <1>1, <1>3 DEF PolledInv, Exact
  <1>7. CASE Absent \/ b \notin Present
    BY <1>2, <1>3, <1>4, <1>5, <1>6, <1>7 DEF ScanInv, Absent
  <1>8. CASE b \in Present
    <2>1. Own(b, "probe") \in wire
      BY <1>1, <1>2, <1>8 DEF AnswerComes, b
    <2>2. CASE Owed
      <3>1. PICK q \in wire : Known(q.addr) /\ q.kind # "values" /\ ~q.own
        BY <1>1, <2>2 DEF Owed
      <3>2. q \in wire' \/ Own(b, "probe") \in wire'
        BY <1>3, <2>1, <3>1 DEF Own
      <3> QED
        BY <1>3, <1>4, <1>5, <1>6, <3>1, <3>2 DEF ScanInv, Owed, Own
    <2>3. CASE Own(b, "probe") \in wire'
      BY <1>3, <1>4, <1>5, <1>6, <2>3 DEF ScanInv, Owed, Own
    <2>4. CASE Faithful /\ Own(b, "probe") \notin wire'
      <3>1. wire' = wire \ {Own(b, "probe")}
        BY <1>3, <2>1, <2>4
      <3>2. \A r \in wire' : ~Known(r.addr)'
        BY <1>1, <1>2, <1>4, <2>4, <3>1 DEF Faithful, Unasked, b
      <3>3. Faithful'
        BY <1>1, <1>3, <2>4, <3>2 DEF Faithful, Exact, Done, First
      <3> QED
        BY <1>5, <1>6, <3>3 DEF ScanInv
    <2> QED
      BY <1>1, <1>7, <2>2, <2>3, <2>4 DEF ScanInv
  <1> QED
    BY <1>7, <1>8

LEMMA SilentIdentity ==
    ASSUME IdentityInv, ClientInv', NoBattery
    PROVE  IdentityInv'
  <1> USE DEF IdentityInv
  <1> DEFINE b == request.addr
  <1>1. phase = "scan" /\ request # None /\ step = "probe"
    BY DEF NoBattery, ClientInv, RequestInv
  <1>2. /\ b \in todo /\ First(b) /\ request.kind = "probe" /\ b \in Address /\ b \notin ids
        /\ \A a \in todo : First(a) => a = b
    BY <1>1, Scanning
  <1> HIDE DEF b
  <1>3. /\ request' = None /\ todo' = todo \ {b}
        /\ UNCHANGED <<wire, phase, step, taken, ids, yielded>>
    BY DEF NoBattery, Silence, b
  <1>4. \A a : (Known(a)' <=> a \in ids) /\ (Known(a) <=> a \in ids)
    BY <1>1, <1>3 DEF Known
  <1>5. AnswerComes' /\ Unasked'
    BY <1>1, <1>2, <1>3 DEF AnswerComes, Unasked
  <1>6. PolledInv'
    BY <1>1, <1>3 DEF PolledInv, Exact
  <1>7. Owed => Owed'
    BY <1>3, <1>4 DEF Owed
  <1>8. Absent => Absent'
    BY <1>4 DEF Absent
  <1>9. Faithful => Faithful'
    BY <1>1, <1>2, <1>3, <1>4 DEF Faithful, Exact, Own, b
  <1> QED
    BY <1>1, <1>5, <1>6, <1>7, <1>8, <1>9 DEF ScanInv

LEMMA ReadIdentityKeeps ==
    ASSUME IdentityInv, ClientInv', ReadIdentity
    PROVE  IdentityInv'
  <1> USE DEF IdentityInv
  <1> DEFINE b == request.addr
  <1>1. phase = "scan" /\ request # None /\ step \in Identity /\ request.kind = step
    BY DEF ReadIdentity, ClientInv, RequestInv, TypeOK, Identity
  <1>2. /\ b \in todo /\ First(b) /\ b \in Address /\ b \notin ids
        /\ \A a \in todo : First(a) => a = b
    BY <1>1, Scanning
  <1> HIDE DEF b
  <1>3. PICK r \in wire :
           /\ r \in Deliverable /\ wire' = wire \ {r} /\ request' = None
           /\ taken' = [taken EXCEPT ![b][step] = r]
    BY <1>1 DEF ReadIdentity, Takes, b
  <1>4. /\ step' = After(step)
        /\ IF step = "manufacturer"
              THEN todo' = todo \ {b} /\ ids' = ids \cup {b}
              ELSE UNCHANGED <<todo, ids>>
        /\ UNCHANGED <<phase, yielded>>
    BY <1>1 DEF ReadIdentity, b
  <1>5. \A a : Known(a)' <=> Known(a)
    BY <1>1, <1>2, <1>4 DEF Known, First, After, Identity
  <1>6. /\ Known(b) /\ \A a : Known(a) <=> a \in ids \/ a = b
    BY <1>1, <1>2 DEF Known, Identity
  <1>7. AnswerComes'
    BY <1>3 DEF AnswerComes
  <1>8. Unasked'
    <2>1. \A q \in wire : q.addr \in todo => q.addr = b
      BY <1>1, <1>2 DEF Unasked
    <2>2. CASE step = "manufacturer"
      BY <1>2, <1>3, <1>4, <2>1, <2>2, <1>1 DEF Unasked, After
    <2>3. CASE step # "manufacturer"
      <3>1. step' # "probe" /\ UNCHANGED <<todo, ids>>
        BY <1>1, <1>4, <2>3 DEF After, Identity
      <3>2. \A a : First(a) => First(a)'
        BY <3>1 DEF First
      <3> QED
        BY <1>1, <1>2, <1>3, <1>4, <2>1, <3>1, <3>2 DEF Unasked
    <2> QED
      BY <2>2, <2>3
  <1>9. PolledInv'
    BY <1>1, <1>4 DEF PolledInv, ClientInv, PollInv
  <1>10. CASE Absent \/ b \notin Present
    BY <1>2, <1>5, <1>6, <1>7, <1>8, <1>9, <1>10 DEF ScanInv, Absent
  <1>11. CASE b \in Present
    <2>1. Own(b, step) \in wire
      BY <1>1, <1>11 DEF AnswerComes, b
    <2>2. CASE Owed
      <3>1. PICK q \in wire : Known(q.addr) /\ q.kind # "values" /\ ~q.own
        BY <1>1, <2>2 DEF Owed
      <3>2. q \in wire' \/ Own(b, step) \in wire'
        BY <1>3, <2>1, <3>1 DEF Own
      <3>3. Own(b, step).addr = b /\ Own(b, step).kind # "values"
        BY <1>1 DEF Own, Identity
      <3>4. \E x \in wire' : Known(x.addr)' /\ x.kind # "values"
        BY <1>5, <1>6, <3>1, <3>2, <3>3
      <3> QED
        BY <1>3, <1>7, <1>8, <1>9, <3>4 DEF ScanInv, Owed
    <2>3. CASE r # Own(b, step)
      <3>1. /\ Own(b, step) \in wire' /\ Own(b, step).addr = b
            /\ Own(b, step).kind # "values"
        BY <1>1, <1>3, <2>1, <2>3 DEF Own, Identity
      <3> QED
        BY <1>3, <1>5, <1>6, <1>7, <1>8, <1>9, <3>1 DEF ScanInv, Owed
    <2>4. CASE Faithful /\ r = Own(b, step)
      <3>1. taken \in [Address -> [Identity -> Frame]]
        BY DEF ClientInv, TypeOK
      <3>2. /\ taken'[b][step] = Own(b, step)
            /\ \A k \in Identity : k # step => taken'[b][k] = taken[b][k]
            /\ \A a \in ids : taken'[a] = taken[a]
        BY <1>1, <1>2, <1>3, <2>4, <3>1 DEF ClientInv, TypeOK
      <3>3. \A k \in Identity : Done(k) \/ k = step => taken'[b][k] = Own(b, k)
        BY <1>1, <1>2, <2>4, <3>2 DEF Faithful, Identity
      <3>4. \A q \in wire' : ~Known(q.addr)'
        BY <1>1, <1>3, <1>5, <2>4 DEF Faithful, b
      <3>5. CASE step = "manufacturer"
        <4>1. \A k \in Identity : Done(k) \/ k = step
          BY <3>5 DEF Done, Identity
        <4>2. step' = "probe" /\ ids' = ids \cup {b}
          BY <1>4, <3>5 DEF After
        <4>3. \A a \in ids' : Exact(a)'
          BY <2>4, <3>2, <3>3, <4>1, <4>2 DEF Faithful, Exact
        <4> QED
          BY <1>7, <1>8, <1>9, <3>4, <4>2, <4>3 DEF ScanInv, Faithful
      <3>6. CASE step # "manufacturer"
        <4>1. /\ UNCHANGED <<todo, ids>>
              /\ \A k \in Identity : Done(k)' => Done(k) \/ k = step
          BY <1>1, <1>4, <3>6 DEF After, Done, Identity
        <4>2. \A a \in ids' : Exact(a)'
          BY <2>4, <3>2, <4>1 DEF Faithful, Exact
        <4>3. \A a \in todo : First(a)' => a = b
          BY <1>2, <4>1 DEF First
        <4> QED
          BY <1>7, <1>8, <1>9, <3>3, <3>4, <4>1, <4>2, <4>3 DEF ScanInv, Faithful
      <3> QED
        BY <3>5, <3>6
    <2> QED
      BY <1>1, <1>10, <2>2, <2>3, <2>4 DEF ScanInv
  <1> QED
    BY <1>10, <1>11

LEMMA StepIdentity ==
    ASSUME BridgeKeeps = 0, ~Lossy, IdentityInv, [Next]_vars
    PROVE  IdentityInv'
  <1> USE DEF IdentityInv
  <1>1. ClientInv'
    BY StepClient
  <1>2. CASE Connect
    <2>1. /\ wire' = {} /\ request' = None /\ phase' = "scan" /\ todo' = Address
          /\ step' = "probe" /\ ids' = {} /\ yielded' = Nothing
      BY <1>2 DEF Connect, OpenLink
    <2>2. AnswerComes' /\ Unasked' /\ PolledInv'
      BY <2>1 DEF AnswerComes, Unasked, PolledInv
    <2>3. Faithful'
      BY <2>1 DEF Faithful
    <2> QED
      BY <1>1, <2>2, <2>3 DEF ScanInv
  <1>3. CASE Ask \/ ProbeHeard \/ NoBattery \/ ReadIdentity
    BY <1>1, <1>3, AskIdentity, HeardIdentity, SilentIdentity, ReadIdentityKeeps
  <1>4. CASE EndScan
    <2>1. /\ phase = "scan" /\ todo = {} /\ request = None /\ yielded = Nothing
          /\ ids \subseteq Address
      BY <1>4 DEF EndScan, ClientInv, RequestInv, PollInv, TypeOK
    <2>2. /\ phase' \in {"connect", "poll"} /\ todo' = Span(ids)
          /\ UNCHANGED <<wire, request, step, taken, ids, yielded>>
      BY <1>4 DEF EndScan, link
    <2>3. /\ ids \subseteq Span(ids)
          /\ \A a : Known(a) <=> a \in ids
      BY <2>1, LinkAssumption DEF Span, Known, Address
    <2>4. Owed \/ Absent => Stuck'
      BY <2>1, <2>2, <2>3 DEF Owed, Absent, Stuck
    <2>5. Faithful => \A a \in ids' : Exact(a)'
      BY <2>2 DEF Faithful, Exact
    <2> QED
      BY <1>1, <2>1, <2>2, <2>4, <2>5 DEF AnswerComes, Unasked, ScanInv, PolledInv
  <1>5. CASE ReadValues
    <2>1. /\ phase = "poll" /\ request.addr \in todo
          /\ Own(request.addr, "values") \in Deliverable
          /\ wire' = wire \ {Own(request.addr, "values")}
      BY <1>5, PollTakesOwn
    <2>2. /\ request # None /\ request' = None /\ todo' = todo \ {request.addr}
          /\ UNCHANGED <<phase, taken, ids, yielded>>
      BY <1>5 DEF ReadValues, Takes
    <2>3. /\ request.addr \in Present
          /\ \A q \in wire : q.addr = request.addr => q.own
      BY <2>1 DEF Deliverable, ClientInv, ValuesInv, Own
    <2>4. Stuck => Stuck'
      BY <2>1, <2>2, <2>3 DEF Stuck, Own
    <2> QED
      BY <1>1, <2>1, <2>2, <2>4 DEF AnswerComes, Unasked, ScanInv, PolledInv, Exact
  <1>6. CASE Yield
    <2>1. /\ phase = "poll" /\ todo = {} /\ UNCHANGED <<wire, request, phase, taken, ids>>
      BY <1>6 DEF Yield, link
    <2>2. ~Stuck
      BY <2>1 DEF Stuck
    <2> QED
      BY <1>1, <2>1, <2>2 DEF AnswerComes, Unasked, ScanInv, PolledInv, Exact
  <1>7. CASE Fails \/ LinkFails
    BY <1>1, <1>7, FailureShrinks DEF AnswerComes, Unasked, ScanInv, PolledInv, Exact
  <1>8. CASE Environment \/ UNCHANGED vars
    <2>1. UNCHANGED <<wire, request, phase, todo, step, taken, ids, yielded>>
      BY <1>8 DEF Environment, LinkDown, LoseReply, BecomeCalm, link, vars
    <2> QED
      BY <1>1, <2>1 DEF AnswerComes, Unasked, ScanInv, PolledInv, Owed, Absent, Faithful,
                        Stuck, Exact, Known, Done, First
  <1> QED
    BY <1>2, <1>3, <1>4, <1>5, <1>6, <1>7, <1>8 DEF Next, Client

(* On a bus that may delay and damage but never swallows a reply, a state  *)
(* is yielded only after a scan that got every identity from the battery   *)
(* it is listed for, although the scan compares none with the address      *)
(* (scan_for_batteries, poll_parameters).                                  *)
THEOREM PolledIdentityOwnAlways ==
    ASSUME BridgeKeeps = 0, ~Lossy
    PROVE  Spec => []PolledIdentityOwn
  <1>1. IdentityInv /\ [Next]_vars => IdentityInv'
    BY StepIdentity
  <1>2. IdentityInv => PolledIdentityOwn
    <2> SUFFICES ASSUME IdentityInv, yielded # Nothing, NEW a \in ids, NEW k \in Identity
                 PROVE  taken[a][k].addr = a /\ taken[a][k].kind = k
      BY DEF PolledIdentityOwn
    <2>1. taken[a][k] = Own(a, k)
      BY DEF IdentityInv, PolledInv, Exact
    <2> QED
      BY <2>1 DEF Own
  <1> QED
    BY <1>1, <1>2, InitIdentity, PTL DEF Spec
-----------------------------------------------------------------------------
(* Ghosts.  Every battery that the scan has passed has left at most one    *)
(* answer that was not taken: that of a probe nobody waited for, or the    *)
(* last of five if noise passed for the first.  An address where no        *)
(* battery answers gets on the list at the price of four of them.          *)
Batteries == Address \cap Present
Passed == Batteries \ todo
Ghosts == ids \ Present

\* How many of the four a ghost at the current address has used up.
Used == CASE step = "system" -> 1
          [] step = "management" -> 2
          [] step = "manufacturer" -> 3
          [] OTHER -> 0

Count ==
    /\ Cardinality(wire) + 4 * Cardinality(Ghosts) <= Cardinality(Passed) + 2
    /\ step = "probe" /\ request = None =>
          Cardinality(wire) + 4 * Cardinality(Ghosts) <= Cardinality(Passed)
    /\ step = "probe" \/ request = None =>
          Cardinality(wire) + 4 * Cardinality(Ghosts) <= Cardinality(Passed) + 1
    /\ \A a \in todo \ Present : First(a) =>
          Cardinality(wire) + 4 * Cardinality(Ghosts) + Used <= Cardinality(Passed)

GhostInv ==
    /\ ClientInv
    /\ IsFiniteSet(wire)
    /\ phase = "scan" => ids \cap todo = {} /\ Count
    /\ GhostsNeedBatteries

LEMMA Sizes ==
    ASSUME TypeOK
    PROVE  /\ IsFiniteSet(Batteries) /\ IsFiniteSet(Passed) /\ IsFiniteSet(Ghosts)
           /\ Cardinality(Batteries) \in Nat /\ Cardinality(Passed) \in Nat
           /\ Cardinality(Ghosts) \in Nat
           /\ Cardinality(Passed) <= Cardinality(Batteries)
  <1>1. ScanStart \in Int /\ ScanEnd \in Int
    BY LinkAssumption
  <1>2. IsFiniteSet(Address)
    BY <1>1, FS_Interval DEF Address
  <1>3. /\ Batteries \in SUBSET Address /\ Ghosts \in SUBSET Address
        /\ Passed \in SUBSET Batteries
    BY DEF Batteries, Passed, Ghosts, TypeOK
  <1>4. IsFiniteSet(Batteries) /\ IsFiniteSet(Ghosts)
    BY <1>2, <1>3, FS_Subset
  <1>5. IsFiniteSet(Passed) /\ Cardinality(Passed) <= Cardinality(Batteries)
    BY <1>3, <1>4, FS_Subset
  <1> QED
    BY <1>4, <1>5, FS_CardinalityType

\* Giving up on replies makes no more of them.
LEMMA OutdatedSize ==
    ASSUME NEW w, IsFiniteSet(w)
    PROVE  IsFiniteSet(Outdated(w)) /\ Cardinality(Outdated(w)) <= Cardinality(w)
  <1> DEFINE f == [r \in w |-> [addr |-> r.addr, kind |-> r.kind, own |-> FALSE]]
  <1>1. f \in [w -> Outdated(w)]
    BY DEF Outdated
  <1>2. \A q \in Outdated(w) : \E r \in w : f[r] = q
    BY DEF Outdated
  <1>3. f \in Surjection(w, Outdated(w))
    BY <1>1, <1>2 DEF Surjection
  <1> QED
    BY <1>3, FS_Surjection

LEMMA ShrinkSize ==
    ASSUME NEW v, NEW w, IsFiniteSet(w), v \subseteq w
    PROVE  /\ IsFiniteSet(v) /\ Cardinality(v) \in Nat /\ Cardinality(w) \in Nat
           /\ Cardinality(v) <= Cardinality(w)
  <1>1. v \in SUBSET w
    OBVIOUS
  <1>2. IsFiniteSet(v) /\ Cardinality(v) <= Cardinality(w)
    BY <1>1, FS_Subset
  <1> QED
    BY <1>2, FS_CardinalityType

LEMMA Room ==
    ASSUME NEW w \in Nat, NEW g \in Nat, NEW p \in Nat
    PROVE  /\ w + 4 * g <= p => w + 4 * g <= p + 1
           /\ w + 4 * g <= p + 1 => w + 4 * g <= p + 2
           /\ w + 4 * g <= p => w + 4 * g + 0 <= p
  OBVIOUS

LEMMA InitGhost == Init => GhostInv
  <1> SUFFICES ASSUME Init PROVE GhostInv
    OBVIOUS
  <1>1. TypeOK /\ ClientInv
    BY InitType, InitClient
  <1>2. Ghosts = {} /\ wire = {} /\ phase = "connect"
    BY DEF Init, Ghosts
  <1>3. Cardinality(Ghosts) = 0 /\ IsFiniteSet(wire)
    BY <1>2, FS_EmptySet
  <1> QED
    BY <1>1, <1>2, <1>3, Sizes DEF GhostInv, GhostsNeedBatteries, Ghosts, Batteries

LEMMA AskGhost ==
    ASSUME GhostInv, ClientInv', Ask
    PROVE  GhostInv'
  <1>1. PICK a \in todo : LET k == IF phase = "scan" THEN step ELSE "values" IN
           /\ First(a) /\ request = None /\ phase \in {"scan", "poll"}
           /\ k \in Kinds /\ a \in Address
           /\ request' = [addr |-> a, kind |-> k] /\ request' # None
           /\ wire' = Outdated(wire) \cup Answers(a, k)
           /\ UNCHANGED <<up, calm, phase, todo, step, taken, ids, result, yielded>>
    BY AskSends DEF ClientInv, GhostInv
  <1> DEFINE k == IF phase = "scan" THEN step ELSE "values"
  <1>2. /\ IsFiniteSet(wire) /\ IsFiniteSet(Outdated(wire))
        /\ Cardinality(wire) \in Nat /\ Cardinality(Outdated(wire)) \in Nat
        /\ Cardinality(Outdated(wire)) <= Cardinality(wire)
    BY OutdatedSize, FS_CardinalityType DEF GhostInv
  <1>3. CASE a \in Present
    <2>1. wire' = Outdated(wire) \cup {[addr |-> a, kind |-> k, own |-> TRUE]}
      BY <1>1, <1>3 DEF Answers
    <2>2. IsFiniteSet(wire') /\ Cardinality(wire') <= Cardinality(wire) + 1
      <3>1. \A x : /\ IsFiniteSet(Outdated(wire) \cup {x})
                   /\ Cardinality(Outdated(wire) \cup {x}) <= Cardinality(Outdated(wire)) + 1
        <4> TAKE x
        <4>1. /\ IsFiniteSet(Outdated(wire) \cup {x})
              /\ Cardinality(Outdated(wire) \cup {x}) =
                    IF x \in Outdated(wire) THEN Cardinality(Outdated(wire))
                                            ELSE Cardinality(Outdated(wire)) + 1
          BY <1>2, FS_AddElement
        <4> QED
          BY <1>2, <4>1
      <3>2. /\ IsFiniteSet(wire')
            /\ Cardinality(wire') <= Cardinality(Outdated(wire)) + 1
        BY <2>1, <3>1
      <3>3. Cardinality(wire') \in Nat
        BY <3>2, FS_CardinalityType
      <3> QED
        BY <1>2, <3>2, <3>3
    <2>3. Cardinality(wire') \in Nat
      BY <2>2, FS_CardinalityType
    <2>4. \A b \in todo : First(b) => b = a
      BY <1>1, OneFirst DEF GhostInv, ClientInv
    <2>5. phase = "scan" => Count'
      <3> SUFFICES ASSUME phase = "scan" PROVE Count'
        OBVIOUS
      <3>1. /\ Cardinality(wire) + 4 * Cardinality(Ghosts) <= Cardinality(Passed) + 1
            /\ step = "probe" =>
                 Cardinality(wire) + 4 * Cardinality(Ghosts) <= Cardinality(Passed)
        BY <1>1 DEF GhostInv, Count
      <3>2. /\ Ghosts' = Ghosts /\ Passed' = Passed
            /\ \A b \in todo' \ Present : ~First(b)'
        BY <1>1, <1>3, <2>4 DEF Ghosts, Passed, Batteries, First
      <3> QED
        BY <1>1, <1>2, <2>2, <2>3, <3>1, <3>2, Sizes DEF Count, GhostInv, ClientInv
    <2> QED
      BY <1>1, <2>2, <2>5 DEF GhostInv, GhostsNeedBatteries
  <1>4. CASE a \notin Present
    <2>1. wire' = Outdated(wire)
      BY <1>1, <1>4 DEF Answers
    <2>2. phase = "scan" => Count'
      <3> SUFFICES ASSUME phase = "scan" PROVE Count'
        OBVIOUS
      <3>1. Cardinality(wire) + 4 * Cardinality(Ghosts) + Used <= Cardinality(Passed)
        BY <1>1, <1>4 DEF GhostInv, Count
      <3>2. Ghosts' = Ghosts /\ Passed' = Passed /\ Used' = Used /\ Used \in Nat
        BY <1>1 DEF Ghosts, Passed, Batteries, Used
      <3>3. /\ Cardinality(Passed) \in Nat /\ Cardinality(Ghosts) \in Nat
            /\ Cardinality(wire') \in Nat
            /\ Cardinality(wire') <= Cardinality(wire)
        BY <1>2, <2>1, Sizes DEF GhostInv, ClientInv
      <3>4. Cardinality(wire') + 4 * Cardinality(Ghosts) + Used <= Cardinality(Passed)
        BY <1>2, <3>1, <3>2, <3>3
      <3>5. Cardinality(wire') + 4 * Cardinality(Ghosts) <= Cardinality(Passed)
        BY <3>2, <3>3, <3>4
      <3> QED
        BY <3>2, <3>3, <3>4, <3>5 DEF Count
    <2> QED
      BY <1>1, <1>2, <2>1, <2>2 DEF GhostInv, GhostsNeedBatteries
  <1> QED
    BY <1>3, <1>4

LEMMA HeardGhost ==
    ASSUME GhostInv, ClientInv', ProbeHeard
    PROVE  GhostInv'
  <1>1. phase = "scan" /\ request # None /\ step = "probe" /\ request.addr \in todo
        /\ First(request.addr)
    BY DEF ProbeHeard, GhostInv, ClientInv, RequestInv
  <1>2. /\ request' = None /\ step' = "serial" /\ wire' \subseteq wire
        /\ UNCHANGED <<phase, todo, ids>>
    BY DEF ProbeHeard, AllButOne
  <1>3. /\ IsFiniteSet(wire') /\ Cardinality(wire') \in Nat /\ Cardinality(wire) \in Nat
        /\ Cardinality(wire') <= Cardinality(wire)
    BY <1>2, ShrinkSize DEF GhostInv
  <1>4. /\ Cardinality(Passed) \in Nat /\ Cardinality(Ghosts) \in Nat
        /\ Ghosts' = Ghosts /\ Passed' = Passed /\ Used' = Used /\ Used = 0
        /\ \A b : First(b)' <=> First(b)
    BY <1>1, <1>2, Sizes DEF GhostInv, ClientInv, Ghosts, Passed, Batteries, Used, First
  <1>5. Count
    BY <1>1 DEF GhostInv
  <1>6. Cardinality(wire') + 4 * Cardinality(Ghosts) <= Cardinality(Passed) + 1
    BY <1>1, <1>3, <1>4, <1>5 DEF Count
  <1>7. \A b \in todo \ Present : First(b) =>
            Cardinality(wire') + 4 * Cardinality(Ghosts) <= Cardinality(Passed)
    BY <1>3, <1>4, <1>5 DEF Count
  <1>8. Count'
    BY <1>2, <1>3, <1>4, <1>6, <1>7 DEF Count
  <1> QED
    BY <1>2, <1>3, <1>8 DEF GhostInv, GhostsNeedBatteries

LEMMA SilentGhost ==
    ASSUME GhostInv, ClientInv', NoBattery
    PROVE  GhostInv'
  <1>1. phase = "scan" /\ request # None /\ step = "probe" /\ request.addr \in todo
        /\ First(request.addr) /\ request.addr \in Address
    BY DEF NoBattery, GhostInv, ClientInv, RequestInv, TypeOK
  <1>2. PICK a : a = request.addr
    OBVIOUS
  <1>3. /\ request' = None /\ step' = "probe" /\ wire' = wire /\ todo' = todo \ {a}
        /\ UNCHANGED <<phase, ids>>
    BY <1>1, <1>2 DEF NoBattery, Silence
  <1>4. /\ IsFiniteSet(Passed) /\ Cardinality(Passed) \in Nat
        /\ Cardinality(Ghosts) \in Nat /\ Cardinality(wire) \in Nat
        /\ Ghosts' = Ghosts /\ Used' = 0 /\ Used = 0
    BY <1>1, <1>3, Sizes, FS_CardinalityType DEF GhostInv, ClientInv, Ghosts, Used
  <1>5. Count
    BY <1>1 DEF GhostInv
  <1>6. Cardinality(wire) + 4 * Cardinality(Ghosts) <= Cardinality(Passed')
        /\ Cardinality(Passed') \in Nat
    <2>1. CASE a \in Present
      <3>1. Passed' = Passed \cup {a} /\ a \notin Passed
        BY <1>1, <1>2, <1>3, <2>1 DEF Passed, Batteries
      <3>2. Cardinality(Passed') = Cardinality(Passed) + 1
        BY <1>4, <3>1, FS_AddElement
      <3> QED
        BY <1>1, <1>4, <1>5, <3>2 DEF Count
    <2>2. CASE a \notin Present
      <3>1. Passed' = Passed
        BY <1>3, <2>2 DEF Passed, Batteries
      <3> QED
        BY <1>1, <1>2, <1>4, <1>5, <2>2, <3>1 DEF Count
    <2> QED
      BY <2>1, <2>2
  <1>7. Count'
    BY <1>3, <1>4, <1>6 DEF Count
  <1> QED
    BY <1>3, <1>7 DEF GhostInv, GhostsNeedBatteries

LEMMA ReadGhost ==
    ASSUME GhostInv, ClientInv', ReadIdentity
    PROVE  GhostInv'
  <1>1. /\ phase = "scan" /\ request # None /\ step \in Identity /\ request.kind = step
        /\ request.addr \in todo /\ First(request.addr) /\ request.addr \in Address
    BY DEF ReadIdentity, GhostInv, ClientInv, RequestInv, TypeOK, Identity
  <1>2. PICK a : a = request.addr
    OBVIOUS
  <1>3. PICK r \in wire : wire' = wire \ {r} /\ request' = None
    BY DEF ReadIdentity, Takes
  <1>4. /\ step' = After(step)
        /\ IF step = "manufacturer"
              THEN todo' = todo \ {a} /\ ids' = ids \cup {a}
              ELSE UNCHANGED <<todo, ids>>
        /\ phase' = phase
    BY <1>1, <1>2 DEF ReadIdentity
  <1>5. /\ IsFiniteSet(Passed) /\ Cardinality(Passed) \in Nat
        /\ IsFiniteSet(Ghosts) /\ Cardinality(Ghosts) \in Nat
        /\ Cardinality(Batteries) \in Nat /\ Cardinality(wire) \in Nat
        /\ Cardinality(Passed) <= Cardinality(Batteries)
    BY Sizes, FS_CardinalityType DEF GhostInv, ClientInv
  <1>6. IsFiniteSet(wire') /\ Cardinality(wire') = Cardinality(wire) - 1
        /\ Cardinality(wire') \in Nat
    <2>1. IsFiniteSet(wire')
      BY <1>3, FS_RemoveElement DEF GhostInv
    <2>2. Cardinality(wire') = Cardinality(wire) - 1
      BY <1>3, FS_RemoveElement DEF GhostInv
    <2> QED
      BY <2>1, <2>2, FS_CardinalityType
  <1>7. Count /\ ids \cap todo = {}
    BY <1>1 DEF GhostInv
  <1>8. CASE step # "manufacturer"
    <2>1. /\ Ghosts' = Ghosts /\ Passed' = Passed /\ Used' = Used + 1 /\ Used \in Nat
          /\ UNCHANGED <<todo, ids>> /\ step' # "probe"
          /\ \A b : First(b)' <=> First(b)
      BY <1>1, <1>4, <1>8
         DEF Ghosts, Passed, Batteries, Used, After, Identity, First
    <2>2. Cardinality(wire') + 4 * Cardinality(Ghosts) <= Cardinality(Passed) + 1
      BY <1>5, <1>6, <1>7 DEF Count
    <2>3. \A b \in todo \ Present : First(b) =>
              Cardinality(wire') + 4 * Cardinality(Ghosts) + (Used + 1) <= Cardinality(Passed)
      BY <1>5, <1>6, <1>7, <2>1 DEF Count
    <2>4. Count'
      <3>1. Cardinality(wire') + 4 * Cardinality(Ghosts') <= Cardinality(Passed') + 1
        BY <2>1, <2>2
      <3>2. Cardinality(wire') + 4 * Cardinality(Ghosts') <= Cardinality(Passed') + 2
        BY <1>5, <1>6, <2>1, <2>2, Room
      <3>3. \A b \in todo' \ Present : First(b)' =>
                Cardinality(wire') + 4 * Cardinality(Ghosts') + Used' <= Cardinality(Passed')
        BY <2>1, <2>3
      <3> QED
        BY <2>1, <3>1, <3>2, <3>3 DEF Count
    <2> QED
      BY <1>4, <1>6, <1>7, <2>1, <2>4 DEF GhostInv, GhostsNeedBatteries
  <1>9. CASE step = "manufacturer"
    <2>1. /\ todo' = todo \ {a} /\ ids' = ids \cup {a} /\ step' = "probe"
          /\ Used = 3 /\ Used' = 0 /\ ids' \cap todo' = {}
      BY <1>4, <1>7, <1>9 DEF Used, After
    <2>2. CASE a \in Present
      <3>1. Passed' = Passed \cup {a} /\ a \notin Passed /\ Ghosts' = Ghosts
        BY <1>1, <1>2, <2>1, <2>2 DEF Passed, Batteries, Ghosts
      <3>2. Cardinality(Passed') = Cardinality(Passed) + 1
        BY <1>5, <3>1, FS_AddElement
      <3>3. Cardinality(wire') + 4 * Cardinality(Ghosts) <= Cardinality(Passed')
        BY <1>5, <1>6, <1>7, <3>2 DEF Count
      <3>4. Cardinality(Passed') \in Nat /\ Cardinality(Ghosts') = Cardinality(Ghosts)
        BY <1>5, <3>1, <3>2
      <3>5. Count'
        <4>1. Cardinality(Ghosts') \in Nat /\ Cardinality(Passed') \in Nat
          BY <1>5, <3>1, <3>4
        <4>2. Cardinality(wire') + 4 * Cardinality(Ghosts') <= Cardinality(Passed')
          BY <3>1, <3>3, <3>4
        <4>3. /\ Cardinality(wire') + 4 * Cardinality(Ghosts') <= Cardinality(Passed') + 1
              /\ Cardinality(wire') + 4 * Cardinality(Ghosts') <= Cardinality(Passed') + 2
              /\ Cardinality(wire') + 4 * Cardinality(Ghosts') + Used' <= Cardinality(Passed')
          BY <1>6, <2>1, <4>1, <4>2, Room
        <4> QED
          BY <4>2, <4>3 DEF Count
      <3>6. GhostsNeedBatteries'
        BY <3>1 DEF GhostInv, GhostsNeedBatteries, Ghosts
      <3> QED
        BY <1>6, <2>1, <3>5, <3>6 DEF GhostInv
    <2>3. CASE a \notin Present
      <3>1. Passed' = Passed /\ Ghosts' = Ghosts \cup {a} /\ a \notin Ghosts
        BY <1>1, <1>2, <1>7, <2>1, <2>3 DEF Passed, Batteries, Ghosts
      <3>2. Cardinality(Ghosts') = Cardinality(Ghosts) + 1
        BY <1>5, <3>1, FS_AddElement
      <3>3. Cardinality(wire) + 4 * Cardinality(Ghosts) + 3 <= Cardinality(Passed)
        BY <1>1, <1>2, <1>7, <2>1, <2>3 DEF Count
      <3>4. Cardinality(wire') + 4 * Cardinality(Ghosts') <= Cardinality(Passed)
        BY <1>5, <1>6, <3>2, <3>3
      <3>5. Count'
        <4>1. Cardinality(Ghosts') \in Nat /\ Cardinality(Passed') \in Nat
          BY <1>5, <3>1, <3>2
        <4>2. Cardinality(wire') + 4 * Cardinality(Ghosts') <= Cardinality(Passed')
          BY <3>1, <3>4
        <4>3. /\ Cardinality(wire') + 4 * Cardinality(Ghosts') <= Cardinality(Passed') + 1
              /\ Cardinality(wire') + 4 * Cardinality(Ghosts') <= Cardinality(Passed') + 2
              /\ Cardinality(wire') + 4 * Cardinality(Ghosts') + Used' <= Cardinality(Passed')
          BY <1>6, <2>1, <4>1, <4>2, Room
        <4> QED
          BY <4>2, <4>3 DEF Count
      <3>6. 4 * Cardinality(Ghosts') <= Cardinality(Batteries)
        BY <1>5, <1>6, <3>2, <3>4
      <3>7. GhostsNeedBatteries'
        BY <3>6 DEF GhostsNeedBatteries, Ghosts, Batteries
      <3> QED
        BY <1>6, <2>1, <3>5, <3>7 DEF GhostInv
    <2> QED
      BY <2>2, <2>3
  <1> QED
    BY <1>8, <1>9

LEMMA StepGhost ==
    ASSUME BridgeKeeps = 0, GhostInv, [Next]_vars
    PROVE  GhostInv'
  <1>1. ClientInv' /\ TypeOK'
    BY StepClient DEF GhostInv, ClientInv
  <1>2. CASE Connect
    <2>1. /\ wire' = {} /\ request' = None /\ phase' = "scan" /\ todo' = Address
          /\ step' = "probe" /\ ids' = {}
      BY <1>2 DEF Connect, OpenLink
    <2>2. Ghosts' = {} /\ Passed' = {} /\ Used' = 0
      BY <2>1 DEF Ghosts, Passed, Batteries, Used
    <2>3. /\ IsFiniteSet(wire') /\ Cardinality(wire') = 0
          /\ Cardinality(Ghosts') = 0 /\ Cardinality(Passed') = 0
      BY <2>1, <2>2, FS_EmptySet
    <2>4. Count'
      BY <2>1, <2>2, <2>3 DEF Count
    <2>5. Cardinality(Batteries) \in Nat
      BY Sizes DEF GhostInv, ClientInv
    <2>6. GhostsNeedBatteries'
      BY <2>3, <2>5 DEF GhostsNeedBatteries, Ghosts, Batteries
    <2> QED
      BY <1>1, <2>1, <2>3, <2>4, <2>6 DEF GhostInv
  <1>3. CASE Ask \/ ProbeHeard \/ NoBattery \/ ReadIdentity
    BY <1>1, <1>3, AskGhost, HeardGhost, SilentGhost, ReadGhost
  <1>4. CASE EndScan \/ ReadValues \/ Yield \/ Fails \/ LinkFails
    <2>1. wire' \subseteq wire /\ ids' = ids /\ phase' # "scan"
      <3>1. CASE ReadValues
        BY <3>1, PollTakesOwn DEF ReadValues, GhostInv
      <3>2. CASE EndScan \/ Yield
        BY <3>2 DEF EndScan, Yield, link
      <3> QED
        BY <1>4, <3>1, <3>2, FailureShrinks
    <2> QED
      BY <1>1, <2>1, ShrinkSize DEF GhostInv, GhostsNeedBatteries
  <1>5. CASE Environment \/ UNCHANGED vars
    <2>1. wire' \subseteq wire /\ UNCHANGED <<request, phase, todo, step, ids>>
      BY <1>5 DEF Environment, LinkDown, LoseReply, BecomeCalm, link, vars
    <2>2. /\ IsFiniteSet(wire') /\ Cardinality(wire') \in Nat /\ Cardinality(wire) \in Nat
          /\ Cardinality(wire') <= Cardinality(wire)
      BY <2>1, ShrinkSize DEF GhostInv
    <2>3. /\ Cardinality(Passed) \in Nat /\ Cardinality(Ghosts) \in Nat /\ Used \in Nat
          /\ Ghosts' = Ghosts /\ Passed' = Passed /\ Used' = Used
          /\ \A b : First(b)' <=> First(b)
      BY <2>1, Sizes DEF GhostInv, ClientInv, Ghosts, Passed, Batteries, Used, First
    <2>4. Count => Count'
      <3>1. ASSUME NEW n \in Nat, Cardinality(wire) + 4 * Cardinality(Ghosts) <= n
            PROVE  Cardinality(wire') + 4 * Cardinality(Ghosts) <= n
        BY <2>2, <2>3, <3>1
      <3>2. ASSUME Cardinality(wire) + 4 * Cardinality(Ghosts) + Used <= Cardinality(Passed)
            PROVE  Cardinality(wire') + 4 * Cardinality(Ghosts) + Used <= Cardinality(Passed)
        BY <2>2, <2>3, <3>2
      <3> QED
        BY <2>1, <2>2, <2>3, <3>1, <3>2 DEF Count
    <2> QED
      BY <1>1, <2>1, <2>2, <2>4 DEF GhostInv, GhostsNeedBatteries
  <1> QED
    BY <1>2, <1>3, <1>4, <1>5 DEF Next, Client

(* Whatever the range and however many batteries there are: for each       *)
(* address on the list where none answers there are four that do, so that  *)
(* a small stack is always scanned right (scan_for_batteries).             *)
THEOREM GhostsNeedBatteriesAlways ==
    ASSUME BridgeKeeps = 0
    PROVE  Spec => []GhostsNeedBatteries
  <1>1. GhostInv /\ [Next]_vars => GhostInv'
    BY StepGhost
  <1>2. GhostInv => GhostsNeedBatteries
    BY DEF GhostInv
  <1> QED
    BY <1>1, <1>2, InitGhost, PTL DEF Spec
=============================================================================
