----------------------- MODULE AdapterSession_proofs -----------------------
(***************************************************************************)
(* What holds of AdapterSession for every address range, every set of      *)
(* modules and every pair of delays.                                       *)
(***************************************************************************)
EXTENDS AdapterRefinement, TLAPS

(* Giving up on replies changes nothing but their mark.                    *)
LEMMA OutdatedType ==
    ASSUME NEW w, w \subseteq Reply
    PROVE  Outdated(w) \subseteq Reply
  <1> SUFFICES ASSUME NEW q \in w
               PROVE  [addr |-> q.addr, kind |-> q.kind, own |-> FALSE] \in Reply
    BY DEF Outdated
  <1>1. q.addr \in Address /\ q.kind \in Kinds
    BY DEF Reply
  <1> QED
    BY <1>1 DEF Reply

LEMMA AnswersType ==
    ASSUME NEW a \in Address, NEW k \in Kinds
    PROVE  Answers(a, k) \subseteq Reply
  <1>1. [addr |-> a, kind |-> k, own |-> TRUE] \in Reply
    BY DEF Reply
  <1> QED
    BY <1>1 DEF Answers

(* However a request ends, nothing new gets on the wire.                   *)
LEMMA OutcomeShrinks ==
    ASSUME RequestFails \/ \E r \in wire : Answered(r)
    PROVE  wire' \subseteq wire /\ request' = None
  BY DEF RequestFails, Answered, Unparsed, Garbled, TimedOut, IoError, AllButOne

LEMMA OutcomeType ==
    ASSUME LinkTypeOK,
           RequestFails \/ \E r \in wire : Answered(r)
    PROVE  wire' \subseteq Reply /\ request' \in Request \cup {None}
  BY OutcomeShrinks DEF LinkTypeOK

LEMMA VisitedType ==
    ASSUME NEW a, NEW then \in Phases, Visited(a, then),
           phase \in Phases, todo \subseteq Address, modules \subseteq Address
    PROVE  phase' \in Phases /\ todo' \subseteq Address
  BY DEF Visited

LEMMA NextDelayType ==
    ASSUME current \in InitialDelay..MaxDelay, NextDelay
    PROVE  current' \in InitialDelay..MaxDelay
  BY DelayAssumption DEF NextDelay

LEMMA InitType == Init => TypeOK
  <1> USE DEF Phases, InSession, DataKinds, Frame, LinkTypeOK
  <1> SUFFICES ASSUME Init PROVE TypeOK
    OBVIOUS
  <1>1. current \in InitialDelay..MaxDelay
    BY DelayAssumption DEF Init
  <1>2. announced \in [Address -> Frame \X Frame]
    BY DEF Init
  <1> QED
    BY <1>1, <1>2 DEF Init, TypeOK, Nothing

LEMMA StepType ==
    ASSUME TypeOK, [Next]_vars
    PROVE  TypeOK'
  <1> USE DEF Phases, InSession, DataKinds, Frame, LinkTypeOK
  <1>1. CASE ConnectMqtt
    BY <1>1 DEF ConnectMqtt, TypeOK, link, scanned, published
  <1>2. CASE ConnectMqttFails
    BY <1>2, NextDelayType DEF ConnectMqttFails, TypeOK, link, scanned, published
  <1>3. CASE Dial
    <2>1. wire' \subseteq Reply /\ request' = None /\ up' = TRUE
      BY <1>3, OutdatedType DEF Dial, OpenLink, TypeOK
    <2>2. announced' \in [Address -> Frame \X Frame]
      BY <1>3 DEF Dial, Afresh
    <2> QED
      BY <1>3, <2>1, <2>2 DEF Dial, Afresh, Nothing, TypeOK
  <1>4. CASE DialFails
    BY <1>4 DEF DialFails, TypeOK, link, scanned, published
  <1>5. CASE Ask
    <2>1. PICK a \in todo : Send(a, IF phase = "scan" THEN step ELSE phase)
      BY <1>5 DEF Ask
    <2>2. (IF phase = "scan" THEN step ELSE phase) \in Kinds
      BY <1>5 DEF Ask, Asking, TypeOK, Kinds
    <2>3. request' \in Request
      BY <2>1, <2>2 DEF Send, TypeOK, Request
    <2>4. wire' \subseteq Reply
      BY <2>1, <2>2, OutdatedType, AnswersType DEF Send, TypeOK
    <2> QED
      BY <1>5, <2>3, <2>4 DEF Ask, TypeOK, scanned, published
  <1>6. CASE ReadSerial
    BY <1>6, OutcomeType DEF ReadSerial, TypeOK, published
  <1>7. CASE ReadMaker
    BY <1>7, OutcomeType DEF ReadMaker, TypeOK, published
  <1>8. CASE FindModule
    <2>1. request.addr \in Address
      BY <1>8 DEF FindModule, Answered, TypeOK, Request
    <2> QED
      BY <1>8, <2>1, OutcomeType DEF FindModule, TypeOK, published
  <1>9. CASE ProbeFails
    BY <1>9, OutcomeType DEF ProbeFails, TypeOK, scanned, published
  <1>10. CASE EndScan
    BY <1>10 DEF EndScan, TypeOK, link, scanned, published
  <1>11. CASE AnnounceModule
    <2>1. PICK a \in todo : /\ announced' = [announced EXCEPT ![a] = <<serial[a], maker[a]>>]
                            /\ Visited(a, "system")
      BY <1>11 DEF AnnounceModule
    <2>2. announced' \in [Address -> Frame \X Frame]
      BY <2>1 DEF TypeOK
    <2> QED
      BY <1>11, <2>1, <2>2, VisitedType DEF AnnounceModule, TypeOK, link, scanned
  <1>12. CASE ReadSystem
    <2>1. PICK r \in wire :
             /\ Answered(r)
             /\ topic' = [topic EXCEPT !["system"][request.addr] = r]
      BY <1>12 DEF ReadSystem
    <2>2. topic' \in [DataKinds -> [Address -> Frame]]
      BY <2>1 DEF TypeOK
    <2> QED
      BY <1>12, <2>1, <2>2, OutcomeType, VisitedType DEF ReadSystem, TypeOK, scanned
  <1>13. CASE Check
    BY <1>13 DEF Check, TypeOK, link, scanned, published, Nothing
  <1>14. CASE ReadManagement
    <2>1. PICK r \in wire :
             /\ Answered(r)
             /\ topic' = [topic EXCEPT !["management"][request.addr] = r]
      BY <1>14 DEF ReadManagement
    <2>2. topic' \in [DataKinds -> [Address -> Frame]]
      BY <2>1 DEF TypeOK
    <2> QED
      BY <1>14, <2>1, <2>2, OutcomeType, VisitedType DEF ReadManagement, TypeOK, scanned
  <1>15. CASE ReadValues
    <2>1. wire' \subseteq Reply /\ request' \in Request \cup {None}
      BY <1>15, OutcomeType DEF ReadValues, TypeOK
    <2>2. phase' \in Phases /\ todo' \subseteq Address
      BY <1>15, VisitedType DEF ReadValues, TypeOK
    <2>3. states' \in [Address -> Frame]
      BY <1>15 DEF ReadValues, TypeOK
    <2> QED
      BY <1>15, <2>1, <2>2, <2>3 DEF ReadValues, TypeOK, scanned, published
  <1>16. CASE PublishStack
    <2>1. stack' \subseteq Reply
      BY <1>16 DEF PublishStack, TypeOK
    <2> QED
      BY <1>16, <2>1 DEF PublishStack, TypeOK, link, scanned
  <1>17. CASE PublishState
    <2>1. PICK a \in todo :
             /\ topic' = [topic EXCEPT !["values"][states[a].addr] = states[a]]
             /\ Visited(a, "sleep")
      BY <1>17 DEF PublishState
    <2>2. topic' \in [DataKinds -> [Address -> Frame]]
      BY <2>1 DEF TypeOK
    <2> QED
      BY <1>17, <2>1, <2>2, VisitedType DEF PublishState, TypeOK, link, scanned
  <1>18. CASE Sleep
    BY <1>18 DEF Sleep, TypeOK, link, scanned, published
  <1>19. CASE PollFails
    BY <1>19, OutcomeType DEF PollFails, TypeOK, scanned, published
  <1>20. CASE PublishFails
    BY <1>20, OutcomeType DEF PublishFails, TypeOK, link, scanned, published
  <1>21. CASE FailSession
    BY <1>21, NextDelayType DEF FailSession, TypeOK, scanned, published
  <1>22. CASE Reconnect
    BY <1>22 DEF Reconnect, TypeOK, link, scanned, published
  <1>23. CASE Environment
    <2>1. CASE ManagementDue
      BY <2>1 DEF ManagementDue, TypeOK, link, scanned, published
    <2>2. CASE MqttDown
      BY <2>2 DEF MqttDown, TypeOK, link, scanned, published
    <2>3. CASE /\ LinkDown \/ LoseReply \/ BecomeCalm
               /\ UNCHANGED <<phase, todo, step, scanned, states, due, healthy,
                              published, current>>
      <3>1. wire' \subseteq wire /\ request' = request /\ up' \in {up, FALSE}
            /\ calm' \in {calm, TRUE}
        BY <2>3 DEF LinkDown, LoseReply, BecomeCalm, link
      <3>2. LinkTypeOK'
        BY <3>1 DEF TypeOK
      <3> QED
        BY <2>3, <3>2 DEF TypeOK, scanned, published
    <2> QED
      BY <1>23, <2>1, <2>2, <2>3 DEF Environment
  <1>24. CASE UNCHANGED vars
    BY <1>24 DEF vars, TypeOK
  <1> QED
    BY <1>1, <1>2, <1>3, <1>4, <1>5, <1>6, <1>7, <1>8, <1>9, <1>10, <1>11, <1>12,
       <1>13, <1>14, <1>15, <1>16, <1>17, <1>18, <1>19, <1>20, <1>21, <1>22,
       <1>23, <1>24 DEF Next, Thread

(* Every variable keeps its type; in particular the reconnect delay stays  *)
(* between its configured bounds (ReconnectBackoff::next_delay).           *)
THEOREM TypeCorrect == Spec => []TypeOK
  <1> QED
    BY InitType, StepType, PTL DEF Spec
-----------------------------------------------------------------------------
(* A reply that answers no outstanding request.                            *)
Late(r) == ~r.own \/ request = None

(* The request at hand is the one the loop is at, and no other request has *)
(* an answer of its own under way.                                         *)
RequestInv ==
    phase \in {"scan"} \cup InSession /\ request # None =>
        /\ First(request.addr)
        /\ request.kind = IF phase = "scan" THEN step ELSE phase
        /\ \A r \in wire : r.own => r.addr = request.addr /\ r.kind = request.kind

(* During the scan only values can do harm later, and an address whose     *)
(* values are still under way has been given up.                           *)
ScanInv ==
    phase = "scan" =>
        /\ \A a \in modules : a \notin todo
        /\ \A r \in wire :
              /\ r.kind \notin {"system", "management"}
              /\ r.kind = "values" => r.addr \notin modules
              /\ r.kind = "values" /\ Late(r) => r.addr \notin todo

(* After the scan the loops visit modules only, and LateRepliesHarmless    *)
(* holds of every reply that answers no outstanding request.               *)
SessionInv ==
    phase \in InSession =>
        /\ todo \subseteq modules
        /\ \A r \in wire : Late(r) =>
              /\ r.kind \notin {"system", "management"}
              /\ r.kind = "values" => r.addr \notin modules

StatesInv == \A a \in Address : states[a] \in {None, Own(a, "values")}

IInv ==
    /\ TypeOK
    /\ RequestInv
    /\ ScanInv
    /\ SessionInv
    /\ StatesInv
    /\ PublishedOwn

\* The parser of a poll accepts nothing but the answer to that poll.
LEMMA AnswerIsOwn ==
    ASSUME IInv, phase \in DataKinds, NEW r \in wire, Answered(r)
    PROVE  /\ request.addr \in Address
           /\ r = Own(request.addr, phase)
  <1>1. /\ request # None /\ request \in Request
        /\ request.addr \in todo /\ request.kind = phase
        /\ r.own => r.addr = request.addr /\ r.kind = request.kind
    BY DEF Answered, IInv, RequestInv, TypeOK, LinkTypeOK, InSession, DataKinds, First
  <1>2. request.addr \in Address /\ request.addr \in modules /\ r \in Reply
    BY <1>1 DEF IInv, SessionInv, TypeOK, LinkTypeOK, InSession
  <1>3. r.kind \in Kinds /\ Parses(request, r)
    BY <1>2 DEF Reply, Answered
  <1>4. r.own
    <2> SUFFICES ASSUME ~r.own PROVE FALSE
      OBVIOUS
    <2>1. /\ r.kind \notin {"system", "management"}
          /\ r.kind = "values" => r.addr \notin modules
      BY DEF IInv, SessionInv, Late, InSession
    <2>2. r.kind \in {"probe", "serial", "manufacturer", "values"}
      BY <1>3, <2>1 DEF Kinds
    <2>3. InfoLen[r.kind] \notin {10, 25}
      BY <2>2, ReplyLengths
    <2> QED
      BY <1>1, <1>2, <1>3, <2>1, <2>3 DEF Parses, DataKinds
  <1> QED
    BY <1>1, <1>2, <1>4 DEF Own, Reply

\* A phase outside the session asks nothing of the link.
LEMMA OutsideSession ==
    ASSUME IInv, TypeOK', phase' \notin {"scan"} \cup InSession,
           UNCHANGED <<states, topic, stack>>
    PROVE  IInv'
  BY DEF IInv, RequestInv, ScanInv, SessionInv, StatesInv, PublishedOwn

LEMMA InitInv == Init => IInv
  BY InitType DEF Init, IInv, RequestInv, ScanInv, SessionInv, StatesInv,
                  PublishedOwn, InSession, DataKinds, Nothing

LEMMA StepInv ==
    ASSUME IInv, [Next]_vars, BridgeKeeps = 0
    PROVE  IInv'
  <1> USE DEF InSession, DataKinds
  <1>1. TypeOK /\ TypeOK'
    BY StepType DEF IInv
  <1>2. CASE ConnectMqtt \/ ConnectMqttFails \/ DialFails \/ FailSession \/ Reconnect
    BY <1>1, <1>2, OutsideSession DEF ConnectMqtt, ConnectMqttFails, DialFails,
                                      FailSession, Reconnect, published
  <1>3. CASE PollFails \/ PublishFails
    BY <1>1, <1>3, OutsideSession DEF PollFails, PublishFails, published
  <1>4. CASE Dial
    <2>1. /\ phase' = "scan" /\ wire' = {} /\ request' = None /\ modules' = {}
          /\ states' = Nothing /\ topic' = [k \in DataKinds |-> Nothing] /\ stack' = {}
      BY <1>4 DEF Dial, OpenLink, Afresh
    <2> QED
      BY <1>1, <2>1 DEF IInv, RequestInv, ScanInv, SessionInv, StatesInv,
                        PublishedOwn, Nothing
  <1>5. CASE Ask
    <2>1. PICK a \in todo :
             First(a) /\ Send(a, IF phase = "scan" THEN step ELSE phase)
      BY <1>5 DEF Ask
    <2>2. /\ request = None /\ request' = [addr |-> a, kind |-> IF phase = "scan" THEN step ELSE phase]
          /\ wire' = Outdated(wire) \cup Answers(a, IF phase = "scan" THEN step ELSE phase)
      BY <2>1 DEF Send
    <2>3. UNCHANGED <<phase, todo, step, modules, states, topic, stack>>
      BY <1>5 DEF Ask, scanned, published
    <2>4. ASSUME NEW r \in wire'
          PROVE  \/ r.own /\ r.addr = request'.addr /\ r.kind = request'.kind
                 \/ ~r.own /\ \E q \in wire : q.addr = r.addr /\ q.kind = r.kind
      BY <2>2 DEF Outdated, Answers
    <2>5. RequestInv'
      BY <2>1, <2>2, <2>3, <2>4 DEF RequestInv, First
    <2>6. request' # None
      <3>1. (IF phase = "scan" THEN step ELSE phase) \in Kinds /\ a \in Address
        BY <1>1, <1>5 DEF Ask, Asking, TypeOK, Kinds
      <3> QED
        BY <2>2, <3>1, LinkAssumption DEF Request
    <2>7. ScanInv'
      <3> SUFFICES ASSUME phase = "scan"
                   PROVE  ScanInv'
        BY <2>3 DEF ScanInv
      <3>1. /\ \A q \in wire : q.kind \notin {"system", "management"}
            /\ \A q \in wire : q.kind = "values" => q.addr \notin modules /\ q.addr \notin todo
            /\ \A b \in modules : b \notin todo
        BY <2>2 DEF IInv, ScanInv, Late
      <3>2. request'.kind = step /\ request'.addr \in todo
        BY <2>1, <2>2
      <3>3. step \notin {"system", "management"}
        BY <1>1 DEF TypeOK
      <3>4. ASSUME NEW r \in wire'
            PROVE  /\ r.kind \notin {"system", "management"}
                   /\ r.kind = "values" => r.addr \notin modules
                   /\ r.kind = "values" /\ ~r.own => r.addr \notin todo
        BY <2>4, <3>1, <3>2, <3>3
      <3> QED
        BY <2>3, <2>6, <3>1, <3>4 DEF ScanInv, Late
    <2>8. SessionInv'
      <3> SUFFICES ASSUME phase \in InSession
                   PROVE  SessionInv'
        BY <2>3 DEF SessionInv
      <3>1. \A q \in wire : /\ q.kind \notin {"system", "management"}
                            /\ q.kind = "values" => q.addr \notin modules
        BY <2>2 DEF IInv, SessionInv, Late
      <3>2. todo' \subseteq modules'
        BY <2>3 DEF IInv, SessionInv
      <3>3. ASSUME NEW r \in wire', ~r.own
            PROVE  /\ r.kind \notin {"system", "management"}
                   /\ r.kind = "values" => r.addr \notin modules
        BY <2>4, <3>1, <3>3
      <3> QED
        BY <2>3, <2>6, <3>2, <3>3 DEF SessionInv, Late
    <2> QED
      BY <1>1, <2>3, <2>5, <2>7, <2>8 DEF IInv, StatesInv, PublishedOwn
  <1>6. CASE ReadSerial \/ ReadMaker
    <2>1. PICK r \in wire : Answered(r)
      BY <1>6 DEF ReadSerial, ReadMaker
    <2>2. /\ request # None /\ request' = None /\ wire' \subseteq wire
          /\ phase = "scan" /\ phase' = "scan" /\ step # "values"
          /\ UNCHANGED <<todo, modules, states, topic, stack>>
      BY <1>6, <2>1 DEF ReadSerial, ReadMaker, Answered, published
    <2>3. \A q \in wire : q.kind = "values" => ~q.own
      BY <2>2 DEF IInv, RequestInv
    <2> QED
      BY <1>1, <2>2, <2>3 DEF IInv, RequestInv, ScanInv, SessionInv, StatesInv,
                              PublishedOwn, Late
  <1>7. CASE FindModule
    <2>1. PICK r \in wire : Answered(r)
      BY <1>7 DEF FindModule
    <2> DEFINE a == request.addr
    <2>2. /\ request # None /\ request' = None /\ wire' = wire \ {r}
          /\ phase = "scan" /\ phase' = "scan" /\ step = "values"
          /\ modules' = modules \cup {a} /\ todo' = todo \ {a}
          /\ UNCHANGED <<states, topic, stack>>
      BY <1>7, <2>1 DEF FindModule, Answered, published
    <2>3. /\ a \in todo /\ request.kind = "values"
          /\ \A q \in wire : q.own => q.addr = a /\ q.kind = "values"
      BY <2>2 DEF IInv, RequestInv, First
    <2>4. r.kind = "values" /\ r.addr = a
      BY <2>1, <2>3 DEF Answered, Parses
    <2>5. \A q \in wire : q.kind = "values" /\ q.addr = a => q = r
      <3>1. \A q \in wire : q.kind = "values" /\ q.addr = a => q.own
        BY <2>2, <2>3 DEF IInv, ScanInv, Late
      <3>2. \A q \in wire : q \in Reply
        BY <1>1 DEF TypeOK, LinkTypeOK
      <3> QED
        BY <2>4, <3>1, <3>2 DEF Reply
    <2>6. \A q \in wire' : q.kind = "values" =>
             q.addr # a /\ q.addr \notin modules /\ q.addr \notin todo'
      BY <2>2, <2>3, <2>5 DEF IInv, ScanInv, Late
    <2> QED
      BY <1>1, <2>2, <2>6 DEF IInv, RequestInv, ScanInv, SessionInv, StatesInv,
                              PublishedOwn
  <1>8. CASE ProbeFails
    <2>1. PICK a \in todo : First(a) /\ todo' = todo \ {a}
      BY <1>8 DEF ProbeFails
    <2>2. /\ request' = None /\ wire' \subseteq wire
          /\ phase = "scan" /\ phase' = "scan"
          /\ UNCHANGED <<modules, states, topic, stack>>
      BY <1>8, OutcomeShrinks DEF ProbeFails, scanned, published
    <2>3. request # None => request.addr = a
      <3> SUFFICES ASSUME request # None PROVE request.addr = a
        OBVIOUS
      <3>1. First(request.addr)
        BY <2>2 DEF IInv, RequestInv
      <3>2. a \in Int /\ request.addr \in Int
        <4>1. \A b \in Address : b \in Int
          BY LinkAssumption DEF Address
        <4> QED
          BY <1>1, <2>1, <3>1, <4>1 DEF First, TypeOK
      <3> QED
        BY <2>1, <3>1, <3>2 DEF First
    <2>4. \A q \in wire : q.kind = "values" => q.addr \notin todo'
      BY <2>1, <2>2, <2>3 DEF IInv, RequestInv, ScanInv, Late
    <2> QED
      BY <1>1, <2>1, <2>2, <2>4 DEF IInv, RequestInv, ScanInv, SessionInv, StatesInv,
                                    PublishedOwn
  <1>9. CASE EndScan
    <2>1. request = None
      BY <1>9 DEF EndScan, IInv, RequestInv, First
    <2> QED
      BY <1>1, <1>9, <2>1 DEF EndScan, link, scanned, published, IInv, RequestInv,
                  ScanInv, SessionInv, StatesInv, PublishedOwn, Late
  <1>10. CASE AnnounceModule \/ Check \/ PublishStack \/ PublishState \/ Sleep
    <2>1. /\ request = None /\ UNCHANGED <<wire, request, modules>>
          /\ phase \in InSession /\ phase' \in InSession
          /\ todo \subseteq modules /\ todo' \subseteq modules
      <3>1. UNCHANGED <<wire, request, modules>> /\ phase \in InSession
        BY <1>10 DEF AnnounceModule, Check, PublishStack, PublishState, Sleep, link, scanned
      <3>2. request = None
        BY <1>1, <1>10 DEF AnnounceModule, Check, PublishStack, PublishState, Sleep,
                           IInv, RequestInv, TypeOK, LinkTypeOK, Request, Kinds
      <3>3. todo \subseteq modules
        BY <3>1 DEF IInv, SessionInv
      <3> QED
        BY <1>10, <3>1, <3>2, <3>3 DEF AnnounceModule, Check, PublishStack, PublishState,
                                       Sleep, Visited
    <2>2. RequestInv' /\ ScanInv' /\ SessionInv'
      BY <2>1 DEF IInv, RequestInv, ScanInv, SessionInv, Late
    <2>3. StatesInv'
      BY <1>10 DEF AnnounceModule, Check, PublishStack, PublishState, Sleep, scanned,
                   IInv, StatesInv, Nothing
    <2>4. PublishedOwn'
      <3>1. CASE AnnounceModule \/ Check \/ Sleep
        BY <3>1 DEF AnnounceModule, Check, Sleep, published, IInv, PublishedOwn
      <3>2. CASE PublishStack
        <4>1. stack' \subseteq {Own(a, "values") : a \in Address}
          BY <1>1, <3>2 DEF PublishStack, IInv, StatesInv, TypeOK
        <4> QED
          BY <3>2, <4>1 DEF PublishStack, IInv, PublishedOwn
      <3>3. CASE PublishState
        <4>1. PICK a \in todo :
                 topic' = [topic EXCEPT !["values"][states[a].addr] = states[a]]
          BY <3>3 DEF PublishState
        <4>2. a \in Address /\ states[a] \in {None, Own(a, "values")}
          BY <1>1, <4>1 DEF IInv, StatesInv, TypeOK
        <4>3. states[a] # None => states[a].addr = a
          BY <4>2 DEF Own
        <4>4. topic \in [DataKinds -> [Address -> Frame]]
          BY <1>1 DEF TypeOK
        <4>5. \A k \in DataKinds, b \in Address : topic'[k][b] \in {None, Own(b, k)}
          BY <4>1, <4>2, <4>3, <4>4 DEF IInv, PublishedOwn
        <4>6. stack' = stack
          BY <3>3 DEF PublishState
        <4> QED
          BY <4>5, <4>6 DEF IInv, PublishedOwn
      <3> QED
        BY <1>10, <3>1, <3>2, <3>3
    <2> QED
      BY <1>1, <2>2, <2>3, <2>4 DEF IInv
  <1>11. CASE ReadSystem \/ ReadManagement \/ ReadValues
    <2>1. PICK r \in wire :
             /\ Answered(r)
             /\ \/ /\ phase \in {"system", "management"}
                   /\ topic' = [topic EXCEPT ![phase][request.addr] = r]
                   /\ states' = states
                \/ /\ phase = "values"
                   /\ states' = [states EXCEPT ![request.addr] = r]
                   /\ topic' = topic
      BY <1>11 DEF ReadSystem, ReadManagement, ReadValues, published
    <2> DEFINE a == request.addr
    <2>2. phase \in DataKinds /\ a \in Address /\ r = Own(a, phase)
      BY <2>1, AnswerIsOwn
    <2>3. /\ request # None /\ request' = None /\ wire' = wire \ {r}
          /\ modules' = modules /\ stack' = stack
          /\ phase' \in InSession /\ todo' \subseteq modules
      <3>1. /\ modules' = modules /\ stack' = stack
            /\ \E then \in InSession : Visited(a, then)
        BY <1>11 DEF ReadSystem, ReadManagement, ReadValues, published, scanned
      <3>2. todo \subseteq modules
        BY <2>2 DEF IInv, SessionInv
      <3> QED
        BY <2>1, <2>2, <3>1, <3>2 DEF Answered, Visited
    <2>4. \A q \in wire' : ~q.own
      <3> SUFFICES ASSUME NEW q \in wire, q.own PROVE q = r
        BY <2>3
      <3>1. q.addr = a /\ q.kind = phase
        BY <2>2, <2>3 DEF IInv, RequestInv
      <3>2. q \in Reply
        BY <1>1 DEF TypeOK, LinkTypeOK
      <3> QED
        BY <2>2, <3>1, <3>2 DEF Reply, Own
    <2>5. RequestInv' /\ ScanInv' /\ SessionInv'
      BY <2>2, <2>3, <2>4 DEF IInv, RequestInv, ScanInv, SessionInv, Late
    <2>6. StatesInv' /\ PublishedOwn'
      <3>1. CASE phase \in {"system", "management"}
        <4>1. topic' = [topic EXCEPT ![phase][a] = Own(a, phase)] /\ states' = states
          BY <2>1, <2>2, <3>1
        <4>2. topic \in [DataKinds -> [Address -> Frame]]
          BY <1>1 DEF TypeOK
        <4>3. \A k \in DataKinds, b \in Address : topic'[k][b] \in {None, Own(b, k)}
          BY <2>2, <4>1, <4>2 DEF IInv, PublishedOwn
        <4> QED
          BY <2>3, <4>1, <4>3 DEF IInv, StatesInv, PublishedOwn
      <3>2. CASE phase = "values"
        <4>1. states' = [states EXCEPT ![a] = Own(a, "values")] /\ topic' = topic
          BY <2>1, <2>2, <3>2
        <4> QED
          BY <1>1, <2>2, <2>3, <4>1 DEF IInv, StatesInv, PublishedOwn, TypeOK
      <3> QED
        BY <2>2, <3>1, <3>2
    <2> QED
      BY <1>1, <2>5, <2>6 DEF IInv
  <1>12. CASE Environment
    <2>1. /\ wire' \subseteq wire
          /\ UNCHANGED <<request, phase, todo, step, modules, states, topic, stack>>
      BY <1>12 DEF Environment, ManagementDue, MqttDown, LinkDown, LoseReply, BecomeCalm,
                   link, scanned, published
    <2> QED
      BY <1>1, <2>1 DEF IInv, RequestInv, ScanInv, SessionInv, StatesInv, PublishedOwn,
                        Late, First
  <1>13. CASE UNCHANGED vars
    BY <1>1, <1>13 DEF vars, IInv, RequestInv, ScanInv, SessionInv, StatesInv,
                       PublishedOwn, Late, First
  <1> QED
    BY <1>2, <1>3, <1>4, <1>5, <1>6, <1>7, <1>8, <1>9, <1>10, <1>11, <1>12, <1>13
       DEF Next, Thread

(* On a bus that never replays the answers of an earlier connection, what  *)
(* is published for a module always is that module's own answer, for every *)
(* address range, every set of modules and every fault in between.         *)
THEOREM PublishedOwnAlways ==
    ASSUME BridgeKeeps = 0
    PROVE  Spec => []PublishedOwn
  <1>1. IInv => PublishedOwn
    BY DEF IInv
  <1>2. IInv /\ [Next]_vars => IInv'
    BY StepInv
  <1> QED
    BY <1>1, <1>2, InitInv, PTL DEF Spec

(* A session in which a poll went unanswered sends no further request, so  *)
(* late answers to its polls find nobody waiting.                          *)
THEOREM LateRepliesHarmlessAlways ==
    ASSUME BridgeKeeps = 0
    PROVE  Spec => []LateRepliesHarmless
  <1>1. IInv => LateRepliesHarmless
    BY DEF IInv, SessionInv, LateRepliesHarmless, Late
  <1>2. IInv /\ [Next]_vars => IInv'
    BY StepInv
  <1> QED
    BY <1>1, <1>2, InitInv, PTL DEF Spec
-----------------------------------------------------------------------------
(* The outstanding request is the one the loop at hand has made.           *)
AskInv ==
    phase \in {"scan"} \cup InSession /\ request # None =>
        /\ First(request.addr)
        /\ request.kind = IF phase = "scan" THEN step ELSE phase

(* A cycle has the states of the modules it has visited, each with the     *)
(* address of its module; this needs no assumption about the bridge.       *)
CycleInv ==
    /\ phase \in InSession => todo \subseteq modules
    /\ \A a \in Address : states[a] # None => states[a].addr = a
    /\ phase = "values" => \A a \in modules \ todo : states[a] # None
    /\ phase \in {"stack", "publish", "sleep"} => \A a \in modules : states[a] # None
    /\ phase \in {"publish", "sleep"} => stack = {states[a] : a \in modules}

CoverInv == TypeOK /\ AskInv /\ CycleInv

LEMMA InitCover == Init => CoverInv
  BY InitType DEF Init, CoverInv, AskInv, CycleInv, InSession, DataKinds, Nothing

LEMMA StepCover ==
    ASSUME CoverInv, [Next]_vars
    PROVE  CoverInv'
  <1> USE DEF InSession, DataKinds
  <1>1. TypeOK /\ TypeOK'
    BY StepType DEF CoverInv
  <1>2. CASE ConnectMqtt \/ ConnectMqttFails \/ DialFails \/ FailSession \/ Reconnect
             \/ PollFails \/ PublishFails
    <2>1. phase' \notin {"scan"} \cup InSession /\ states' = states
      BY <1>2 DEF ConnectMqtt, ConnectMqttFails, DialFails, FailSession, Reconnect,
                  PollFails, PublishFails
    <2> QED
      BY <1>1, <2>1 DEF CoverInv, AskInv, CycleInv
  <1>3. CASE Dial
    BY <1>1, <1>3 DEF Dial, OpenLink, Afresh, CoverInv, AskInv, CycleInv, Nothing
  <1>4. CASE Ask
    BY <1>1, <1>4 DEF Ask, Send, First, CoverInv, AskInv, CycleInv, scanned, published
  <1>5. CASE ReadSerial \/ ReadMaker \/ FindModule \/ ProbeFails \/ EndScan
    <2>1. CASE EndScan
      <3>1. request = None
        BY <2>1 DEF EndScan, CoverInv, AskInv, First
      <3> QED
        BY <1>1, <2>1, <3>1 DEF EndScan, link, scanned, CoverInv, AskInv, CycleInv
    <2>2. CASE ReadSerial \/ ReadMaker \/ FindModule \/ ProbeFails
      <3>1. phase = "scan" /\ phase' = "scan" /\ request' = None /\ states' = states
        BY <2>2, OutcomeShrinks DEF ReadSerial, ReadMaker, FindModule, ProbeFails
      <3> QED
        BY <1>1, <3>1 DEF CoverInv, AskInv, CycleInv
    <2> QED
      BY <1>5, <2>1, <2>2
  <1>6. CASE AnnounceModule \/ Check \/ PublishStack \/ PublishState \/ Sleep
    <2>1. request' = None
      BY <1>1, <1>6 DEF AnnounceModule, Check, PublishStack, PublishState, Sleep, link,
                        CoverInv, AskInv, TypeOK, LinkTypeOK, Request, Kinds
    <2>2. CASE AnnounceModule \/ Check \/ Sleep
      BY <1>1, <2>1, <2>2 DEF AnnounceModule, Check, Sleep, Visited, scanned, published,
                              Nothing, CoverInv, AskInv, CycleInv
    <2>3. CASE PublishStack
      <3>1. stack' = {states[a] : a \in modules}
        BY <2>3 DEF PublishStack, CoverInv, CycleInv
      <3> QED
        BY <1>1, <2>1, <2>3, <3>1 DEF PublishStack, scanned, CoverInv, AskInv, CycleInv
    <2>4. CASE PublishState
      BY <1>1, <2>1, <2>4 DEF PublishState, Visited, scanned, CoverInv, AskInv, CycleInv
    <2> QED
      BY <1>6, <2>2, <2>3, <2>4
  <1>7. CASE ReadSystem \/ ReadManagement
    <2>1. /\ request' = None /\ states' = states /\ modules' = modules
          /\ \E then \in {"check", "values"} : Visited(request.addr, then)
          /\ phase \in {"system", "management"}
      BY <1>7 DEF ReadSystem, ReadManagement, Answered, scanned
    <2> QED
      BY <1>1, <2>1 DEF Visited, CoverInv, AskInv, CycleInv
  <1>8. CASE ReadValues
    <2>1. PICK r \in wire : Answered(r) /\ states' = [states EXCEPT ![request.addr] = r]
      BY <1>8 DEF ReadValues
    <2>2. /\ request # None /\ request.kind = "values" /\ First(request.addr)
          /\ phase = "values" /\ request.addr \in Address
      BY <1>1, <1>8, <2>1 DEF ReadValues, Answered, CoverInv, AskInv, TypeOK, LinkTypeOK, Request
    <2>3. r.addr = request.addr /\ r # None
      BY <1>1, <2>1, <2>2, LinkAssumption DEF Answered, Parses, TypeOK, LinkTypeOK
    <2>4. /\ request' = None /\ modules' = modules /\ Visited(request.addr, "stack")
      BY <1>8, <2>1 DEF ReadValues, Answered, scanned
    <2>5. /\ \A a \in Address : states'[a] # None => states'[a].addr = a
          /\ \A a \in modules \ (todo \ {request.addr}) : states'[a] # None
      BY <1>1, <2>1, <2>2, <2>3 DEF CoverInv, CycleInv, TypeOK
    <2> QED
      BY <1>1, <2>2, <2>4, <2>5 DEF Visited, First, CoverInv, AskInv, CycleInv
  <1>9. CASE Environment
    <2>1. UNCHANGED <<request, phase, todo, step, modules, states, stack>>
      BY <1>9 DEF Environment, ManagementDue, MqttDown, LinkDown, LoseReply, BecomeCalm,
                  link, scanned, published
    <2> QED
      BY <1>1, <2>1 DEF CoverInv, AskInv, CycleInv, First
  <1>10. CASE UNCHANGED vars
    BY <1>1, <1>10 DEF vars, CoverInv, AskInv, CycleInv, First
  <1> QED
    BY <1>2, <1>3, <1>4, <1>5, <1>6, <1>7, <1>8, <1>9, <1>10 DEF Next, Thread

(* Each stack state is made of one state of every module of the session,   *)
(* even behind a bridge that replays old answers.                          *)
THEOREM StackCoversModulesAlways == Spec => []StackCoversModules
  <1>1. CoverInv => StackCoversModules
    <2> SUFFICES ASSUME CoverInv, phase \in {"publish", "sleep"}
                 PROVE  /\ {r.addr : r \in stack} = modules
                        /\ \A r, q \in stack : r.addr = q.addr => r = q
      BY DEF StackCoversModules
    <2>1. stack = {states[a] : a \in modules} /\ \A a \in modules : states[a].addr = a
      BY DEF CoverInv, CycleInv, TypeOK
    <2> QED
      BY <2>1
  <1> QED
    BY <1>1, InitCover, StepCover, PTL DEF Spec
-----------------------------------------------------------------------------
(* What the scan finds: none that is not there, and, if the bus swallows   *)
(* nothing, none under the identity of another.                            *)

(* Replies come from modules that are there, and the values that end a     *)
(* probe carry the address that was asked.                                 *)
PresenceInv ==
    /\ TypeOK
    /\ \A r \in wire : r.addr \in Present
    /\ modules \subseteq Present
    /\ phase = "scan" /\ request # None => request.kind = step

LEMMA StepPresence ==
    ASSUME PresenceInv, [Next]_vars
    PROVE  PresenceInv'
  <1>1. TypeOK /\ TypeOK'
    BY StepType DEF PresenceInv
  <1>2. CASE Dial
    <2>1. /\ wire' = {} \/ wire' \subseteq Outdated(wire)
          /\ modules' = {} /\ request' = None
      BY <1>2 DEF Dial, OpenLink, Afresh
    <2> QED
      BY <1>1, <2>1 DEF PresenceInv, Outdated
  <1>3. CASE Ask
    <2>1. PICK a \in todo : Send(a, IF phase = "scan" THEN step ELSE phase)
      BY <1>3 DEF Ask
    <2>2. /\ wire' = Outdated(wire) \cup Answers(a, IF phase = "scan" THEN step ELSE phase)
          /\ request' = [addr |-> a, kind |-> IF phase = "scan" THEN step ELSE phase]
          /\ UNCHANGED <<phase, step, modules>>
      BY <1>3, <2>1 DEF Ask, Send, scanned
    <2>3. \A r \in wire' : r.addr \in Present
      BY <2>2 DEF Outdated, Answers, PresenceInv
    <2> QED
      BY <1>1, <2>2, <2>3 DEF PresenceInv
  <1>4. CASE ReadSerial \/ ReadMaker \/ ProbeFails \/ ReadSystem \/ ReadManagement
             \/ ReadValues \/ PollFails
    <2>1. wire' \subseteq wire /\ request' = None /\ modules' = modules
      BY <1>4, OutcomeShrinks
         DEF ReadSerial, ReadMaker, ProbeFails, ReadSystem, ReadManagement, ReadValues,
             PollFails, scanned
    <2> QED
      BY <1>1, <2>1 DEF PresenceInv
  <1>5. CASE FindModule
    <2>1. PICK r \in wire : Answered(r)
      BY <1>5 DEF FindModule
    <2>2. request.kind = "values" /\ wire' \subseteq wire /\ request' = None
      BY <1>5, <2>1 DEF FindModule, Answered, PresenceInv
    <2>3. modules' = modules \cup {request.addr} /\ request.addr = r.addr
      BY <1>5, <2>1, <2>2 DEF FindModule, Answered, Parses
    <2> QED
      BY <1>1, <2>1, <2>2, <2>3 DEF PresenceInv
  <1>6. CASE PublishFails
    <2>1. wire' \subseteq wire /\ request' \in {request, None} /\ modules' = modules
          /\ phase' = "failed"
      BY <1>6, OutcomeShrinks DEF PublishFails, link, scanned
    <2> QED
      BY <1>1, <2>1 DEF PresenceInv
  <1>7. CASE ConnectMqtt \/ ConnectMqttFails \/ DialFails \/ EndScan \/ AnnounceModule
             \/ Check \/ PublishStack \/ PublishState \/ Sleep \/ FailSession \/ Reconnect
    <2>1. UNCHANGED <<wire, modules>> /\ phase' # "scan"
      BY <1>7 DEF ConnectMqtt, ConnectMqttFails, DialFails, EndScan, AnnounceModule, Check,
                  PublishStack, PublishState, Sleep, FailSession, Reconnect, Visited, link,
                  scanned
    <2> QED
      BY <1>1, <2>1 DEF PresenceInv
  <1>8. CASE Environment
    <2>1. wire' \subseteq wire /\ UNCHANGED <<modules, phase, step, request>>
      BY <1>8 DEF Environment, ManagementDue, MqttDown, LinkDown, LoseReply, BecomeCalm,
                  link, scanned, published
    <2> QED
      BY <1>1, <2>1 DEF PresenceInv
  <1>9. CASE UNCHANGED vars
    BY <1>1, <1>9 DEF vars, PresenceInv
  <1> QED
    BY <1>2, <1>3, <1>4, <1>5, <1>6, <1>7, <1>8, <1>9 DEF Next, Thread

(* The scan reports no module at an address where none answers, late       *)
(* answers, losses and a replaying bridge notwithstanding.                 *)
THEOREM NoGhostModuleAlways == Spec => []NoGhostModule
  <1>1. Init => PresenceInv
    BY InitType DEF Init, PresenceInv
  <1>2. PresenceInv => NoGhostModule
    BY DEF PresenceInv, NoGhostModule
  <1> QED
    BY <1>1, <1>2, StepPresence, PTL DEF Spec

-----------------------------------------------------------------------------
(* What the probe of a module that is there has got from it: the answers   *)
(* it has not taken for its own are still to come, and they come before    *)
(* the values that would end the probe.                                    *)
Probe(a) ==
    /\ step = "serial" /\ request # None => Own(a, "serial") \in wire
    /\ step = "manufacturer" =>
          \/ serial[a] = Own(a, "serial")
          \/ \E r \in wire : r.addr = a /\ r.kind = "serial"
    /\ step = "manufacturer" /\ request # None => Own(a, "manufacturer") \in wire
    /\ step = "values" =>
          \/ serial[a] = Own(a, "serial") /\ maker[a] = Own(a, "manufacturer")
          \/ \E r \in wire : r.addr = a /\ r.kind \in {"serial", "manufacturer"}

ProbeInv == phase = "scan" => \A a \in todo \cap Present : First(a) => Probe(a)

IdentityInv ==
    phase \in {"scan"} \cup InSession =>
        \A a \in modules : serial[a] = Own(a, "serial") /\ maker[a] = Own(a, "manufacturer")

OwnInv == IInv /\ PresenceInv /\ ProbeInv /\ IdentityInv /\ AnnouncedIdentityOwn

LEMMA InitOwn == Init => OwnInv
  BY InitInv, InitType DEF Init, OwnInv, PresenceInv, ProbeInv, IdentityInv,
     AnnouncedIdentityOwn, InSession, DataKinds

\* The address that is being probed.
LEMMA Probing ==
    ASSUME IInv, phase = "scan", request # None
    PROVE  /\ request.addr \in todo /\ First(request.addr) /\ request.kind = step
           /\ request.addr \in Address /\ request.addr \notin modules
           /\ \A a \in todo : First(a) => a = request.addr
           /\ \A r \in wire : r.own => r = Own(request.addr, step)
  <1>1. First(request.addr) /\ request.kind = step /\ request \in Request
    BY DEF IInv, RequestInv, TypeOK, LinkTypeOK
  <1>2. request.addr \in todo /\ request.addr \in Address
    BY <1>1 DEF First, Request
  <1>3. \A a \in todo : First(a) => a = request.addr
    BY <1>1, <1>2 DEF First, IInv, TypeOK, Address
  <1>4. request.addr \notin modules
    BY <1>2 DEF IInv, ScanInv
  <1>5. \A r \in wire : r.own => r = Own(request.addr, step)
    BY <1>1 DEF IInv, RequestInv, TypeOK, LinkTypeOK, Reply, Own
  <1> QED
    BY <1>1, <1>2, <1>3, <1>4, <1>5

LEMMA StepProbe ==
    ASSUME BridgeKeeps = 0, ~Lossy, OwnInv, [Next]_vars
    PROVE  ProbeInv' /\ IdentityInv'
  <1> USE DEF OwnInv
  <1>1. TypeOK
    BY DEF IInv
  <1>2. CASE Dial
    <2>1. /\ phase' = "scan" /\ step' = "serial" /\ request' = None /\ modules' = {}
      BY <1>2 DEF Dial, Afresh, OpenLink
    <2> QED
      BY <2>1 DEF ProbeInv, Probe, IdentityInv, InSession, DataKinds
  <1>3. CASE Ask
    <2>1. PICK a \in todo : First(a) /\ Send(a, IF phase = "scan" THEN step ELSE phase)
      BY <1>3 DEF Ask
    <2>2. UNCHANGED <<phase, todo, step, serial, maker, modules>>
      BY <1>3 DEF Ask, scanned
    <2>3. IdentityInv'
      BY <2>2 DEF IdentityInv
    <2>4. ASSUME phase = "scan", NEW b \in todo \cap Present, First(b)
          PROVE  Probe(b)'
      <3>1. b = a /\ request = None
        BY <1>1, <2>1, <2>4 DEF First, TypeOK, Address, Send
      <3>2. wire' = Outdated(wire) \cup {Own(b, step)}
        BY <2>1, <2>4, <3>1 DEF Send, Answers, Own
      <3>3. Own(b, step) \in wire'
        BY <3>2
      <3>4. \A r \in wire : \E q \in wire' : q.addr = r.addr /\ q.kind = r.kind
        <4> SUFFICES ASSUME NEW r \in wire
                     PROVE  \E q \in wire' : q.addr = r.addr /\ q.kind = r.kind
          OBVIOUS
        <4>1. [addr |-> r.addr, kind |-> r.kind, own |-> FALSE] \in wire'
          BY <3>2 DEF Outdated
        <4> QED
          BY <4>1
      <3> QED
        BY <2>2, <2>4, <3>3, <3>4 DEF ProbeInv, Probe
    <2> QED
      BY <2>2, <2>3, <2>4 DEF ProbeInv, First
  <1>4. CASE ReadSerial
    <2>1. PICK r \in wire : Answered(r) /\ serial' = [serial EXCEPT ![request.addr] = r]
      BY <1>4 DEF ReadSerial
    <2>0. PICK a : a = request.addr
      OBVIOUS
    <2>2. /\ phase = "scan" /\ phase' = "scan" /\ step = "serial" /\ step' = "manufacturer"
          /\ request # None /\ request' = None /\ wire' = wire \ {r}
          /\ UNCHANGED <<todo, modules, maker>>
      BY <1>4, <2>1 DEF ReadSerial, Answered
    <2>3. /\ a \in todo /\ First(a) /\ a \in Address /\ a \notin modules
          /\ \A b \in todo : First(b) => b = a
          /\ r.own => r = Own(a, "serial")
      BY <2>0, <2>2, Probing
    <2>4. IdentityInv'
      BY <1>1, <2>0, <2>1, <2>2, <2>3 DEF IdentityInv, TypeOK
    <2>5. ASSUME a \in Present PROVE Probe(a)'
      <3>1. Own(a, "serial") \in wire
        BY <2>2, <2>3, <2>5 DEF ProbeInv, Probe
      <3>2. serial'[a] = r
        BY <1>1, <2>0, <2>1, <2>3 DEF TypeOK
      <3>3. r = Own(a, "serial") \/ Own(a, "serial") \in wire'
        BY <2>2, <3>1
      <3> QED
        BY <2>2, <3>2, <3>3 DEF Probe, Own
    <2> QED
      BY <2>2, <2>3, <2>4, <2>5 DEF ProbeInv, First
  <1>5. CASE ReadMaker
    <2>1. PICK r \in wire : Answered(r) /\ maker' = [maker EXCEPT ![request.addr] = r]
      BY <1>5 DEF ReadMaker
    <2>0. PICK a : a = request.addr
      OBVIOUS
    <2>2. /\ phase = "scan" /\ phase' = "scan" /\ step = "manufacturer" /\ step' = "values"
          /\ request # None /\ request' = None /\ wire' = wire \ {r}
          /\ UNCHANGED <<todo, modules, serial>>
      BY <1>5, <2>1 DEF ReadMaker, Answered
    <2>3. /\ a \in todo /\ First(a) /\ a \in Address /\ a \notin modules
          /\ \A b \in todo : First(b) => b = a
          /\ r.own => r = Own(a, "manufacturer")
      BY <2>0, <2>2, Probing
    <2>4. IdentityInv'
      BY <1>1, <2>0, <2>1, <2>2, <2>3 DEF IdentityInv, TypeOK
    <2>5. ASSUME a \in Present PROVE Probe(a)'
      <3>1. /\ Own(a, "manufacturer") \in wire
            /\ \/ serial[a] = Own(a, "serial")
               \/ \E q \in wire : q.addr = a /\ q.kind = "serial"
        BY <2>2, <2>3, <2>5 DEF ProbeInv, Probe
      <3>2. maker'[a] = r /\ Own(a, "manufacturer").kind = "manufacturer"
            /\ Own(a, "manufacturer").addr = a
        BY <1>1, <2>0, <2>1, <2>3 DEF TypeOK, Own
      <3>3. CASE r # Own(a, "manufacturer")
        <4>1. Own(a, "manufacturer") \in wire'
          BY <2>2, <3>1, <3>3
        <4> QED
          BY <2>2, <3>2, <4>1 DEF Probe
      <3>4. CASE r = Own(a, "manufacturer")
        BY <2>2, <3>1, <3>2, <3>4 DEF Probe
      <3> QED
        BY <3>3, <3>4
    <2> QED
      BY <2>2, <2>3, <2>4, <2>5 DEF ProbeInv, First
  <1>6. CASE FindModule
    <2>1. PICK r \in wire : Answered(r)
      BY <1>6 DEF FindModule
    <2>0. PICK a : a = request.addr
      OBVIOUS
    <2>2. /\ phase = "scan" /\ phase' = "scan" /\ step = "values" /\ step' = "serial"
          /\ request # None /\ request' = None
          /\ modules' = modules \cup {a}
          /\ UNCHANGED <<serial, maker>>
      BY <1>6, <2>0, <2>1 DEF FindModule, Answered
    <2>3. /\ a \in todo /\ First(a) /\ request.kind = "values"
          /\ \A q \in wire : q.own => q = Own(a, "values")
      BY <2>0, <2>2, Probing
    <2>4. r.kind = "values" /\ r.addr = a /\ r \in Deliverable
      BY <2>0, <2>1, <2>3 DEF Answered, Parses
    <2>5. r.own /\ a \in Present
      BY <2>2, <2>3, <2>4 DEF IInv, ScanInv, Late, PresenceInv
    <2>6. \A q \in wire : q.addr = a => q.own
      BY <2>4, <2>5 DEF Deliverable
    <2>7. \A q \in wire : q.addr = a => q.kind = "values"
      BY <2>3, <2>6 DEF Own
    <2>8. serial[a] = Own(a, "serial") /\ maker[a] = Own(a, "manufacturer")
      BY <2>2, <2>3, <2>5, <2>7 DEF ProbeInv, Probe
    <2> QED
      BY <2>2, <2>8 DEF ProbeInv, Probe, IdentityInv, InSession, DataKinds
  <1>7. CASE ProbeFails
    <2>1. /\ phase = "scan" /\ phase' = "scan" /\ step' = "serial" /\ request' = None
          /\ UNCHANGED <<serial, maker, modules>>
      BY <1>7, OutcomeShrinks DEF ProbeFails, scanned
    <2> QED
      BY <2>1 DEF ProbeInv, Probe, IdentityInv, InSession, DataKinds
  <1>8. CASE EndScan
    BY <1>8 DEF EndScan, scanned, ProbeInv, IdentityInv
  <1>9. CASE AnnounceModule \/ ReadSystem \/ Check \/ ReadManagement \/ ReadValues
             \/ PublishStack \/ PublishState \/ Sleep
    <2>1. UNCHANGED scanned /\ phase \in InSession /\ phase' \in InSession
      BY <1>9 DEF AnnounceModule, ReadSystem, Check, ReadManagement, ReadValues,
                  PublishStack, PublishState, Sleep, Visited, InSession, DataKinds
    <2> QED
      BY <2>1 DEF scanned, ProbeInv, IdentityInv, InSession, DataKinds
  <1>10. CASE ConnectMqtt \/ ConnectMqttFails \/ DialFails \/ FailSession \/ Reconnect
              \/ PollFails \/ PublishFails
    <2>1. phase' \notin {"scan"} \cup InSession
      BY <1>10 DEF ConnectMqtt, ConnectMqttFails, DialFails, FailSession, Reconnect,
                   PollFails, PublishFails, InSession, DataKinds
    <2> QED
      BY <2>1 DEF ProbeInv, IdentityInv
  <1>11. CASE Environment \/ UNCHANGED vars
    <2>1. UNCHANGED <<wire, request, phase, todo, step, serial, maker, modules>>
      BY <1>11 DEF Environment, ManagementDue, MqttDown, LinkDown, LoseReply, BecomeCalm,
                   link, scanned, vars
    <2> QED
      BY <2>1 DEF ProbeInv, Probe, IdentityInv, First
  <1> QED
    BY <1>2, <1>3, <1>4, <1>5, <1>6, <1>7, <1>8, <1>9, <1>10, <1>11 DEF Next, Thread

LEMMA StepAnnouncement ==
    ASSUME OwnInv, [Next]_vars
    PROVE  AnnouncedIdentityOwn'
  <1>1. CASE AnnounceModule
    <2>1. PICK a \in todo : announced' = [announced EXCEPT ![a] = <<serial[a], maker[a]>>]
      BY <1>1 DEF AnnounceModule
    <2>2. serial[a] = Own(a, "serial") /\ maker[a] = Own(a, "manufacturer")
      BY <1>1 DEF AnnounceModule, OwnInv, IInv, SessionInv, IdentityInv, InSession
    <2> QED
      BY <2>1, <2>2 DEF OwnInv, IInv, TypeOK, AnnouncedIdentityOwn
  <1>2. CASE Dial
    BY <1>2 DEF Dial, Afresh, AnnouncedIdentityOwn
  <1>3. CASE ~AnnounceModule /\ ~Dial
    <2>1. announced' = announced
      BY <1>3 DEF Next, Thread, ConnectMqtt, ConnectMqttFails, DialFails, Ask, ReadSerial,
                  ReadMaker, FindModule, ProbeFails, EndScan, ReadSystem, Check,
                  ReadManagement, ReadValues, PublishStack, PublishState, Sleep, PollFails,
                  PublishFails, FailSession, Reconnect, Environment, ManagementDue,
                  MqttDown, published, vars
    <2> QED
      BY <2>1 DEF OwnInv, AnnouncedIdentityOwn
  <1> QED
    BY <1>1, <1>2, <1>3

(* On a bus that may delay and damage but never swallows a reply, each     *)
(* module is announced under its own serial number and its own             *)
(* manufacturer info, although the scan compares neither with the address. *)
THEOREM AnnouncedIdentityOwnAlways ==
    ASSUME BridgeKeeps = 0, ~Lossy
    PROVE  Spec => []AnnouncedIdentityOwn
  <1>1. OwnInv /\ [Next]_vars => OwnInv'
    BY StepInv, StepPresence, StepProbe, StepAnnouncement DEF OwnInv
  <1>2. OwnInv => AnnouncedIdentityOwn
    BY DEF OwnInv
  <1> QED
    BY <1>1, <1>2, InitOwn, PTL DEF Spec
-----------------------------------------------------------------------------
(* AdapterSession implements AdapterContract, for every address range and  *)
(* every set of modules, over a bridge that replays nothing.               *)

(* What a session has published by the time it is in a phase.              *)
FoundInv ==
    /\ phase \in {"scan"} \cup InSession => \A a \in modules : serial[a] # None
    /\ phase = "scan" /\ step # "serial" => \A a \in todo : First(a) => serial[a] # None
    /\ phase \in InSession => modules # {}

BlankInv ==
    /\ phase = "scan" => \A a \in Address : announced[a] = <<None, None>>
    /\ phase \in {"scan", "announce"} =>
          \A k \in DataKinds, a \in Address : topic[k][a] = None
    /\ phase \in {"scan", "announce", "system"} => stack = {}

AnnouncedInv ==
    phase \in InSession =>
        \A a \in Address :
            announced[a] # <<None, None>> <=>
                a \in modules /\ (phase = "announce" => a \notin todo)

OrderInv ==
    /\ phase = "system" => \A a \in modules \ todo : topic["system"][a] # None
    /\ phase \in InSession \ {"announce", "system"} =>
          \A a \in modules : topic["system"][a] # None
    /\ phase = "management" => \A a \in modules \ todo : topic["management"][a] # None
    /\ phase \in {"values", "stack", "publish", "sleep"} \/ (phase = "check" /\ ~due) =>
          \A a \in modules : topic["management"][a] # None

LEMMA InitFound == Init => FoundInv /\ BlankInv /\ AnnouncedInv /\ OrderInv
  BY DEF Init, FoundInv, BlankInv, AnnouncedInv, OrderInv, InSession, DataKinds

\* The actions that leave the session and the scan alone.
Outside ==
    \/ ConnectMqtt \/ ConnectMqttFails \/ DialFails \/ FailSession \/ Reconnect
    \/ PollFails \/ PublishFails

LEMMA OutsideLeaves ==
    ASSUME Outside
    PROVE  phase' \notin {"scan"} \cup InSession
  BY DEF Outside, ConnectMqtt, ConnectMqttFails, DialFails, FailSession, Reconnect,
         PollFails, PublishFails, InSession, DataKinds

LEMMA StepFound ==
    ASSUME CoverInv, FoundInv, [Next]_vars
    PROVE  FoundInv'
  <1>1. TypeOK
    BY DEF CoverInv
  <1>2. CASE Outside
    BY <1>2, OutsideLeaves DEF FoundInv
  <1>3. CASE Dial
    BY <1>3 DEF Dial, Afresh, FoundInv, InSession, DataKinds
  <1>4. CASE Ask
    BY <1>4 DEF Ask, First, FoundInv, scanned
  <1>5. CASE ReadSerial
    <2>1. PICK r \in wire : Answered(r) /\ serial' = [serial EXCEPT ![request.addr] = r]
      BY <1>5 DEF ReadSerial
    <2>2. r # None /\ request # None
      BY <1>1, <2>1, LinkAssumption DEF Answered, TypeOK, LinkTypeOK
    <2>3. First(request.addr) /\ request.addr \in Address
      BY <1>1, <1>5, <2>2 DEF ReadSerial, CoverInv, AskInv, TypeOK, LinkTypeOK, Request
    <2>4. \A a \in Address : serial'[a] = IF a = request.addr THEN r ELSE serial[a]
      BY <1>1, <2>1 DEF TypeOK
    <2>5. \A a \in todo : First(a) => a = request.addr
      BY <1>1, <2>3 DEF First, TypeOK, Address
    <2>6. UNCHANGED <<phase, todo, modules>> /\ phase = "scan"
      BY <1>5 DEF ReadSerial
    <2>7. \A a \in modules : serial'[a] # None
      BY <1>1, <2>2, <2>4, <2>6 DEF FoundInv, TypeOK
    <2>8. \A a \in todo : First(a) => serial'[a] # None
      BY <1>1, <2>2, <2>4, <2>5 DEF TypeOK
    <2> QED
      BY <2>6, <2>7, <2>8 DEF FoundInv, First, InSession, DataKinds
  <1>6. CASE ReadMaker
    BY <1>6 DEF ReadMaker, First, FoundInv
  <1>7. CASE FindModule
    <2>1. request # None
      BY <1>7 DEF FindModule, Answered
    <2>2. First(request.addr)
      BY <1>7, <2>1 DEF FindModule, CoverInv, AskInv
    <2>3. serial[request.addr] # None
      BY <1>7, <2>2 DEF FindModule, FoundInv, First
    <2> QED
      BY <1>7, <2>3 DEF FindModule, FoundInv, InSession, DataKinds
  <1>8. CASE ProbeFails
    BY <1>8 DEF ProbeFails, FoundInv, scanned, InSession, DataKinds
  <1>9. CASE EndScan
    BY <1>9 DEF EndScan, FoundInv, scanned, InSession, DataKinds
  <1>10. CASE AnnounceModule \/ ReadSystem \/ Check \/ ReadManagement \/ ReadValues
              \/ PublishStack \/ PublishState \/ Sleep
    <2>1. /\ UNCHANGED <<modules, serial>>
          /\ phase \in InSession /\ phase' \in InSession
      BY <1>10 DEF AnnounceModule, ReadSystem, Check, ReadManagement, ReadValues,
                   PublishStack, PublishState, Sleep, Visited, scanned, InSession, DataKinds
    <2> QED
      BY <2>1 DEF FoundInv, InSession, DataKinds
  <1>11. CASE Environment
    <2>1. UNCHANGED <<phase, todo, step, modules, serial>>
      BY <1>11 DEF Environment, ManagementDue, MqttDown, LinkDown, LoseReply, BecomeCalm,
                   link, scanned
    <2> QED
      BY <2>1 DEF FoundInv, First
  <1>12. CASE UNCHANGED vars
    BY <1>12 DEF vars, scanned, FoundInv, First
  <1> QED
    BY <1>2, <1>3, <1>4, <1>5, <1>6, <1>7, <1>8, <1>9, <1>10, <1>11, <1>12
       DEF Next, Thread, Outside

LEMMA StepBlank ==
    ASSUME TypeOK, BlankInv, [Next]_vars
    PROVE  BlankInv'
  <1> USE DEF InSession, DataKinds
  <1>1. CASE Outside
    BY <1>1, OutsideLeaves DEF BlankInv
  <1>2. CASE Dial
    BY <1>2 DEF Dial, Afresh, Nothing, BlankInv
  <1>3. CASE Ask \/ ReadSerial \/ ReadMaker \/ FindModule \/ ProbeFails \/ EndScan
    <2>1. /\ UNCHANGED <<topic, stack, announced>>
          /\ phase' = phase \/ (phase = "scan" /\ phase' \in {"failed", "announce"})
      <3>1. CASE Ask
        BY <3>1 DEF Ask, published
      <3>2. CASE ReadSerial \/ ReadMaker \/ FindModule \/ ProbeFails
        BY <3>2 DEF ReadSerial, ReadMaker, FindModule, ProbeFails, published
      <3>3. CASE EndScan
        BY <3>3 DEF EndScan, published
      <3> QED
        BY <1>3, <3>1, <3>2, <3>3
    <2> QED
      BY <2>1 DEF BlankInv
  <1>4. CASE AnnounceModule
    <2>1. UNCHANGED <<topic, stack>> /\ phase = "announce" /\ phase' \in {"announce", "system"}
      BY <1>4 DEF AnnounceModule, Visited
    <2> QED
      BY <2>1 DEF BlankInv
  <1>5. CASE ReadSystem
    <2>1. stack' = stack /\ phase = "system" /\ phase' \in {"system", "check"}
      BY <1>5 DEF ReadSystem, Visited
    <2> QED
      BY <2>1 DEF BlankInv
  <1>6. CASE Check \/ ReadManagement \/ ReadValues \/ PublishStack \/ PublishState \/ Sleep
    <2>1. phase' \notin {"scan", "announce", "system"}
      BY <1>6 DEF Check, ReadManagement, ReadValues, PublishStack, PublishState, Sleep, Visited
    <2> QED
      BY <2>1 DEF BlankInv
  <1>7. CASE Environment
    <2>1. UNCHANGED <<phase, topic, stack, announced>>
      BY <1>7 DEF Environment, ManagementDue, MqttDown, LinkDown, LoseReply, BecomeCalm,
                  link, published
    <2> QED
      BY <2>1 DEF BlankInv
  <1>8. CASE UNCHANGED vars
    BY <1>8 DEF vars, published, BlankInv
  <1> QED
    BY <1>1, <1>2, <1>3, <1>4, <1>5, <1>6, <1>7, <1>8 DEF Next, Thread, Outside

LEMMA StepAnnounced ==
    ASSUME CoverInv, FoundInv, BlankInv, AnnouncedInv, [Next]_vars
    PROVE  AnnouncedInv'
  <1> USE DEF InSession, DataKinds
  <1>1. TypeOK /\ (phase \in InSession => todo \subseteq modules)
    BY DEF CoverInv, CycleInv
  <1>2. CASE Outside
    BY <1>2, OutsideLeaves DEF AnnouncedInv
  <1>3. CASE Dial \/ ReadSerial \/ ReadMaker \/ FindModule \/ ProbeFails
    <2>1. phase' = "scan"
      BY <1>3 DEF Dial, ReadSerial, ReadMaker, FindModule, ProbeFails
    <2> QED
      BY <2>1 DEF AnnouncedInv
  <1>4. CASE EndScan
    BY <1>4 DEF EndScan, published, scanned, BlankInv, AnnouncedInv
  <1>5. CASE AnnounceModule
    <2>1. PICK a \in todo : /\ announced' = [announced EXCEPT ![a] = <<serial[a], maker[a]>>]
                            /\ Visited(a, "system")
      BY <1>5 DEF AnnounceModule
    <2>2. phase = "announce" /\ a \in modules /\ modules' = modules /\ a \in Address
      BY <1>1, <1>5, <2>1 DEF AnnounceModule, scanned, TypeOK
    <2>3. <<serial[a], maker[a]>> # <<None, None>>
      BY <2>2 DEF FoundInv
    <2>4. \A b \in Address : announced'[b] = IF b = a THEN <<serial[a], maker[a]>>
                                             ELSE announced[b]
      BY <1>1, <2>1 DEF TypeOK
    <2>5. \A b \in Address : announced'[b] # <<None, None>> <=> b \in modules \ (todo \ {a})
      BY <1>1, <2>2, <2>3, <2>4 DEF AnnouncedInv
    <2>6. CASE todo = {a}
      BY <2>1, <2>2, <2>5, <2>6 DEF Visited, AnnouncedInv
    <2>7. CASE todo # {a}
      BY <2>1, <2>2, <2>5, <2>7 DEF Visited, AnnouncedInv
    <2> QED
      BY <2>6, <2>7
  <1>6. CASE ReadSystem \/ Check \/ ReadManagement \/ ReadValues \/ PublishStack
             \/ PublishState \/ Sleep
    <2>1. UNCHANGED <<modules, announced>> /\ phase # "announce" /\ phase' # "announce"
          /\ phase \in InSession
      BY <1>6 DEF ReadSystem, Check, ReadManagement, ReadValues, PublishStack, PublishState,
                  Sleep, Visited, scanned, published
    <2> QED
      BY <2>1 DEF AnnouncedInv
  <1>7. CASE Ask \/ Environment \/ UNCHANGED vars
    <2>1. UNCHANGED <<phase, todo, modules, announced>>
      BY <1>7 DEF Ask, Environment, ManagementDue, MqttDown, LinkDown, LoseReply,
                  BecomeCalm, vars, link, scanned, published
    <2> QED
      BY <2>1 DEF AnnouncedInv
  <1> QED
    BY <1>2, <1>3, <1>4, <1>5, <1>6, <1>7 DEF Next, Thread, Outside

\* What a parser accepted has become the payload of its topic.
LEMMA TopicGrows ==
    ASSUME CoverInv, ReadSystem \/ ReadManagement
    PROVE  /\ phase \in {"system", "management"} /\ request.addr \in todo
           /\ \A k \in DataKinds, a \in Address :
                 /\ topic[k][a] # None => topic'[k][a] # None
                 /\ k = phase /\ a = request.addr => topic'[k][a] # None
  <1>1. TypeOK
    BY DEF CoverInv
  <1>2. PICK r \in wire : /\ Answered(r)
                          /\ topic' = [topic EXCEPT ![phase][request.addr] = r]
    BY DEF ReadSystem, ReadManagement
  <1>3. r # None /\ request # None
    BY <1>1, <1>2, LinkAssumption DEF Answered, TypeOK, LinkTypeOK
  <1>4. phase \in {"system", "management"} /\ request.addr \in todo
    BY <1>3 DEF ReadSystem, ReadManagement, CoverInv, AskInv, First, InSession, DataKinds
  <1> QED
    BY <1>1, <1>2, <1>3, <1>4 DEF TypeOK, DataKinds

LEMMA StepOrder ==
    ASSUME CoverInv, OrderInv, [Next]_vars
    PROVE  OrderInv'
  <1> USE DEF InSession, DataKinds
  <1>1. TypeOK /\ (phase \in InSession => todo \subseteq modules)
    BY DEF CoverInv, CycleInv
  <1>2. CASE Outside
    BY <1>2, OutsideLeaves DEF OrderInv
  <1>3. CASE Dial \/ ReadSerial \/ ReadMaker \/ FindModule \/ ProbeFails
    <2>1. phase' = "scan"
      BY <1>3 DEF Dial, ReadSerial, ReadMaker, FindModule, ProbeFails
    <2> QED
      BY <2>1 DEF OrderInv
  <1>4. CASE EndScan
    BY <1>4 DEF EndScan, OrderInv
  <1>5. CASE AnnounceModule
    BY <1>5 DEF AnnounceModule, Visited, scanned, OrderInv
  <1>6. CASE ReadSystem
    <2>1. modules' = modules /\ due' = TRUE /\ phase = "system" /\ Visited(request.addr, "check")
      BY <1>6 DEF ReadSystem, scanned
    <2>2. \A a \in modules \ (todo \ {request.addr}) : topic'["system"][a] # None
      BY <1>1, <1>6, <2>1, TopicGrows DEF OrderInv, TypeOK
    <2> QED
      BY <2>1, <2>2 DEF Visited, OrderInv
  <1>7. CASE ReadManagement
    <2>1. modules' = modules /\ phase = "management" /\ Visited(request.addr, "values")
      BY <1>7 DEF ReadManagement, scanned
    <2>2. /\ \A a \in modules \ (todo \ {request.addr}) : topic'["management"][a] # None
          /\ \A a \in modules : topic'["system"][a] # None
      BY <1>1, <1>7, <2>1, TopicGrows DEF OrderInv, TypeOK
    <2> QED
      BY <2>1, <2>2 DEF Visited, OrderInv
  <1>8. CASE Check
    BY <1>8 DEF Check, scanned, published, OrderInv
  <1>9. CASE ReadValues
    BY <1>9 DEF ReadValues, Visited, scanned, published, OrderInv
  <1>10. CASE PublishStack \/ Sleep
    BY <1>10 DEF PublishStack, Sleep, scanned, published, OrderInv
  <1>11. CASE PublishState
    <2>1. PICK a \in todo : /\ topic' = [topic EXCEPT !["values"][states[a].addr] = states[a]]
                            /\ Visited(a, "sleep")
      BY <1>11 DEF PublishState
    <2>2. \A b \in Address : /\ topic'["system"][b] = topic["system"][b]
                             /\ topic'["management"][b] = topic["management"][b]
      BY <1>1, <2>1 DEF TypeOK
    <2>3. modules' = modules /\ phase = "publish" /\ phase' \in {"publish", "sleep"}
      BY <1>11, <2>1 DEF PublishState, Visited, scanned
    <2>4. \A b \in modules : topic["system"][b] # None /\ topic["management"][b] # None
      BY <2>3 DEF OrderInv
    <2>5. \A b \in modules : topic'["system"][b] # None /\ topic'["management"][b] # None
      BY <1>1, <2>2, <2>4 DEF TypeOK
    <2> QED
      BY <2>3, <2>5 DEF OrderInv
  <1>12. CASE Environment
    <2>1. /\ UNCHANGED <<phase, todo, modules, topic>>
          /\ due' = due \/ due' = TRUE
      BY <1>12 DEF Environment, ManagementDue, MqttDown, LinkDown, LoseReply, BecomeCalm,
                   link, scanned, published
    <2> QED
      BY <2>1 DEF OrderInv
  <1>13. CASE Ask \/ UNCHANGED vars
    BY <1>13 DEF Ask, vars, scanned, published, OrderInv
  <1> QED
    BY <1>2, <1>3, <1>4, <1>5, <1>6, <1>7, <1>8, <1>9, <1>10, <1>11, <1>12, <1>13
       DEF Next, Thread, Outside

-----------------------------------------------------------------------------
\* Everything that holds in a reachable state.
ContractInv == IInv /\ CoverInv /\ FoundInv /\ BlankInv /\ AnnouncedInv /\ OrderInv

LEMMA ShownIs ==
    ASSUME IInv, NEW k \in DataKinds, NEW a \in Address
    PROVE  Content(k, a) = IF topic[k][a] # None THEN "own" ELSE "nothing"
  <1>1. topic[k][a] \in {None, Own(a, k)}
    BY DEF IInv, PublishedOwn
  <1>2. Own(a, k) \in Reply
    BY DEF Own, Reply, Kinds, DataKinds
  <1>3. Own(a, k) # None
    BY <1>2, LinkAssumption
  <1> QED
    BY <1>1, <1>3 DEF Content

\* What the variables of AdapterContract are within a session and outside.
Inside ==
    /\ Members = modules /\ modules # {} /\ modules \subseteq Address
    /\ Known = IF phase = "announce" THEN modules \ todo ELSE modules
    /\ Stacked = {r.addr : r \in stack}
    /\ Shown = [k \in DataKinds |-> [a \in Address |->
                    IF topic[k][a] # None THEN "own" ELSE "nothing"]]

LEMMA MapInside == ContractInv /\ InTouch => Inside
  <1> SUFFICES ASSUME ContractInv, InTouch PROVE Inside
    OBVIOUS
  <1>1. modules # {} /\ modules \subseteq Address
    BY DEF ContractInv, FoundInv, CoverInv, TypeOK, InTouch
  <1>2. \A a \in Address : announced[a] # <<None, None>> <=>
                             a \in modules /\ (phase = "announce" => a \notin todo)
    BY DEF ContractInv, AnnouncedInv, InTouch
  <1>3. Known = IF phase = "announce" THEN modules \ todo ELSE modules
    BY <1>1, <1>2 DEF Known
  <1>4. Shown = [k \in DataKinds |-> [a \in Address |->
                    IF topic[k][a] # None THEN "own" ELSE "nothing"]]
    BY ShownIs DEF ContractInv, Shown
  <1> QED
    BY <1>1, <1>3, <1>4 DEF Members, Stacked, Inside

Between == Members = {} /\ Known = {} /\ Stacked = {} /\ Shown = Contract!Blank

LEMMA MapOutside == ~InTouch => Between
  BY DEF Members, Known, Stacked, Shown, Contract!Blank, Between

LEMMA StepContractInv ==
    ASSUME BridgeKeeps = 0, ContractInv, [Next]_vars
    PROVE  ContractInv'
  <1>1. TypeOK
    BY DEF ContractInv, CoverInv
  <1> QED
    BY <1>1, StepInv, StepCover, StepFound, StepBlank, StepAnnounced, StepOrder
       DEF ContractInv

LEMMA InitContractInv == Init => ContractInv
  BY InitInv, InitCover, InitFound DEF ContractInv

\* One more payload is one more step of Show, and nothing else.
LEMMA ShowsMore ==
    ASSUME Inside, Inside', NEW k \in DataKinds, NEW m \in modules, topic'[k][m] # None,
           \A j \in DataKinds, a \in Address : (j # k \/ a # m) => topic'[j][a] = topic[j][a]
    PROVE  Shown' = [Shown EXCEPT ![k][m] = "own"]
  <1> DEFINE Mark(t, j, a) == IF t[j][a] # None THEN "own" ELSE "nothing"
  <1>1. /\ Shown = [j \in DataKinds |-> [a \in Address |-> Mark(topic, j, a)]]
        /\ Shown' = [j \in DataKinds |-> [a \in Address |-> Mark(topic', j, a)]]
        /\ m \in Address
    BY DEF Inside
  <1>2. Mark(topic', k, m) = "own"
    OBVIOUS
  <1>3. \A j \in DataKinds, a \in Address :
           (j # k \/ a # m) => Mark(topic', j, a) = Mark(topic, j, a)
    OBVIOUS
  <1> HIDE DEF Mark
  <1>4. Shown' = [j \in DataKinds |-> [a \in Address |->
                     IF j = k /\ a = m THEN "own" ELSE Mark(topic, j, a)]]
    BY <1>1, <1>2, <1>3
  <1>5. [Shown EXCEPT ![k][m] = "own"]
            = [j \in DataKinds |-> [a \in Address |->
                  IF j = k /\ a = m THEN "own" ELSE Mark(topic, j, a)]]
    BY <1>1
  <1> QED
    BY <1>4, <1>5

LEMMA RefineStep ==
    ASSUME ContractInv, ContractInv', [Next]_vars
    PROVE  [Contract!Next]_(Contract!promise)
  <1> USE DEF InTouch, InSession, DataKinds
  <1>0. TypeOK /\ CycleInv /\ AskInv
    BY DEF ContractInv, CoverInv
  <1>1. CASE ~InTouch'
    <2>1. Between'
      BY <1>1, MapOutside, PTL
    <2> QED
      BY <2>1 DEF Between, Contract!Next, Contract!End
  <1>2. CASE EndScan /\ InTouch'
    <2>1. Between
      BY <1>2, MapOutside DEF EndScan
    <2>2. Inside'
      BY <1>2, MapInside, PTL
    <2>3. /\ phase = "scan" /\ phase' = "announce" /\ todo' = modules
          /\ UNCHANGED <<modules, topic, stack>>
      BY <1>2 DEF EndScan, scanned, published
    <2>4. stack = {} /\ \A k \in DataKinds, a \in Address : topic[k][a] = None
      BY <2>3 DEF ContractInv, BlankInv
    <2>5. Known' = {} /\ Stacked' = {} /\ Shown' = Contract!Blank
      BY <2>2, <2>3, <2>4 DEF Inside, Contract!Blank
    <2>6. Members' \in (SUBSET Address) \ {{}}
      BY <2>2 DEF Inside
    <2> QED
      BY <2>1, <2>5, <2>6 DEF Between, Contract!Next, Contract!Begin
  <1>3. CASE InTouch /\ InTouch'
    <2>1. Inside
      BY <1>3, MapInside
    <2>2. Inside'
      BY <1>3, MapInside, PTL
    <2>3. CASE AnnounceModule
      <3>1. PICK a \in todo : First(a) /\ Visited(a, "system")
        BY <2>3 DEF AnnounceModule
      <3>2. /\ phase = "announce" /\ a \in modules /\ todo \subseteq modules
            /\ UNCHANGED <<modules, topic, stack>>
        BY <1>0, <2>3, <3>1 DEF AnnounceModule, scanned, CycleInv
      <3>3. Known = modules \ todo /\ Known' = (modules \ todo) \cup {a}
        BY <2>1, <2>2, <3>1, <3>2 DEF Inside, Visited
      <3>4. Contract!Announce(a)
        BY <2>1, <2>2, <3>2, <3>3 DEF Inside, Contract!Announce
      <3> QED
        BY <1>0, <3>2, <3>4 DEF Contract!Next, TypeOK
    <2>4. CASE ReadSystem \/ ReadManagement
      <3>1. /\ phase \in {"system", "management"} /\ request.addr \in todo
            /\ UNCHANGED <<modules, stack, announced>>
            /\ topic'[phase][request.addr] # None
        BY <1>0, <2>4, TopicGrows DEF ReadSystem, ReadManagement, scanned, ContractInv, TypeOK
      <3>2. request.addr \in modules /\ request.addr \in Address
        BY <1>0, <3>1 DEF CycleInv, TypeOK
      <3> DEFINE m == request.addr
      <3>3. \E r : topic' = [topic EXCEPT ![phase][m] = r]
        BY <2>4 DEF ReadSystem, ReadManagement
      <3>4. \A j \in DataKinds, a \in Address :
               (j # phase \/ a # m) => topic'[j][a] = topic[j][a]
        BY <1>0, <3>1, <3>2, <3>3 DEF TypeOK
      <3>5. Shown' = [Shown EXCEPT ![phase][m] = "own"]
        BY <2>1, <2>2, <3>1, <3>2, <3>4, ShowsMore
      <3>6. Members' = Members /\ Known' = Known /\ Known = Members /\ Stacked' = Stacked
            /\ m \in Members
        BY <2>1, <2>2, <2>4, <3>1, <3>2
           DEF Inside, ReadSystem, ReadManagement, Visited
      <3>7. CASE phase = "system"
        <4>1. Stacked = {}
          BY <2>1, <3>7 DEF Inside, ContractInv, BlankInv
        <4> QED
          BY <3>2, <3>5, <3>6, <3>7, <4>1
             DEF Contract!Next, Contract!ShowSystem, Contract!Show
      <3>8. CASE phase = "management"
        <4>1. Contract!Complete("system")
          BY <2>1, <3>8 DEF Inside, ContractInv, OrderInv, Contract!Complete
        <4> QED
          BY <3>2, <3>5, <3>6, <3>8, <4>1
             DEF Contract!Next, Contract!ShowManagement, Contract!Show
      <3> QED
        BY <3>1, <3>7, <3>8
    <2>5. CASE PublishStack
      <3>1. /\ phase = "stack" /\ phase' = "publish"
            /\ UNCHANGED <<modules, topic, announced>>
        BY <2>5 DEF PublishStack, scanned
      <3>2. Contract!Complete("system") /\ Contract!Complete("management")
        BY <2>1, <3>1 DEF Inside, ContractInv, OrderInv, Contract!Complete
      <3>3. /\ stack' = {states'[a] : a \in modules'}
            /\ \A a \in modules' : states'[a].addr = a
        BY <3>1 DEF ContractInv, CoverInv, CycleInv, TypeOK
      <3>4. Stacked' = modules
        BY <2>2, <3>1, <3>3 DEF Inside
      <3> QED
        BY <2>1, <2>2, <3>1, <3>2, <3>4 DEF Inside, Contract!Next, Contract!PublishStack
    <2>6. CASE PublishState
      <3>1. PICK a \in todo :
               /\ topic' = [topic EXCEPT !["values"][states[a].addr] = states[a]]
               /\ Visited(a, "sleep")
        BY <2>6 DEF PublishState
      <3>2. /\ phase = "publish" /\ a \in modules /\ a \in Address
            /\ phase' \in {"publish", "sleep"}
            /\ UNCHANGED <<modules, stack, announced>>
        BY <1>0, <2>6, <3>1 DEF PublishState, Visited, scanned, CycleInv, TypeOK
      <3>3. states[a] # None /\ states[a].addr = a
        BY <1>0, <3>2 DEF CycleInv
      <3>4. /\ topic'["values"][a] # None
            /\ \A j \in DataKinds, b \in Address :
                  (j # "values" \/ b # a) => topic'[j][b] = topic[j][b]
        BY <1>0, <3>1, <3>2, <3>3 DEF TypeOK
      <3>5. Shown' = [Shown EXCEPT !["values"][a] = "own"]
        BY <2>1, <2>2, <3>2, <3>4, ShowsMore
      <3>6. stack = {states[b] : b \in modules} /\ \A b \in modules : states[b].addr = b
        BY <1>0, <3>2 DEF CycleInv, TypeOK
      <3>7. Stacked = Members
        BY <2>1, <3>6 DEF Inside
      <3> QED
        BY <2>1, <2>2, <3>2, <3>5, <3>7
           DEF Inside, Contract!Next, Contract!ShowState, Contract!Show
    <2>7. CASE Check \/ ReadValues \/ Sleep \/ Ask \/ Environment \/ UNCHANGED vars
      <3>1. UNCHANGED <<modules, topic, stack, announced>>
        BY <2>7 DEF Check, ReadValues, Sleep, Ask, Environment, ManagementDue, MqttDown,
                    LinkDown, LoseReply, BecomeCalm, link, scanned, published, vars
      <3>2. (phase = "announce" \/ phase' = "announce") => UNCHANGED <<phase, todo>>
        BY <2>7 DEF Check, ReadValues, Sleep, Ask, Environment, ManagementDue, MqttDown,
                    LinkDown, LoseReply, BecomeCalm, link, vars, Visited
      <3>3. UNCHANGED <<Members, Known, Stacked, Shown>>
        BY <2>1, <2>2, <3>1, <3>2 DEF Inside
      <3> QED
        BY <3>3 DEF Contract!promise
    <2>8. ~(Dial \/ ReadSerial \/ ReadMaker \/ FindModule \/ ProbeFails \/ EndScan)
      BY <1>3 DEF Dial, ReadSerial, ReadMaker, FindModule, ProbeFails, EndScan
    <2>9. ~Outside
      BY <1>3, OutsideLeaves
    <2> QED
      BY <2>3, <2>4, <2>5, <2>6, <2>7, <2>8, <2>9 DEF Next, Thread, Outside
  <1>4. InTouch' => InTouch \/ EndScan
    <2> SUFFICES ASSUME InTouch', ~InTouch, ~EndScan PROVE FALSE
      OBVIOUS
    <2>1. ~Outside
      BY OutsideLeaves
    <2>2. CASE Ask \/ ReadSystem \/ ReadManagement \/ ReadValues \/ AnnounceModule \/ Check
               \/ PublishStack \/ PublishState \/ Sleep
      BY <2>2 DEF Ask, ReadSystem, ReadManagement, ReadValues, AnnounceModule, Check,
                  PublishStack, PublishState, Sleep
    <2>3. CASE Dial \/ ReadSerial \/ ReadMaker \/ FindModule \/ ProbeFails
      BY <2>3 DEF Dial, ReadSerial, ReadMaker, FindModule, ProbeFails
    <2>4. CASE Environment \/ UNCHANGED vars
      BY <2>4 DEF Environment, ManagementDue, MqttDown, LinkDown, LoseReply, BecomeCalm,
                  link, vars
    <2> QED
      BY <2>1, <2>2, <2>3, <2>4 DEF Next, Thread, Outside
  <1> QED
    BY <1>1, <1>2, <1>3, <1>4

(* What subscribers see of the adapter is a behaviour of AdapterContract:  *)
(* all discovery before any data, all system parameters and management     *)
(* info before the first telemetry, every stack state made of all modules, *)
(* and nothing of one module on the topic of another.                      *)
THEOREM KeepsContractAlways ==
    ASSUME BridgeKeeps = 0
    PROVE  Spec => KeepsContract
  <1>1. Init => Contract!Init
    BY MapOutside DEF Init, InTouch, InSession, DataKinds, Between, Contract!Init
  <1>2. ContractInv /\ [Next]_vars => ContractInv'
    BY StepContractInv
  <1>3. ContractInv /\ ContractInv' /\ [Next]_vars => [Contract!Next]_(Contract!promise)
    BY RefineStep
  <1> QED
    BY <1>1, <1>2, <1>3, InitContractInv, PTL DEF Spec, KeepsContract, Contract!Spec
=============================================================================
