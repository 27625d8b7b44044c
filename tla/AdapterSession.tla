--------------------------- MODULE AdapterSession ---------------------------
(***************************************************************************)
(* The main thread of the Rust adapter: run, run_session and               *)
(* run_session_inner of main.rs with the scan of protocol.rs and the       *)
(* publications of mqtt.rs.  A session connects to the broker, dials the   *)
(* bridge, scans the address range, announces the modules it found and     *)
(* then polls them for ever; the first error after the scan ends it, and   *)
(* after a delay the next session starts from nothing.                     *)
(*                                                                         *)
(* The event loop of the MQTT client is seen through its flag `healthy'    *)
(* only.  `topic', `stack' and `announced' hold what the session last      *)
(* handed over for publication on each topic.                              *)
(***************************************************************************)
EXTENDS SourceLink

CONSTANTS InitialDelay, MaxDelay  \* bounds of the reconnect delay

ASSUME DelayAssumption ==
    /\ InitialDelay \in Nat \ {0}
    /\ MaxDelay \in Nat
    /\ InitialDelay <= MaxDelay

VARIABLES
    phase,      \* where the main thread is
    todo,       \* addresses the loop at hand has still to visit
    step,       \* the request of the probe at hand (while scanning)
    serial,     \* the frame taken as the serial number of each address
    maker,      \* the frame taken as its manufacturer info
    modules,    \* the addresses of the modules the scan found
    states,     \* the values frame read from each module in this cycle
    due,        \* is it time to poll the management info?
    healthy,    \* MqttPublisher.healthy
    topic,      \* last payload of this session for each per-module topic
    stack,      \* the frames aggregated in its last stack state
    announced,  \* the identity it published in each module's discovery
    current     \* ReconnectBackoff.current

scanned == <<serial, maker, modules>>
published == <<topic, stack, announced>>
vars == <<wire, request, up, calm, phase, todo, step, serial, maker, modules,
          states, due, healthy, topic, stack, announced, current>>

DataKinds == {"system", "management", "values"}
Asking == {"scan"} \cup DataKinds
InSession == DataKinds \cup {"announce", "check", "stack", "publish", "sleep"}
Phases == {"start", "dial", "scan", "failed", "backoff"} \cup InSession
Frame == Reply \cup {None}
Nothing == [a \in Address |-> None]

TypeOK ==
    /\ LinkTypeOK
    /\ phase \in Phases
    /\ todo \subseteq Address
    /\ step \in {"serial", "manufacturer", "values"}
    /\ serial \in [Address -> Frame]
    /\ maker \in [Address -> Frame]
    /\ modules \subseteq Address
    /\ states \in [Address -> Frame]
    /\ due \in BOOLEAN
    /\ healthy \in BOOLEAN
    /\ topic \in [DataKinds -> [Address -> Frame]]
    /\ stack \subseteq Reply
    /\ announced \in [Address -> Frame \X Frame]
    /\ current \in InitialDelay..MaxDelay

Init ==
    /\ wire = {} /\ request = None /\ up = FALSE /\ calm = FALSE
    /\ phase = "start" /\ todo = {} /\ step = "serial"
    /\ serial = Nothing /\ maker = Nothing /\ modules = {} /\ states = Nothing
    /\ due = TRUE /\ healthy = TRUE
    /\ topic = [k \in DataKinds |-> Nothing] /\ stack = {}
    /\ announced = [a \in Address |-> <<None, None>>]
    /\ current = InitialDelay

\* A session starts with nothing found and nothing published.
Afresh ==
    /\ todo' = Address /\ step' = "serial"
    /\ serial' = Nothing /\ maker' = Nothing /\ modules' = {} /\ states' = Nothing
    /\ topic' = [k \in DataKinds |-> Nothing] /\ stack' = {}
    /\ announced' = [a \in Address |-> <<None, None>>]

\* Every loop visits its addresses in ascending order.
First(a) == a \in todo /\ \A b \in todo : a <= b

\* The loop is done with address a; after the last one `then' follows.
Visited(a, then) ==
    IF todo = {a} THEN phase' = then /\ todo' = modules
                  ELSE phase' = phase /\ todo' = todo \ {a}

-----------------------------------------------------------------------------
(* Session set-up (run_session, run_session_inner).                        *)

\* Mutant: the flag of the previous client is kept.
ConnectMqttStaleFlag ==
    /\ phase = "start"
    /\ phase' = "dial"
    /\ healthy' = healthy
    /\ UNCHANGED <<link, calm, todo, step, scanned, states, due, published, current>>

ConnectMqtt ==
    /\ phase = "start"
    /\ phase' = "dial"
    /\ healthy' = TRUE
    /\ UNCHANGED <<link, calm, todo, step, scanned, states, due, published, current>>

Dial ==
    /\ phase = "dial"
    /\ OpenLink
    /\ phase' = "scan"
    /\ Afresh
    /\ UNCHANGED <<calm, due, healthy, current>>

DialFails ==
    /\ ~calm
    /\ phase = "dial"
    /\ phase' = "failed"
    /\ UNCHANGED <<link, calm, todo, step, scanned, states, due, healthy, published,
                   current>>

-----------------------------------------------------------------------------
(* One request: every request is a write followed by a blocking read.      *)

Ask ==
    /\ phase \in Asking
    /\ \E a \in todo : First(a) /\ Send(a, IF phase = "scan" THEN step ELSE phase)
    /\ UNCHANGED <<up, calm, phase, todo, step, scanned, states, due, healthy,
                   published, current>>

(* The scan (scan_modules, try_discover_module): three requests for each   *)
(* address; any error gives the address up and goes on with the next.      *)

ReadSerial ==
    /\ phase = "scan" /\ step = "serial"
    /\ \E r \in wire :
          Answered(r) /\ serial' = [serial EXCEPT ![request.addr] = r]
    /\ step' = "manufacturer"
    /\ UNCHANGED <<up, calm, phase, todo, maker, modules, states, due, healthy,
                   published, current>>

\* Mutant: the module is accepted without a look at its values.
ReadMakerAndAccept ==
    /\ phase = "scan" /\ step = "manufacturer"
    /\ \E r \in wire :
          Answered(r) /\ maker' = [maker EXCEPT ![request.addr] = r]
    /\ modules' = modules \cup {request.addr}
    /\ todo' = todo \ {request.addr}
    /\ step' = "serial"
    /\ UNCHANGED <<up, calm, phase, serial, states, due, healthy, published, current>>

ReadMaker ==
    /\ phase = "scan" /\ step = "manufacturer"
    /\ \E r \in wire :
          Answered(r) /\ maker' = [maker EXCEPT ![request.addr] = r]
    /\ step' = "values"
    /\ UNCHANGED <<up, calm, phase, todo, serial, modules, states, due, healthy,
                   published, current>>

FindModule ==
    /\ phase = "scan" /\ step = "values"
    /\ \E r \in wire : Answered(r)
    /\ modules' = modules \cup {request.addr}
    /\ todo' = todo \ {request.addr}
    /\ step' = "serial"
    /\ UNCHANGED <<up, calm, phase, serial, maker, states, due, healthy, published,
                   current>>

ProbeFails ==
    /\ phase = "scan"
    /\ RequestFails
    /\ \E a \in todo : First(a) /\ todo' = todo \ {a}
    /\ step' = "serial"
    /\ UNCHANGED <<up, calm, phase, scanned, states, due, healthy, published, current>>

EndScan ==
    /\ phase = "scan" /\ todo = {}
    /\ phase' = IF modules = {} THEN "failed" ELSE "announce"
    /\ todo' = modules
    /\ UNCHANGED <<link, calm, step, scanned, states, due, healthy, published, current>>

-----------------------------------------------------------------------------
(* Discovery, system parameters and the poll loop (run_session_inner).     *)

\* publish_module_discovery, all messages of one module.
AnnounceModule ==
    /\ phase = "announce" /\ healthy
    /\ \E a \in todo :
          /\ First(a)
          /\ announced' = [announced EXCEPT ![a] = <<serial[a], maker[a]>>]
          /\ Visited(a, "system")
    /\ UNCHANGED <<link, calm, step, scanned, states, due, healthy, topic, stack,
                   current>>

\* Mutant: the first management poll waits for a whole interval.
ReadSystemNotDue ==
    /\ phase = "system" /\ healthy
    /\ \E r \in wire :
          Answered(r) /\ topic' = [topic EXCEPT !["system"][request.addr] = r]
    /\ Visited(request.addr, "check")
    /\ due' = FALSE
    /\ UNCHANGED <<up, calm, step, scanned, states, healthy, stack, announced,
                   current>>

\* get_system_parameters and publish_system_parameters; the first management
\* poll is due at once.
ReadSystem ==
    /\ phase = "system" /\ healthy
    /\ \E r \in wire :
          Answered(r) /\ topic' = [topic EXCEPT !["system"][request.addr] = r]
    /\ Visited(request.addr, "check")
    /\ due' = TRUE
    /\ UNCHANGED <<up, calm, step, scanned, states, healthy, stack, announced,
                   current>>

\* The head of the loop: ensure_healthy, then the management poll if due.
Check ==
    /\ phase = "check" /\ healthy
    /\ phase' = IF due THEN "management" ELSE "values"
    /\ due' = FALSE
    /\ todo' = modules
    /\ states' = Nothing
    /\ UNCHANGED <<link, calm, step, scanned, healthy, published, current>>

\* get_management_info and publish_management_info.
ReadManagement ==
    /\ phase = "management" /\ healthy
    /\ \E r \in wire :
          Answered(r) /\ topic' = [topic EXCEPT !["management"][request.addr] = r]
    /\ Visited(request.addr, "values")
    /\ UNCHANGED <<up, calm, step, scanned, states, due, healthy, stack, announced,
                   current>>

ReadValues ==
    /\ phase = "values"
    /\ \E r \in wire :
          Answered(r) /\ states' = [states EXCEPT ![request.addr] = r]
    /\ Visited(request.addr, "stack")
    /\ UNCHANGED <<up, calm, step, scanned, due, healthy, published, current>>

\* StackState::from_modules and publish_stack_state.
PublishStack ==
    /\ phase = "stack" /\ healthy
    /\ stack' = {states[a] : a \in modules} \ {None}
    /\ phase' = "publish"
    /\ UNCHANGED <<link, calm, todo, step, scanned, states, due, healthy, topic,
                   announced, current>>

PublishState ==
    /\ phase = "publish" /\ healthy
    /\ \E a \in todo :
          /\ First(a)
          /\ topic' = [topic EXCEPT !["values"][states[a].addr] = states[a]]
          /\ Visited(a, "sleep")
    /\ UNCHANGED <<link, calm, step, scanned, states, due, healthy, stack, announced,
                   current>>

Sleep ==
    /\ phase = "sleep"
    /\ phase' = "check"
    /\ UNCHANGED <<link, calm, todo, step, scanned, states, due, healthy, published,
                   current>>

\* The management interval runs out.
ManagementDue ==
    /\ phase \in {"check", "management", "values", "stack", "publish", "sleep"}
    /\ ~due
    /\ due' = TRUE
    /\ UNCHANGED <<link, calm, phase, todo, step, scanned, states, healthy, published,
                   current>>

-----------------------------------------------------------------------------
(* The end of a session (run, run_session).                                *)

\* Mutant: after a failed request the session asks again.
PollFailsAndRetries ==
    /\ phase \in DataKinds
    /\ RequestFails
    /\ UNCHANGED <<up, calm, phase, todo, step, scanned, states, due, healthy,
                   published, current>>

\* Mutant: a module whose values cannot be read is left out of the cycle.
PollFailsAndSkips ==
    /\ phase \in DataKinds
    /\ RequestFails
    /\ IF phase = "values" THEN \E a \in todo : First(a) /\ Visited(a, "stack")
                           ELSE phase' = "failed" /\ todo' = todo
    /\ UNCHANGED <<up, calm, step, scanned, states, due, healthy, published, current>>

\* The `?' behind every request of the poll loop.
PollFails ==
    /\ phase \in DataKinds
    /\ RequestFails
    /\ phase' = "failed"
    /\ UNCHANGED <<up, calm, todo, step, scanned, states, due, healthy, published,
                   current>>

\* The `?' behind every publication and behind ensure_healthy.
PublishFails ==
    /\ ~healthy
    /\ \/ phase \in {"announce", "check", "stack", "publish"} /\ UNCHANGED link
       \/ /\ phase \in {"system", "management"}
          /\ \E r \in wire : Answered(r)
          /\ UNCHANGED up
    /\ phase' = "failed"
    /\ UNCHANGED <<calm, todo, step, scanned, states, due, healthy, published, current>>

\* Mutant: the delay doubles past its maximum.
NextDelayUncapped == current' = 2 * current

NextDelay == current' = IF 2 * current < MaxDelay THEN 2 * current ELSE MaxDelay

\* MqttPublisher::connect fails: "online" could not be queued.
ConnectMqttFails ==
    /\ ~calm
    /\ phase = "start"
    /\ phase' = "backoff"
    /\ healthy' = FALSE
    /\ NextDelay
    /\ UNCHANGED <<link, calm, todo, step, scanned, states, due, published>>

\* Both clients are dropped, then the main thread goes to sleep.
FailSession ==
    /\ phase = "failed"
    /\ phase' = "backoff"
    /\ up' = FALSE
    /\ NextDelay
    /\ UNCHANGED <<wire, request, calm, todo, step, scanned, states, due, healthy,
                   published>>

Reconnect ==
    /\ phase = "backoff"
    /\ phase' = "start"
    /\ UNCHANGED <<link, calm, todo, step, scanned, states, due, healthy, published,
                   current>>

-----------------------------------------------------------------------------
MqttDown ==
    /\ ~calm /\ healthy
    /\ healthy' = FALSE
    /\ UNCHANGED <<link, calm, phase, todo, step, scanned, states, due, published,
                   current>>

Thread ==
    \/ ConnectMqtt \/ ConnectMqttFails \/ Dial \/ DialFails
    \/ Ask \/ ReadSerial \/ ReadMaker \/ FindModule \/ ProbeFails \/ EndScan
    \/ AnnounceModule \/ ReadSystem \/ Check \/ ReadManagement \/ ReadValues
    \/ PublishStack \/ PublishState \/ Sleep
    \/ PollFails \/ PublishFails \/ FailSession \/ Reconnect

Environment ==
    \/ ManagementDue \/ MqttDown
    \/ /\ LinkDown \/ LoseReply \/ BecomeCalm
       /\ UNCHANGED <<phase, todo, step, scanned, states, due, healthy, published,
                      current>>

Next == Thread \/ Environment

Spec == Init /\ [][Next]_vars

\* The main thread is one loop without waits of its own: every read has a
\* timeout, every sleep ends.  Nothing is assumed of the environment.
FairSpec == Spec /\ WF_vars(Thread)

-----------------------------------------------------------------------------
Own(a, k) == [addr |-> a, kind |-> k, own |-> TRUE]

(* Whatever is published for a module was sent by that module, in answer   *)
(* to the request it is published for - although no parser but that of the *)
(* values looks at the sender, and none at the command (protocol.rs,       *)
(* parse_response_frame).  Late answers to the scan's requests must not    *)
(* be taken for system parameters or management info.                      *)
PublishedOwn ==
    /\ \A k \in DataKinds, a \in Address : topic[k][a] \in {None, Own(a, k)}
    /\ stack \subseteq {Own(a, "values") : a \in Address}

(* Once the scan is over, an answer that comes late is one the fixed-size  *)
(* parsers and the address check reject: a session in which a poll went    *)
(* unanswered sends no further request.                                    *)
LateRepliesHarmless ==
    phase \in InSession =>
        \A r \in wire : ~r.own =>
            /\ r.kind \notin {"system", "management"}
            /\ r.kind = "values" => r.addr \notin modules

(* The scan reports a module only at an address where one answered, late   *)
(* answers of its neighbours notwithstanding (try_discover_module).        *)
NoGhostModule == modules \subseteq Present

(* While the module states of a cycle are published, the stack state is    *)
(* made of one state of every module of the session: a cycle that misses   *)
(* a module publishes nothing (run_session_inner), and the address in the  *)
(* values payload keeps the modules apart even if old replies turn up.     *)
StackCoversModules ==
    phase \in {"publish", "sleep"} =>
        /\ {r.addr : r \in stack} = modules
        /\ \A r, q \in stack : r.addr = q.addr => r = q

(* Discovery announces each module under its own serial number and its own *)
(* manufacturer info.  Only a bus that swallows replies can break this:    *)
(* the scan then matches the questions of one probe with answers of        *)
(* another (try_discover_module compares no address for the two).          *)
AnnouncedIdentityOwn ==
    \A a \in Address :
        announced[a] \in {<<None, None>>,
                          <<Own(a, "serial"), Own(a, "manufacturer")>>}

(* When the environment stops misbehaving, the adapter completes polling   *)
(* cycles for ever, whatever state the faults have left it in (run).       *)
Recovers == <>calm => []<>(phase = "sleep")
=============================================================================
