--------------------------- MODULE PylontechClient ---------------------------
(***************************************************************************)
(* The Python client (pylontech.py) on one connection after another: the   *)
(* scan of the address range and the polling of what it found.  Compared   *)
(* with the Rust adapter it takes nothing but the INFO field of a reply    *)
(* seriously: no parser compares an address, none minds trailing bytes,    *)
(* and of the first reply of each probe only the presence is looked at.    *)
(*                                                                         *)
(* Every exception ends up in the retry loop of the poller, which makes a  *)
(* new client on a new connection; the loop itself is module Poller.       *)
(***************************************************************************)
EXTENDS SourceLink

VARIABLES
    phase,    \* "connect", "scan", "poll"
    todo,     \* addresses the loop at hand has still to visit
    step,     \* the request of the scan at hand
    taken,    \* the frames taken as the answers of each address in the scan
    ids,      \* PylontechStackData.ids
    result,   \* the values frames of the poll at hand
    yielded   \* the last result that poll_parameters yielded

vars == <<wire, request, up, calm, phase, todo, step, taken, ids, result, yielded>>

Identity == {"serial", "system", "management", "manufacturer"}
Frame == Reply \cup {None}
Blank == [k \in Identity |-> None]
Nothing == [a \in Address |-> None]

TypeOK ==
    /\ LinkTypeOK
    /\ phase \in {"connect", "scan", "poll"}
    /\ todo \subseteq Address
    /\ step \in {"probe"} \cup Identity
    /\ taken \in [Address -> [Identity -> Frame]]
    /\ ids \subseteq Address
    /\ result \in [Address -> Frame]
    /\ yielded \in [Address -> Frame]

Init ==
    /\ wire = {} /\ request = None /\ up = FALSE /\ calm = FALSE
    /\ phase = "connect" /\ todo = {} /\ step = "probe"
    /\ taken = [a \in Address |-> Blank] /\ ids = {}
    /\ result = Nothing /\ yielded = Nothing

(* Does the construct that parses the reply to req accept the frame r?  It *)
(* needs enough bytes; only the lists in a values reply need more.         *)
Accepts(req, r) ==
    /\ req.kind = "serial" => InfoLen[r.kind] >= 17
    /\ req.kind = "system" => InfoLen[r.kind] >= 25
    /\ req.kind = "management" => InfoLen[r.kind] >= 10
    /\ req.kind = "manufacturer" => InfoLen[r.kind] >= 12
    /\ req.kind = "values" => r.kind = "values"

\* PylontechStackData.range: from the lowest to the highest module.
Span(I) == {a \in Address : \E b, c \in I : b <= a /\ a <= c}

First(a) == a \in todo /\ \A b \in todo : a <= b

-----------------------------------------------------------------------------
\* A new transport and a new client, and the scan begins (poller.py, run).
Connect ==
    /\ phase = "connect"
    /\ OpenLink
    /\ phase' = "scan" /\ todo' = Address /\ step' = "probe"
    /\ taken' = [a \in Address |-> Blank] /\ ids' = {}
    /\ result' = Nothing /\ yielded' = Nothing
    /\ UNCHANGED calm

\* send_cmd: a write, and then the caller waits for a line.
Ask ==
    /\ phase \in {"scan", "poll"}
    /\ \E a \in todo : First(a) /\ Send(a, IF phase = "scan" THEN step ELSE "values")
    /\ UNCHANGED <<up, calm, phase, todo, step, taken, ids, result, yielded>>

\* readln after the probe returns something: any line, even half a line.
ProbeHeard ==
    /\ request # None /\ request.kind = "probe"
    /\ \/ \E r \in Deliverable : wire' = wire \ {r}
       \/ ~calm /\ wire' \in AllButOne
    /\ request' = None /\ step' = "serial"
    /\ UNCHANGED <<up, calm, phase, todo, taken, ids, result, yielded>>

\* readln returns nothing in time; what comes later stays on the wire.
Silence ==
    /\ request # None
    /\ calm => \A r \in wire : ~r.own
    /\ request' = None
    /\ UNCHANGED wire

\* Mutant: silence after the probe is an error like any other.
SilenceAborts ==
    /\ request # None /\ request.kind = "probe"
    /\ Silence
    /\ phase' = "connect"
    /\ UNCHANGED <<up, calm, todo, step, taken, ids, result, yielded>>

\* Nothing was heard: there is no battery at this address.
NoBattery ==
    /\ request # None /\ request.kind = "probe"
    /\ Silence
    /\ todo' = todo \ {request.addr}
    /\ UNCHANGED <<up, calm, phase, step, taken, ids, result, yielded>>

\* read_frame: the checksum is right and the construct finds what it needs.
Takes(r) ==
    /\ request # None /\ r \in Deliverable
    /\ Accepts(request, r)
    /\ request' = None
    /\ wire' = wire \ {r}

After(k) == CASE k = "serial" -> "system"
              [] k = "system" -> "management"
              [] k = "management" -> "manufacturer"
              [] k = "manufacturer" -> "probe"

\* Mutant: the serial number is all that is asked for.
SerialSuffices ==
    /\ request # None /\ request.kind \in Identity
    /\ \E r \in wire :
          Takes(r) /\ taken' = [taken EXCEPT ![request.addr][request.kind] = r]
    /\ step' = "probe"
    /\ todo' = todo \ {request.addr} /\ ids' = ids \cup {request.addr}
    /\ UNCHANGED <<up, calm, phase, result, yielded>>

\* get_module_serial_number, get_system_parameters, get_management_info and
\* get_manufacturer_info; after the last the battery is on the list.
ReadIdentity ==
    /\ request # None /\ request.kind \in Identity
    /\ \E r \in wire :
          Takes(r) /\ taken' = [taken EXCEPT ![request.addr][request.kind] = r]
    /\ step' = After(request.kind)
    /\ IF request.kind = "manufacturer"
          THEN todo' = todo \ {request.addr} /\ ids' = ids \cup {request.addr}
          ELSE UNCHANGED <<todo, ids>>
    /\ UNCHANGED <<up, calm, phase, result, yielded>>

\* The scan returns; the range of an empty stack raises.
EndScan ==
    /\ phase = "scan" /\ todo = {}
    /\ phase' = IF ids = {} THEN "connect" ELSE "poll"
    /\ todo' = Span(ids)
    /\ UNCHANGED <<link, calm, step, taken, ids, result, yielded>>

\* get_values_single.
ReadValues ==
    /\ request # None /\ request.kind = "values"
    /\ \E r \in wire : Takes(r) /\ result' = [result EXCEPT ![request.addr] = r]
    /\ todo' = todo \ {request.addr}
    /\ UNCHANGED <<up, calm, phase, step, taken, ids, yielded>>

\* poll_parameters yields, and goes on when it is asked for the next state.
Yield ==
    /\ phase = "poll" /\ todo = {}
    /\ yielded' = result
    /\ result' = Nothing
    /\ todo' = Span(ids)
    /\ UNCHANGED <<link, calm, phase, step, taken, ids>>

\* Mutant: a poll that fails is tried again with the same client.
FailsAndPollsOn ==
    /\ request # None /\ request.kind # "probe"
    /\ \/ Silence \/ Garbled
       \/ /\ \E r \in Deliverable : ~Accepts(request, r) /\ wire' = wire \ {r}
          /\ request' = None
    /\ phase' = IF phase = "poll" THEN "poll" ELSE "connect"
    /\ UNCHANGED <<up, calm, todo, step, taken, ids, result, yielded>>

\* Mutant: a battery whose values cannot be read is left out of the state.
FailsAndLeavesOut ==
    /\ request # None /\ request.kind # "probe"
    /\ \/ Silence \/ Garbled
       \/ /\ \E r \in Deliverable : ~Accepts(request, r) /\ wire' = wire \ {r}
          /\ request' = None
    /\ IF phase = "poll" THEN phase' = phase /\ todo' = todo \ {request.addr}
                         ELSE phase' = "connect" /\ todo' = todo
    /\ UNCHANGED <<up, calm, step, taken, ids, result, yielded>>

\* Any exception but that of an absent battery abandons client and connection.
Fails ==
    /\ request # None /\ request.kind # "probe"
    /\ \/ Silence \/ Garbled
       \/ /\ \E r \in Deliverable : ~Accepts(request, r) /\ wire' = wire \ {r}
          /\ request' = None
    /\ phase' = "connect"
    /\ UNCHANGED <<up, calm, todo, step, taken, ids, result, yielded>>

\* Writing on, or reading from, a connection that is gone.
LinkFails ==
    /\ phase \in {"scan", "poll"}
    /\ request # None \/ todo # {}
    /\ IoError
    /\ phase' = "connect"
    /\ UNCHANGED <<up, calm, todo, step, taken, ids, result, yielded>>

Client ==
    \/ Connect \/ Ask \/ ProbeHeard \/ NoBattery \/ ReadIdentity \/ EndScan
    \/ ReadValues \/ Yield \/ Fails \/ LinkFails

Environment ==
    /\ LinkDown \/ LoseReply \/ BecomeCalm
    /\ UNCHANGED <<phase, todo, step, taken, ids, result, yielded>>

Next == Client \/ Environment

Spec == Init /\ [][Next]_vars

\* The client never waits for ever: a line that does not come is given up,
\* and the retry loop makes a new client after each failure.
FairSpec == Spec /\ WF_vars(Client)

-----------------------------------------------------------------------------
(* Each state that poll_parameters yields is made of the values of every   *)
(* address from the lowest module to the highest, each from the module     *)
(* that was asked - though get_values_single does not look at the number   *)
(* of the module, and late answers to the scan may come between.           *)
YieldsOwn ==
    yielded # Nothing =>
        \A a \in Address :
            yielded[a] = IF a \in Span(ids)
                            THEN [addr |-> a, kind |-> "values", own |-> TRUE]
                            ELSE None

(* The probe takes noise or a late answer of another battery for a sign of *)
(* life, and no later request looks at an address either: a scan can list  *)
(* an address where none answers.  But it takes four late answers that     *)
(* others have not taken, one of them long enough for system parameters,   *)
(* and no battery leaves more than one: in a range where fewer than four   *)
(* batteries answer the scan never errs (scan_for_batteries).              *)
GhostsNeedBatteries ==
    4 * Cardinality(ids \ Present) <= Cardinality(Address \cap Present)

(* Once a state has been yielded, the identities found on the same         *)
(* connection are right: each comes from the battery it is listed for.  A  *)
(* scan may well go wrong - late answers to two probes can pass for        *)
(* management and manufacturer info of a third battery - but then as many  *)
(* answers are left over, and the first poll of that battery trips over    *)
(* one of them (get_values_single).                                        *)
PolledIdentityOwn ==
    yielded # Nothing =>
        \A a \in ids, k \in Identity : taken[a][k].addr = a /\ taken[a][k].kind = k

(* When the environment stops misbehaving, states are yielded for ever,    *)
(* absent addresses in the scanned range notwithstanding (poll_parameters, *)
(* scan_for_batteries) - provided the batteries leave no gap: the range    *)
(* that is polled has none.                                                *)
PollsOn == <>calm => []<>(phase = "poll" /\ todo = {})
=============================================================================
