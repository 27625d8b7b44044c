----------------------------- MODULE SourceLink -----------------------------
(***************************************************************************)
(* The serial bus behind the TCP bridge, as PylontechClient of the Rust    *)
(* adapter uses it: one request is written, then one frame is read and     *)
(* parsed (protocol.rs, request and read_raw_frame).  A frame carries the  *)
(* address and the command of the module that sent it, but the client      *)
(* never compares them with the request it is waiting on.  What keeps the  *)
(* answers apart is therefore what this module is about: which frames can  *)
(* be under way at a time, and which frames a parser accepts.              *)
(*                                                                         *)
(* The batteries, the bus and the bridge are external.  A module that is   *)
(* present answers every request once; its answers keep their order, but   *)
(* come late, are damaged or (Lossy) vanish.  Answers of different modules *)
(* may overtake one another.                                               *)
(***************************************************************************)
EXTENDS Integers, FiniteSets

CONSTANTS
    ScanStart, ScanEnd,  \* the configured address range, both ends included
    Present,             \* the addresses at which a battery module answers
    InfoLen,             \* length of the INFO field in each kind of reply
    Lossy,               \* may the bus swallow a reply without a trace?
    BridgeKeeps,         \* how many replies that a connection did not read
                         \* the bridge hands to the next one (a bound)
    None                 \* no request, no reply

Address == ScanStart..ScanEnd
\* What is asked of a module.  "probe" is a serial number request whose reply
\* the Python client does not look into; the Rust adapter sends none.
Kinds == {"probe", "serial", "manufacturer", "values", "system", "management"}
Request == [addr : Address, kind : Kinds]

\* `own' is a history mark that no code reads: the reply belongs to the
\* request that is outstanding, or that was when the reply was taken.
Reply == [addr : Address, kind : Kinds, own : BOOLEAN]

ASSUME LinkAssumption ==
    /\ ScanStart \in Nat /\ ScanEnd \in Nat /\ ScanStart <= ScanEnd
    /\ Lossy \in BOOLEAN /\ BridgeKeeps \in Nat
    /\ None \notin Request /\ None \notin Reply

(* A reply of another kind never has the length of a system or management  *)
(* reply: a manufacturer reply ends in a name of variable length, a values *)
(* reply has two bytes for every cell and every temperature.               *)
ASSUME ReplyLengths ==
    /\ InfoLen \in [Kinds -> Nat]
    /\ InfoLen["probe"] = 17 /\ InfoLen["serial"] = 17 /\ InfoLen["system"] = 25
    /\ InfoLen["management"] = 10 /\ InfoLen["manufacturer"] >= 12
    /\ InfoLen["manufacturer"] # 25 /\ InfoLen["values"] \notin {10, 25}

VARIABLES
    wire,     \* the replies that have been sent and not been read
    request,  \* the request PylontechClient waits on, or None
    up,       \* is the TCP connection usable?
    calm      \* has the environment stopped misbehaving for good?

link == <<wire, request, up>>

LinkTypeOK ==
    /\ wire \subseteq Reply
    /\ request \in Request \cup {None}
    /\ up \in BOOLEAN
    /\ calm \in BOOLEAN

-----------------------------------------------------------------------------
\* Mutant: the values parser ignores the address in the payload.
ParsesAnyModule(req, r) ==
    /\ req.kind = "serial" => InfoLen[r.kind] = 17
    /\ req.kind = "manufacturer" => InfoLen[r.kind] >= 12
    /\ req.kind = "values" => r.kind = "values"
    /\ req.kind = "system" => InfoLen[r.kind] = 25
    /\ req.kind = "management" => InfoLen[r.kind] = 10

\* Mutant: the system parameters parser tolerates trailing bytes.
ParsesTrailing(req, r) ==
    /\ req.kind = "serial" => InfoLen[r.kind] = 17
    /\ req.kind = "manufacturer" => InfoLen[r.kind] >= 12
    /\ req.kind = "values" => r.kind = "values" /\ r.addr = req.addr
    /\ req.kind = "system" => InfoLen[r.kind] >= 25
    /\ req.kind = "management" => InfoLen[r.kind] = 10

(* Does the parser of request req accept the well-formed frame r?  It sees *)
(* the INFO field only; the fixed-size parsers check that it is used up,   *)
(* and the values parser alone finds an address to compare.                *)
Parses(req, r) ==
    /\ req.kind = "serial" => InfoLen[r.kind] = 17
    /\ req.kind = "manufacturer" => InfoLen[r.kind] >= 12
    /\ req.kind = "values" => r.kind = "values" /\ r.addr = req.addr
    /\ req.kind = "system" => InfoLen[r.kind] = 25
    /\ req.kind = "management" => InfoLen[r.kind] = 10

\* The replies of w once the client has given up on the requests they answer.
Outdated(w) == {[addr |-> r.addr, kind |-> r.kind, own |-> FALSE] : r \in w}

\* A module's answers arrive in the order of its requests.
Deliverable ==
    {r \in wire : r.own => \A q \in wire : q.addr = r.addr => q.own}

Answers(a, k) ==
    IF a \in Present THEN {[addr |-> a, kind |-> k, own |-> TRUE]} ELSE {}

(* PylontechClient::request writes and flushes the request.                *)
Send(a, k) ==
    /\ up
    /\ request = None
    /\ request' = [addr |-> a, kind |-> k]
    /\ wire' = Outdated(wire) \cup Answers(a, k)

\* The next frame to arrive is r, and the parser accepts it.
Answered(r) ==
    /\ request # None
    /\ r \in Deliverable
    /\ Parses(request, r)
    /\ request' = None
    /\ wire' = wire \ {r}

\* The next frame to arrive is well-formed, but the parser rejects it.
Unparsed ==
    /\ request # None
    /\ \E r \in Deliverable : ~Parses(request, r) /\ wire' = wire \ {r}
    /\ request' = None

\* What a damaged frame, or half a frame, may leave on the wire.
AllButOne == {wire} \cup {wire \ {r} : r \in Deliverable}

\* A damaged reply, or noise that looks like a frame: the checksum, the
\* header or the hex digits are wrong.
Garbled ==
    /\ ~calm
    /\ request # None
    /\ wire' \in AllButOne
    /\ request' = None

\* The read timeout expires; the bytes of a frame that had begun are lost.
TimedOut ==
    /\ request # None
    /\ calm => \A r \in wire : ~r.own
    /\ wire' \in AllButOne
    /\ request' = None

\* Writing or reading fails because the connection is gone.
IoError ==
    /\ ~up
    /\ wire' \in AllButOne
    /\ request' = None

RequestFails == Unparsed \/ Garbled \/ TimedOut \/ IoError

(* TcpStream::connect, with nothing or some old replies to read.           *)
OpenLink ==
    /\ up' = TRUE
    /\ request' = None
    /\ IF BridgeKeeps = 0
          THEN wire' = {}
          ELSE wire' \in {w \in SUBSET Outdated(wire) : Cardinality(w) <= BridgeKeeps}

\* Environment: the connection breaks, a reply vanishes, the faults end.
LinkDown == ~calm /\ up /\ up' = FALSE /\ UNCHANGED <<wire, request, calm>>

LoseReply ==
    /\ Lossy /\ ~calm
    /\ \E r \in wire : wire' = wire \ {r}
    /\ UNCHANGED <<request, up, calm>>

BecomeCalm == ~calm /\ calm' = TRUE /\ UNCHANGED link

-----------------------------------------------------------------------------
(* The link by itself, with a client that may ask anything: what a reader  *)
(* of the byte stream has to implement.                                    *)
LinkInit == wire = {} /\ request = None /\ up = FALSE /\ calm = FALSE

LinkNext ==
    \/ \E a \in Address, k \in Kinds : Send(a, k) /\ UNCHANGED <<up, calm>>
    \/ /\ RequestFails \/ \E r \in wire : Answered(r)
       /\ UNCHANGED <<up, calm>>
    \/ OpenLink /\ UNCHANGED calm
    \/ LinkDown \/ LoseReply \/ BecomeCalm

LinkSpec == LinkInit /\ [][LinkNext]_<<link, calm>>
=============================================================================
