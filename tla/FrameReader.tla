---------------------------- MODULE FrameReader ----------------------------
(***************************************************************************)
(* How one frame is cut out of the byte stream of the bridge.  The Rust    *)
(* adapter skips to a start byte and then keeps every byte up to the next  *)
(* carriage return (read_raw_frame, protocol.rs); the Python transport     *)
(* takes whatever comes before a carriage return and never looks at the    *)
(* first byte (readln and _decode_hw_frame, transport.py).                 *)
(*                                                                         *)
(* A reply is three bytes here: a start byte, the reply itself in place of *)
(* all that its checksum covers, and an end byte.  One of them may be      *)
(* changed or dropped on the serial line, the line may babble between two  *)
(* replies, and a read may time out between any two bytes.  At the level   *)
(* of frames all of this has to look as SourceLink says.                   *)
(***************************************************************************)
EXTENDS Integers, FiniteSets, SequencesExt

CONSTANTS
    ScanStart, ScanEnd, Present, InfoLen, Lossy, BridgeKeeps, None, \* SourceLink
    Asked,             \* the requests <<address, kind>> that the client makes
    Start, End, Noise, \* `~', the carriage return, any other stray byte
    MaxBytes           \* bound: no more bytes than this are under way

VARIABLES
    pending,  \* the answers the modules owe and have not begun to send
    stream,   \* the bytes on their way to the client
    buf,      \* the bytes of the frame being read
    frame,    \* the frame the last read returned, or None
    request, up, calm,
    skips     \* TRUE: the Rust adapter; FALSE: the Python transport

vars == <<pending, stream, buf, frame, request, up, calm, skips>>

Marks == {Start, End, Noise}

\* What may stand in front of a reply for the checksum to be right.
Heads == IF skips THEN {Start} ELSE {Start, Noise}

\* The replies that arrive unharmed in the bytes s.
Readable(s) ==
    {s[i] : i \in {j \in 2..Len(s) - 1 :
                      s[j] \notin Marks /\ s[j - 1] \in Heads /\ s[j + 1] = End}}

Wire == pending \cup Readable(buf \o stream)

Link == INSTANCE SourceLink WITH wire <- Wire

\* A byte with a meaning of its own is none of the payload (which is sent in
\* hex digits), and only modules of the range are asked.
ASSUME BytesAssumption ==
    /\ Start # End /\ Start # Noise /\ End # Noise
    /\ Marks \cap Link!Reply = {} /\ None \notin Marks
    /\ Asked \subseteq Link!Address \X Link!Kinds /\ MaxBytes \in Nat

\* The constants of the link, as in SourceLink.
ASSUME RangeAssumption ==
    /\ ScanStart \in Nat /\ ScanEnd \in Nat /\ ScanStart <= ScanEnd
    /\ Lossy \in BOOLEAN /\ BridgeKeeps \in Nat
    /\ None \notin Link!Request /\ None \notin Link!Reply

Init ==
    /\ pending = {} /\ stream = <<>> /\ buf = <<>> /\ frame = None
    /\ request = None /\ up = FALSE /\ calm = FALSE
    /\ skips \in BOOLEAN

-----------------------------------------------------------------------------
(* The client.                                                             *)

\* Bound: the wire is a set, in which two late replies to one question
\* would be one.  They take a bridge that replays an old reply, the same
\* question asked again, and a timeout with both replies still to come.
OneReplyEach == \A r, q \in Wire : r.addr = q.addr /\ r.kind = q.kind => r = q

(* PylontechClient::request writes a request, whether or not an old reply  *)
(* to it may still come; every reply under way is late from now on.        *)
Ask(a, k) ==
    /\ up /\ request = None
    /\ OneReplyEach
    /\ request' = [addr |-> a, kind |-> k]
    /\ pending' = Link!Outdated(pending) \cup Link!Answers(a, k)
    /\ stream' = [i \in DOMAIN stream |->
                     IF stream[i] \in Marks THEN stream[i]
                                            ELSE [stream[i] EXCEPT !.own = FALSE]]
    /\ frame' = None
    /\ UNCHANGED <<buf, up, calm, skips>>

\* Bytes before the start byte are dropped.
SkipByte ==
    /\ request # None /\ stream # <<>>
    /\ skips /\ buf = <<>> /\ Head(stream) # Start
    /\ stream' = Tail(stream)
    /\ UNCHANGED <<pending, buf, frame, request, up, calm, skips>>

\* Has the frame at hand begun with its next byte, if not before?
Begun == buf # <<>> \/ ~skips \/ Head(stream) = Start

(* A byte of the frame, a second start byte included.  The buffer of the   *)
(* code grows without a bound; here four bytes stand for more than three,  *)
(* none of which will pass for a reply.                                    *)
KeepByte ==
    /\ request # None /\ stream # <<>>
    /\ Begun /\ Head(stream) # End
    /\ buf' = Append(IF Len(buf) = 4 THEN Tail(buf) ELSE buf, Head(stream))
    /\ stream' = Tail(stream)
    /\ UNCHANGED <<pending, frame, request, up, calm, skips>>

\* Mutant: what follows the reply within the line is ignored.
DecodedPrefix(s) ==
    IF Len(s) >= 2 /\ s[1] \in Heads /\ s[2] \notin Marks THEN s[2] ELSE None

\* The frame that the checksum and the header of the line s let through.
Decoded(s) ==
    IF Len(s) = 2 /\ s[1] \in Heads /\ s[2] \notin Marks THEN s[2] ELSE None

EndFrame ==
    /\ request # None /\ stream # <<>>
    /\ Begun /\ Head(stream) = End
    /\ frame' = Decoded(buf)
    /\ request' = None
    /\ buf' = <<>> /\ stream' = Tail(stream)
    /\ UNCHANGED <<pending, up, calm, skips>>

\* Mutant: a timeout keeps the bytes read for the next request.
TimedOutKeepingBuffer ==
    /\ request # None
    /\ calm => stream = <<>> /\ \A r \in pending : ~r.own
    /\ request' = None
    /\ UNCHANGED <<pending, stream, buf, frame, up, calm, skips>>

\* Mutant: the timeout runs only once a frame has begun.
TimedOutInFrame ==
    /\ request # None
    /\ buf # <<>>
    /\ calm => stream = <<>> /\ \A r \in pending : ~r.own
    /\ request' = None
    /\ buf' = <<>>
    /\ UNCHANGED <<pending, stream, frame, up, calm, skips>>

\* The next byte does not come in time; the bytes read are dropped.
TimedOut ==
    /\ request # None
    /\ calm => stream = <<>> /\ \A r \in pending : ~r.own
    /\ request' = None
    /\ buf' = <<>>
    /\ UNCHANGED <<pending, stream, frame, up, calm, skips>>

IoError ==
    /\ request # None /\ ~up
    /\ request' = None
    /\ buf' = <<>>
    /\ UNCHANGED <<pending, stream, frame, up, calm, skips>>

Reader == SkipByte \/ KeepByte \/ EndFrame \/ TimedOut \/ IoError

\* A new connection; the bridge may hand over complete old replies.
OpenLink ==
    /\ request = None
    /\ up' = TRUE
    /\ stream' = <<>>
    /\ pending' \in {w \in SUBSET Link!Outdated(Wire) : Cardinality(w) <= BridgeKeeps}
    /\ UNCHANGED <<buf, frame, request, calm, skips>>

-----------------------------------------------------------------------------
(* The batteries, the serial line and the bridge: external.                *)

Clean(r) == <<Start, r, End>>

(* One byte dropped, one byte changed, or nothing left.  A first byte that *)
(* becomes a carriage return is left out: it could mend the frame before.  *)
Damaged(r) ==
    LET dropped == {RemoveAt(Clean(r), i) : i \in 1..3}
        changed == {ReplaceAt(Clean(r), i, b) : i \in 1..3, b \in Marks}
    IN  {<<>>} \cup ({s \in dropped \cup changed : s[1] # End} \ {Clean(r)})

\* A module sends its answers in the order of its requests.
Transmit ==
    \E r \in pending :
        /\ r.own => \A q \in pending : q.addr = r.addr => q.own
        /\ pending' = pending \ {r}
        /\ \E s \in {Clean(r)} \cup (IF Lossy /\ ~calm THEN Damaged(r) ELSE {}) :
              /\ Len(buf \o stream \o s) <= MaxBytes
              /\ stream' = stream \o s
        /\ UNCHANGED <<buf, frame, request, up, calm, skips>>

Babble ==
    /\ ~calm /\ Len(buf \o stream) < MaxBytes
    /\ \E b \in {Start, Noise} : stream' = Append(stream, b)
    /\ UNCHANGED <<pending, buf, frame, request, up, calm, skips>>

LinkDown ==
    /\ ~calm /\ up /\ up' = FALSE
    /\ UNCHANGED <<pending, stream, buf, frame, request, calm, skips>>

\* The faults end, on a line without remains of a frame.
BecomeCalm ==
    /\ ~calm /\ stream = <<>> /\ buf = <<>>
    /\ calm' = TRUE
    /\ UNCHANGED <<pending, stream, buf, frame, request, up, skips>>

Next ==
    \/ \E q \in Asked : Ask(q[1], q[2])
    \/ Reader \/ OpenLink \/ Transmit \/ Babble \/ LinkDown \/ BecomeCalm

Spec == Init /\ [][Next]_vars

\* A blocking read returns, and once the faults have stopped the answers
\* that are owed arrive.
FairSpec == Spec /\ WF_vars(Reader) /\ WF_vars(Transmit)

-----------------------------------------------------------------------------
(* Whatever happens to single bytes - changed, dropped, added, or left     *)
(* behind by a read that timed out - costs at most the reply that is being *)
(* read: at frame level the reader implements SourceLink, which all that   *)
(* is checked of the sessions rests on (read_raw_frame, readln).           *)
ImplementsLink == Link!LinkSpec

(* A frame that a read returns is a whole reply, one whose turn it is, and *)
(* never the remains of one reply completed by bytes of another (a frame   *)
(* that lost its carriage return runs into the next one).                  *)
ReadsWholeReplies ==
    [][frame' \notin {None, frame} =>
          frame' \in Link!Deliverable /\ Wire' = Wire \ {frame'}]_vars

(* Once the line is quiet, every read comes to an end, with a frame or     *)
(* with a timeout.  A line that babbles for ever without a carriage return *)
(* would hold it for ever: the timeout is one of a single byte.            *)
ReadsEnd == <>calm => (request # None ~> request = None)
=============================================================================
