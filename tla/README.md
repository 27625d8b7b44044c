# Models of python-pylontech

TLA+ models of the two programs in this repository that talk to Pylontech batteries over
an RS485 bus behind a TCP bridge: the Rust MQTT adapter (`rust-mqtt-adapter/`) and the
Python library with its poller (`src/pylontech/`, `src/pylontechpoller/`). The modules
are checked with TLC on small instances; all safety properties that TLC checks are also
proved with TLAPS for every value of the constants.

Both programs do the same thing: connect, scan a range of addresses, then ask every
module for its values again and again and pass the answers on. What makes this hard is
one fact about the protocol code: **a reply is never matched with the request it
answers.** `parse_response_frame` (Rust) and `_decode_frame` (Python) read the address
and the command of a reply and drop them. An answer that comes after its timeout is
therefore read as the answer to whatever was asked next. Most of the models are about
why this does, or does not, do harm.

## 1. Inventory

### Components

| Component | State | Operations | Correct if |
|---|---|---|---|
| Rust session (`main.rs`, scan in `protocol.rs`) | position in the session, modules found, states of the cycle, due management poll, reconnect delay | `run`, `run_session`, `run_session_inner`, `ReconnectBackoff`, `scan_modules`, `try_discover_module` | what is published for a module is its own answer; a stack state covers every module; no module is invented; it recovers from any fault |
| Rust bus client (`protocol.rs`) | TCP stream, read buffer | `request`, `read_raw_frame`, `encode_command`, `parse_response_frame`, parsers | single bytes that are lost, changed or added cost at most one reply; what is decoded is what was sent |
| Rust publisher (`mqtt.rs`) | request channel, `healthy`, `last_error`, event-loop thread, connection, last will; retained discovery at the broker | `connect`, `ensure_healthy`, `publish_discovery`, `publish_text`, `publish_offline_best_effort`, the event loop | the availability topic tells the truth; telemetry never goes back to an older session; every sensor is fed; nobody blocks for ever; loops end |
| Rust statistics (`stats.rs`) | nine relaxed atomic counters, the reporter's last snapshot | `record_*`, `snapshot`, `delta_from`, `spawn_reporter` | every frame is counted in exactly one way; differences never go below zero and add up |
| Rust model (`model.rs`) | the accumulators of a loop | `StackState::from_modules`, `to_payload` | the span of the stack, the worst module, whatever is rounded; the same result as the Python poller's |
| Rust configuration (`config.rs`, `error.rs`) | none | `into_config`, `normalize_topic_segment`, `load_password` | what it accepts satisfies what the rest of the program takes for granted |
| Python client (`pylontech.py`, `transport.py`, `schema.py`, `tools.py`) | transport, result of the scan | `scan_for_batteries`, `poll_parameters`, `get_*`, frame codec | what is yielded was sent by the modules asked |
| Python poller (`poller.py`) | error count, update count, list of reporters | `run`: try block and two handlers | gives up after a row of failures, and only then; leaks no reporter |
| Python reporters (`mqtt_reporter.py`, `mongo_reporter.py`, `hass_basic_reporter.py`) | client connections, sensors | constructor, `report_meta`, `report_state`, `cleanup`, `close` | each is closed once |
| Demos, packaging | none | scripts, build files | - |

### How they interact

The Rust main thread owns the bus client and the publisher. It calls them synchronously;
the only other threads are the publisher's event loop (shared: the request channel, an
atomic flag and a mutex-protected text) and the statistics reporter (shared: the
counters). One publisher and one bus client live for one session; the event loop of a
dropped publisher may outlive it. All publishers use the same MQTT client id, so two
live loops throw each other out at the broker.

The Python poller is one thread; a client and its reporters live for one attempt. paho's
network loop is a second thread, inside the MQTT reporter.

### What is hard

* replies that come late, overtake one another, are damaged or vanish;
* a bridge that keeps replies from one connection and hands them to the next;
* a broker connection that dies with or without notice, last wills included;
* threads of a previous session next to those of the current one;
* a full request channel that blocks the main thread, also while it is trying to say
  "offline";
* a byte stream cut into frames by a carriage return alone, with a timeout that may
  expire between any two bytes;
* a reporter thread that reads nine counters one by one while they change;
* sensors put together in one file from tables that name the keys of objects put
  together in another;
* retry loops whose counters and delays must be reset at the right place.

The hazards, each with its line and the properties aimed at it, are in `PROJECT.json`.

## 2. The modules

| Module | Models | Built on |
|---|---|---|
| `SourceLink` | bus, bridge and the request/reply discipline of the bus clients | - |
| `FrameReader` | the byte stream and how both programs cut frames out of it; implements `SourceLink` | `SourceLink` (INSTANCE) |
| `FrameCodec` | the characters of a frame, encoded and decoded in both languages | - |
| `AdapterSession` | the main thread of the Rust adapter | `SourceLink` |
| `AdapterContract` | what a subscriber of the adapter may rely on (abstract) | - |
| `AdapterRefinement` | that `AdapterSession` implements `AdapterContract` | both |
| `MqttPublisher` | publisher, event loops, broker | - |
| `TelemetryOrder` | the telemetry of successive sessions at the broker | `MqttPublisher` |
| `Discovery` | sensors announced to Home Assistant and the objects that feed them | - |
| `RuntimeStats` | counters, the counting main thread, the reporter thread | - |
| `StackState` | the summary of a cycle, against the Python poller's | - |
| `Configuration` | from the command line to the configuration | - |
| `PylontechClient` | the Python client: scan and polling | `SourceLink` |
| `Poller` | the Python retry loop and the reporters' lives | - |
| `*_proofs` | the theorems of section 4 | the module they are named after |
| `Computations_proofs` | those of the three modules that only compute | `StackState`, `Configuration`, `FrameCodec` |
| `MC*` | values of constants for TLC | |

```
  Configuration  (assumptions of all the others)

  FrameCodec     a line is decoded to what was sent, or rejected
      |
  FrameReader    bytes  --implements-->  SourceLink   replies
                                          /        \
                              AdapterSession     PylontechClient -- Poller
                               |implements             (scan, poll)  (retries)
                              AdapterContract
                               |publishes through
      Discovery, StackState -- MqttPublisher -- TelemetryOrder
                               |counted by
                              RuntimeStats
```

Definitions marked `Mutant:` are not part of a model: each is a plausible bug in the
definition that follows it or that it is named after, and breaks one property.

### SourceLink

`wire` is the set of replies that were sent and not read, `request` the request someone
waits on. A reply carries its address, its kind and a mark `own` that no code reads: it
says whether the reply belongs to the request now outstanding. `Send` writes a request,
which makes all replies under way `Outdated`; a module that is `Present` answers at
once. The reader may then get any `Deliverable` reply (answers of one module keep their
order, answers of different modules do not), garbage, a timeout or an I/O error.
`Parses` says which frames a Rust parser accepts: the fixed-size parsers check the
length of the INFO field and that it is used up, the values parser alone finds an
address in the payload to compare. `Accepts` is its counterpart for the Python
constructs. `Lossy` lets the bus swallow replies, `BridgeKeeps` bounds how many unread
replies the bridge hands to the next connection.

Assumed of the batteries (`ReplyLengths`): a values reply is neither 10 nor 25 bytes
long and a manufacturer reply not 25, which is what the fixed layouts in `protocol.rs`
give for any real number of cells; and no reply of another kind happens to parse as
values. `wire` holds at most one outdated reply of each address and kind: a second copy
could be taken by the same requests only. A timeout in the middle of a frame may lose
the frame (its bytes are dropped by `read_raw_frame`), hence the choice in `AllButOne`.
What was received before a connection broke may still be read. The probe of the Python
client is a kind of its own, `"probe"`, so that its reply and that of the serial number
request that follows are two; in all else they are equal. `LinkSpec` is the link by
itself, with a client that may ask anything.

### FrameReader and FrameCodec

`FrameReader` replaces `wire` by bytes: `pending` answers that modules owe, the `stream`
under way, the bytes `buf` of the frame being read. `SkipByte`, `KeepByte`, `EndFrame`,
`TimedOut` and `IoError` are the loop of `read_raw_frame`, with `skips` false that of
`readln`, which does not look for a start byte. A second start byte is a byte like any
other. The line may drop or change one byte of a reply, or babble between replies. A
reply is three bytes, the middle one standing for all that the checksum covers. The
refinement maps `wire` to the answers owed plus the replies that are whole in `buf \o
stream`. A question may be asked again while the bridge replays its old reply. As the
wire is a set, the bound `OneReplyEach` of `Ask` leaves one case out: two late replies
to the same question. They take a replay, the same question asked again, and a timeout
with both replies still to come, after which the client goes on with the same
connection, as only a scan does.

That the checksum lets no damaged frame through is the subject of `FrameCodec`, where a
frame is its characters. One character of it is changed, lost or added (`Change`,
`Lose`, `Add`), a second frame, `behind`, follows on the line, and both decoders are
applied as written: hex digits of either case, the plus sign that `from_str_radix`
takes, lengths with their own checksum nibble, sums that wrap at 2^16 in Rust and do not
in Python. `Raw` and `UpToEnd` are what the two readers hand to their decoders. Python's
`int()` takes more texts for a number than are modelled; `PythonDecode` is therefore the
set of possible results, with the checksum of such a text right or wrong. `fromhex`
skips blanks, and what it makes of data with blanks in it is `Unclear`, which the
properties exclude. A carriage return that the line adds, or makes of another character,
cuts the frame off and is a fault of its own, `"end"`.

### AdapterSession, AdapterContract, AdapterRefinement

One action per request, reply, publication, sleep and failure, in the order of the code:
`ConnectMqtt`, `Dial`, the three requests of `try_discover_module` (`ReadSerial`,
`ReadMaker`, `FindModule`, `ProbeFails`), `EndScan`, `AnnounceModule`, `ReadSystem`, and
the poll loop `Check`, `ReadManagement`, `ReadValues`, `PublishStack`, `PublishState`,
`Sleep`. Every `?` is an action of its own: `PollFails` behind a request, `PublishFails`
behind a publication or `ensure_healthy`. `FailSession` drops both clients and computes
the next delay; `Reconnect` ends the pause. A read and the publication that follows it
are one action: the publication only queues the message, and a broker that fails in
between is seen by the next look at `healthy`. The announcement of one module, 44
messages for fifteen cells, is one action here; `Discovery` has them one by one.
`topic`, `stack` and `announced` hold what the current session published last.

`AdapterContract` knows neither bus nor errors. It has the members of a session, who has
been announced, what each topic shows, and what the last stack state is made of: all
discovery before system parameters, those before management info, both for every module
before the first stack state, a stack state of all members before any state, and nothing
ever that is not the module's own. A session may end at any point. `AdapterRefinement`
maps `AdapterSession` to it.

### MqttPublisher, TelemetryOrder, Discovery

`pc` and `msg` are the main thread inside `publish_text`: look at `healthy`
(`CheckHealthy`), then `SendMessage`, which waits while the channel is full and fails
once the receiver is gone. Each event loop connects, transmits, ends with an error or
when the channel is closed and empty, stores the reason, clears the flag (two stores,
two actions) and ends. A message taken from the channel while the connection is already
gone is lost. The broker is external and behaves as MQTT 3.1.1 prescribes: a second
connection with the same client id takes over, and a connection that ends without
DISCONNECT - all of them do here - has its retained last will published. `dead` is a
path that swallows what is sent without anyone noticing until keep-alive does.

`TelemetryOrder` adds what no code reads: how many messages of each session have reached
the broker, and which session is the younger. The first `Discovery` of them are
announcements, of which there are at least as many as the channel has places.

`Discovery` shows where that number comes from, and compares two files that nothing in
the code compares: the sensor tables and the loop over cells in `mqtt.rs`, which name
topics and keys, and the `to_payload` functions in `model.rs`, which fill them.
A session goes through the loops of `run_session_inner` - `plan` names the loop, `at`
the module, `pos` the message - with `Publish` for each message, `NextModule` and
`NextLoop`; `Announced(k)` are the discovery messages of the k-th module, `Publications`
whatever the loop publishes at one go. `Scan` finds some of the modules of the stack,
`Fail` ends a session anywhere, and the broker keeps what it was told: `retained` are
the sensors, `heard` the keys of the last object of this session on each topic.
`Replace` exchanges modules between sessions and is remembered in `replaced`. Ids are
strings put together as in the code, since whether two of them can be equal is the
question.

### RuntimeStats, StackState, Configuration

`RuntimeStats`: `Record` adds to counters; the actions of the main thread are the exits
of `request` and `read_raw_frame` and the places where messages, cycles and recoveries
are counted. The counters are read one by one with relaxed loads. Rather than modelling
nine loads in every order, `seen` collects all values that each counter has had since
the snapshot began, and the snapshot is any combination of them.

`StackState`: the two nested loops of `from_modules`, cell by cell, beside
`find_min_max_modules` of the Python poller, which computes the same with `min` and
`max`. Modules send whole millivolts (`readings`); `Quotient` is the division by 1000 of
the values parser, `Minus` a difference as the programs compute it, both rounded to the
nearest number of `Float`, of two to the even one. Exact and rounded voltages are
integers on one scale of `Millivolt` units to the millivolt; 2^62 would do for the f64
that cells and their differences can be. Folds and comparisons round nothing. So
differences of as many millivolts may be unequal numbers, and the properties compare
both: `WorstModuleRight` the millivolts, `SameAsPython` the numbers.

`Configuration`: `into_config` over texts of letters, blanks and slashes. Its purpose is
`AssumptionsMet`: what the other modules assume of their constants is what `into_config`
enforces.

### PylontechClient and Poller

`scan_for_batteries` asks five questions per address. The first reply is only tested for
being there (`ProbeHeard`, `NoBattery`); the others go through constructs that do not
check addresses and ignore trailing bytes (`Accepts`). `EndScan` hands over the range
from the lowest to the highest battery found (`Span`); `ReadValues` and `Yield` are
`poll_parameters`. Anything that raises abandons the client (`Fails`, `LinkFails`); the
poller makes a new one.

`Poller` is `run` with the reporters in their order. `OpenReporter` splits the
constructor of `MqttReporter`, whose network loop runs before the reporter is on the
list. `Raise` is an exception anywhere in the try block, `Interrupt` is Ctrl-C there,
`Kill` is Ctrl-C, or a `close` that raises, in a handler. `hopeless`, chosen at the
start, says that no poll ever succeeds.

## 3. The runs

| Run | Instance | States | Shows |
|---|---|---|---|
| `adapter_lossy_bus` | addresses 2..5, modules 2, 3, 4, lossy, delays 1..3 | 1.37 M | `TypeOK`, `PublishedOwn`, `LateRepliesHarmless`, `NoGhostModule`, `StackCoversModules`, `KeepsContract` |
| `adapter_recovery` | 2..5, modules 2, 3, 5, nothing vanishes, fair | 589 k | `AnnouncedIdentityOwn`, `Recovers` |
| `mqtt_safety` | 3 clients, channel and connection of 1, 1 announcement | 1.84 M | `UnhealthyHasReason`, `StatusMatchesConnection`, `TelemetryInOrder` |
| `mqtt_liveness` | 2 clients, fair | 31 k | `SenderReleased`, `LoopsEnd`, `OfflineAfterFailure`, `StaysOnline` |
| `client_bus` | 2..7, batteries 2..5, nothing vanishes, fair | 68 k | `YieldsOwn`, `GhostsNeedBatteries`, `PolledIdentityOwn`, `PollsOn` |
| `poller_faults` | three reporters, limit 10, cleanup every 3, fair | 4.7 k | `GivesUpInTime`, `NoLoopLeftBehind`, `ReportsOn`, `HopelessEnds` |
| `frame_reader` | two modules, three requests, five bytes under way, both readers, lossy, bridge keeps 1, fair | 908 k | `ImplementsLink`, `ReadsWholeReplies`, `ReadsEnd` |
| `runtime_stats` | one module, two frames, one of everything else | 356 k | `FramesBalance`, `CyclesBacked`, `NeverNegative`, `SkewBounded` |
| `discovery` | a stack of one module with one cell and one of modules 2 and 11, exchanged for one another | 198 k | `AnnouncedFirst`, `SensorsFed`, `AnnouncementsFillChannel` |
| `stack_state` | up to three modules of up to two cells at -2, 3, 4, 5 mV, numbers of six binary digits | 83 k | `WorstModuleRight`, `SameAsPython` |
| `frame_codec` | nine frames, twelve damaging characters | 10 k | `RoundTrip`, `DamageNoticed`, `PythonAgrees` |
| `configuration` | any two options unusual, texts up to 3 characters | 61 k | `AssumptionsMet`, `TextsUsable` |

Deadlock is checked except in `stack_state`, `frame_codec` and `configuration`, whose
programs are functions that return. Runs without bounds of their own explore the whole
state space of the instance; `frame_reader` is bounded by `MaxBytes`, `runtime_stats` by
`Limit`, `frame_codec` by `MaxDamaged`.

**Why the bounds are enough.** A ghost module of the Rust scan needs one wrong answer to
each of the three requests of a probe, so three neighbours and an absent address. The
Python scan has four answers to be wrong about; four batteries and two absent addresses
show that one ghost is possible and two are not. Two neighbours suffice for a module to
be announced under a foreign serial number, and a gap lets the bus stay silent between
them. Three MQTT clients let two abandoned event loops meet the current one; in the code
a loop gives up connecting after 5 s, while sessions are at least the initial delay
apart, so a few may overlap. A channel of one message is full as often as possible, and
one announcement is the smallest number that fills it. The reconnect delay doubles twice
before it meets a maximum of 3, which is no power of two. The counters of the poller
have their real limit of 10; the cleanup interval of 1000 is 3, since only the remainder
matters. `fruitless` is counted up to `MaxErrors + 1`. Five bytes hold one whole reply
and the beginning, or the end, of another, which is what a lost carriage return needs.
The frames of `frame_codec` include one whose length digits add up to 16, one whose
characters add up to 2^16, the shortest there are, and one whose info begins with the
checksum of what is in front of it, which is what a carriage return behind it needs. One
cell is the shortest announcement, and addresses 2 and 11 with two cells make ids such
as `cell_voltage_2_1` and `cell_voltage_11_0` meet. With six binary digits the difference
of 4 and 5 mV is a smaller number than that of 3 and 4 mV, as 3.331 - 3.330 is smaller
than 3.333 - 3.332 with 53; a third module shows that rounding decides between these two
and not between them and a wider one.

**Fairness.** Weak fairness of the main thread as a whole (`Thread`, `Client`, `Run`,
`Reader`): each of them is a sequential loop in which every read has a timeout and every
sleep ends, so it never stands still, but which outcome a step has is left open. In
`MqttPublisher` also of each event loop and of the broker's handling of each connection:
rumqttc bounds connecting and keep-alive and reports an error of either as the end of
the loop, and a broker reads what it is sent. In `FrameReader` also of `Transmit`: a
module that is asked answers. No fault is fair. `calm`, which the environment may set
once and for all, ends the faults; liveness is claimed only after it where it depends on
them.

**What the properties say that is not obvious.**

* `PublishedOwn` and `LateRepliesHarmless`: in a Rust session only replies to scan
  requests can be late, because the first poll that goes unanswered ends the session and
  the connection with it. The fixed-size parsers reject late serial numbers and
  manufacturer infos by their length, and late values have an address that was given up.
* `NoGhostModule`: the third request of the probe is the one whose payload has an
  address, and it alone keeps absent addresses off the list.
* `GhostsNeedBatteries`: the Python scan can list an address where no battery is. It
  takes four late answers that nobody has taken, one of them as long as system
  parameters: the first question may be satisfied by noise instead, but then the answer
  it should have taken is missing later. No battery leaves more than one answer, so a
  range with fewer than four batteries has no ghosts.
* `PolledIdentityOwn`: a Python scan can mix up identities even if nothing is lost:
  answers to two probes that come late pass for management and manufacturer info of a
  third battery. As many answers are then left over, and the first poll of that battery
  reads one of them and raises.
* `StatusMatchesConnection`: an abandoned loop whose CONNECT succeeds takes over from
  the current session; the will that the broker publishes, and the next session, keep
  the topic right.
* `TelemetryInOrder`: such a loop also sends what is in its channel, but it never had a
  connection, so the first messages of its session are still there: "online" and
  discovery fill the channel, and no telemetry got in. The number of sensors keeps the
  order right, which `AnnouncementsFillChannel` confirms for the smallest stack.
* `ImplementsLink`: everything said of sessions and clients rests on `SourceLink`, whose
  replies are whole. Loss of the rest of a frame after a timeout, two frames joined by a
  lost carriage return and noise before a start byte all look like a reply lost or
  garbled.
* `CyclesBacked`: a successful cycle is counted last, so the counter may understate but
  never overstates what was done. Messages are counted when they are queued.

## 4. The proofs

| Module | Theorems | Assumed of the constants |
|---|---|---|
| `AdapterSession_proofs` | `TypeCorrect`, `StackCoversModulesAlways` | `LinkAssumption`, `ReplyLengths`, `DelayAssumption` |
| | `PublishedOwnAlways`, `LateRepliesHarmlessAlways` | also `BridgeKeeps = 0` |
| | `NoGhostModuleAlways` | `LinkAssumption`, `ReplyLengths`, `DelayAssumption`, any bridge |
| | `AnnouncedIdentityOwnAlways` | also `BridgeKeeps = 0`, `~Lossy` |
| | `KeepsContractAlways` | also `BridgeKeeps = 0` |
| `FrameReader_proofs` | `ImplementsLinkAlways`, `ReadsWholeRepliesAlways`, `ReadRunsDown` | `BytesAssumption`, `RangeAssumption` |
| `MqttPublisher_proofs` | `TypeCorrect`, `UnhealthyHasReasonAlways`, `StatusMatchesConnectionAlways`, `LoopsRunDown` | `PublisherAssumption` |
| | `TelemetryInOrderAlways` | also `DiscoveryFillsChannel` |
| `PylontechClient_proofs` | `TypeCorrect` | `LinkAssumption`, `ReplyLengths` |
| | `YieldsOwnAlways`, `GhostsNeedBatteriesAlways` | also `BridgeKeeps = 0` |
| | `PolledIdentityOwnAlways` | also `~Lossy` |
| `Poller_proofs` | `TypeCorrect`, `GivesUpInTimeAlways`, `NoLoopLeftBehindAlways`, `HopelessRunsDown` | `PollerAssumption` |
| `RuntimeStats_proofs` | `TypeCorrect`, `FramesBalanceAlways`, `CyclesBackedAlways`, `LinesAddUpAlways`, `NeverNegativeAlways`, `SkewBoundedAlways` | `StatsAssumption` |
| `Discovery_proofs` | `AnnouncedFirstAlways`, `SensorsFedAlways` | `StacksAssumption`, `NumberedAssumption` |
| | `AnnouncementsFillChannelAlways` | also `Capacity <= 33` |
| `Computations_proofs` | `TypeCorrect`, `SameAsPythonAlways` | `StackAssumption` |
| | `StackSpanRightAlways`, `WorstModuleRightAlways` | also `FineAssumption` |
| | `AssumptionsMetAlways`, `TextsUsableAlways` | `ConfigurationAssumption` |
| | `RoundTripAlways`, `DamageNoticedAlways`, `PythonAgreesAlways` | `FramesAssumption` |

Every invariant and every action property of the runs is stated by one of these
theorems, except the liveness properties; of three of these, the part that is about
safety is proved (below, "Termination"). The type invariants of the modules other than
`AdapterSession`, `LinesAddUp` (the differences of all lines of statistics add up to the
totals of the last) and `StackSpanRight` (the difference over all modules) are proved
and not in a run. Nor do the runs repeat instances that a
theorem covers: the lossy bus for the Python client, the replaying bridge for
`StackCoversModules` and `NoGhostModule`. None of the properties is inductive by itself.

The assumptions are what the code gives the constants. `ReplyLengths` is explained in
section 2. `FramesAssumption`: addresses and commands are bytes, and an info has at most
2047 of them, the largest length the twelve bits of the field can hold.
`FineAssumption`: a rounding error is less than a sixth of a millivolt. A cell is a
signed field of 16 bits, hence below 33 V, and the 53 binary digits of an f64 make every
error of a quotient or a difference less than 2^-37 mV.
`NumberedAssumption` is the one statement about text that the provers cannot check: a
number in digits can be read off behind the last underscore of an id, so ids put
together from different prefixes or numbers differ. TLC evaluates it for the stacks of
the run; that the prefixes in the tables differ, and that each id names its module, is
left to the proof. The number 33 in `AnnouncementsFillChannelAlways` is what the tables
announce for one module with one cell; the channel of the code has 32 places.

The arguments:

**Adapter session.** It has to be known what can be under way. `IInv` adds to the type
invariant `RequestInv` (the outstanding request is the one the loop is at, and every
`own` reply answers it), `ScanInv` (during the scan nothing on the wire is a system or
management reply, no late values come from a module already found or still to be asked),
`SessionInv` (its continuation after the scan) and `StatesInv` (the values collected in
a cycle are own). The step that matters is the lemma `AnswerIsOwn`: given `IInv`, the
parser of a poll accepts nothing but the answer to that poll. `CoverInv` says which
modules the current cycle has collected; it needs nothing of the bus, hence any bridge.
`PresenceInv` says that replies come from modules that are there. `ProbeInv` is the
heart of `AnnouncedIdentityOwn`: while a present module is being probed, either all went
well so far, or an answer is left over that the next step of the probe stumbles over.

**Contract.** `ContractInv` adds what has been published by each phase (`FoundInv`,
`BlankInv`, `AnnouncedInv`, `OrderInv`). `RefineStep` maps every step to a step of the
contract or a stutter; the actions outside a session map to the empty contract state.

**Publisher.** `ReasonInv` places the two stores of an event loop; `ConnInv` says that
the broker holds at most one connection and whose it is. `TelemetryInOrder` follows from
`OrderInv`: what a superseded session has delivered, and has in flight if it is still
connecting or connected, is together no more than its channel holds, hence
announcements.

**Python client.** `ClientInv` says that no values are late. During a scan, if nothing
is swallowed, a battery that is listed has an answer left over (`Owed`), or an absent
address is listed (`Absent`), or every identity is right (`Faithful`); after the scan
the first two make a poll of the cycle raise (`Stuck`). `GhostInv` counts: the answers
under way plus four for each ghost listed, and what the current probe has used up, never
exceed the batteries already passed, up to a slack of two within a probe.

**Poller.** `CountInv`: the count of errors equals the number of failures since the last
good state. `ListInv` and `LoopInv`: a loop runs exactly while the MQTT reporter is on
the list, from the middle of its constructor until it is closed.

**Statistics.** `FrameInv` counts frames, `CycleInv` what a cycle has read and queued so
far, `SeenInv` places every value seen between the last snapshot and the present,
`SpanInv` bounds how much the sent frames grew during a snapshot.

**Frame reader.** What `SourceLink` calls the wire are the answers owed and the replies
in `buf \o stream` that are `ReadableAt` their place: behind a start byte, in front of a
carriage return. `Distinct` says that no reply is there twice, without which reading one
would not take it off the wire; the own answer to a question and a late one are two.
`InOrder` says that the answer to the request at hand is the last of its module, without
which it might be delivered before an older one; `Framed` that on a calm line the bytes
are whole frames, so that only a timeout can end a frame early. The lemmas say what
stays readable of a sequence of bytes when its first bytes are taken, when one of its
last is dropped or changed, and when bytes are put behind it. Every action then maps to
an action of the link or to a stutter: `SkipByte` and `KeepByte` leave the wire as it
is, and `EndFrame` takes the reply that it returns off the wire, or returns garbage and
loses one reply at most.

**Discovery.** `SentInv`: all announcements up to the present position are held by the
broker, and the one that is made now replaces none of them, because a topic determines
prefix, module and cell. `HeardInv`: what was heard are objects of the stack, none
before the discovery is over. `RetainedInv`: what is retained is fed by the stack, also
what failed sessions have left. For `AnnouncementsFillChannel` the rows of the tables
are mapped one to one to 33 numbers.

**Stack state.** `IInv` says of each pair of accumulators which part of the voltages it
is the minimum and maximum of; at the end that part is all of them. Rounding is monotone
(`NearestMonotone`), so the computed difference of the extremes is the largest of the
computed differences, and the worst module so far has one that no other exceeds. A
computed difference is off by two errors of a quotient and one of its own, less than
half a millivolt together (`GivesDifference`): of two differences of whole millivolts
the wider stays the greater number (`WiderShows`), which carries all this over to
millivolts. For `SameAsPython`, whose `min` and `max` are values chosen from a set, each
module that is done must have a lowest and a highest cell (`HasExtremes`), which is
built up cell by cell as the accumulators are.

**Configuration.** `ConfigInv`: what runs was `Valid` and is `Accepted`. The work is in
`TrimIs`: the first and the last character that is kept exist, and `Trim` begins and
ends with them, hence leaves no slash at the ends and something of what was not blank.
That a set of positions has a least member (`LeastExists`) follows from the well-
foundedness of the subsets of a finite set, which stands in for induction.

**Frame codec.** `CodecInv` says of a damaged line what the theorems claim; each of the
three faults establishes it. `Sum` is the cardinality of a set of pairs, so that the
lemmas on finite sets replace induction: changing a character changes the sum by the
difference of the codes (`SumChanged`), removing one by its code (`SumWithout`). Either
is less than 2^16, so a different sum is a different checksum (`ChecksumDiffers`). The
cases are where the fault is. In what the checksum covers, it is noticed by both
programs (`OneChanged`, `OneLost`, `OneAdded`); a character 0 that is added does not
change the sum, but is no digit. In the checksum itself, the content is what was sent or
nothing (`SameBody`). At the start, Rust reads on to the frame behind, at the end, it
reads both together and the length in the header does not fit (`WrongLength`); Python
reads something with an odd number of digits or a start character among them
(`PythonOdd`, `PythonForeign`). A carriage return cuts the frame off, which again does
not fit the length.

`Computations_proofs` proves about three modules at once, which is why the parts of
`FrameCodec` and `Configuration` have names of their own (`CodecSpec`, `ConfigSpec`).

The SMT translation of tlapm 1.4.5 infers the domain of a value from its `Len`, whether
or not the value is a sequence. No proof rests on that: all of them go through as well
when the inference is taken out.

Checked by TLC only: liveness (`Recovers`, `SenderReleased`, `LoopsEnd`,
`OfflineAfterFailure`, `StaysOnline`, `PollsOn`, `ReportsOn`, `HopelessEnds`,
`ReadsEnd`), which needs `ENABLED`.

**Termination.** Three of these say that something comes to an end, and what does not
need `ENABLED` in them is a measure that runs down. `ReadRunsDown`: on a calm line,
`ToRead` (the bytes under way and four for each answer owed) falls with every step of a
read that does not end it. `LoopsRunDown`: after its publisher is dropped, each step of
an event loop lowers `ToEnd` (its messages and the stages before it), and nobody else
raises it. `HopelessRunsDown`: every step of a poller whose polls all fail lowers the
pair of `Left` (failures) and `ToGo` (the way to the next); an attempt that is
interrupted counts as one whose failure was handled. What TLC adds is that the processes
do not stand still on the way, which is where the fairness comes in.

## 5. Limits

Facts about the programs that the models make visible and no property rules out:

* With a bridge that replays old replies, old values can be published as new ones
  (`PublishedOwn` fails with `BridgeKeeps = 2`); the stack state still covers every
  module once. In the Python client even that does not hold.
* On a bus that swallows replies, the Rust adapter can announce a module under the
  serial number of another (`AnnouncedIdentityOwn` fails with `Lossy = TRUE`), and so
  can the Python scan.
* In a stack of four or more batteries the Python scan can list one that is not there.
* A mixed-up Python scan is never followed by a state, but `MongoReporter` has stored
  its metadata by then: `report_meta` runs before the first poll.
* A module that is silent during a Rust scan is left out until the session fails for
  another reason: nothing scans again.
* A battery that was silent during a Python scan but lies between two that answered is
  polled all the same, and `MqttReporter.report_state` does not know it: the attempt
  fails and scans again.
* A gap between the addresses of the batteries makes every poll of the Python poller
  fail, and the process end after eleven attempts.
* The reconnect delay never shrinks: `backoff.reset()` follows a session that returns
  `Ok`, and none does, so after a long outage every later failure waits the maximum.
* `"online"` is published before the bridge has been dialled.
* Retained discovery messages of a module that was replaced are never taken back.
* A line that babbles without a pause and without a carriage return holds a read for
  ever: the timeout is one of a single byte (`ReadsEnd` needs `calm`).
* The Python transport rejects frames whose sum is a multiple of 2^16: their checksum
  field is 0, and it expects 65536. Two characters that change places go unnoticed in
  both programs, the checksum being a sum.
* Of modules whose cells are as many millivolts apart, rounding decides which one is
  named, and it need not be the first: with cells at 3.330 and 3.331 V in one and 3.332
  and 3.333 V in the next it is the next. Both programs name the same.
* `normalize_topic_segment` trims blanks before slashes, so `"/ x/"` keeps a blank.
* When the report of the thousandth state fails, the cleanup waits for the next
  thousand.
* Ctrl-C in the middle of the constructor of `MqttReporter` leaves its loop to the end
  of the process.

Not modelled: the fields inside an INFO other than cell voltages and number formats
(arithmetic on data, no control), names, icons and units of sensors, argument parsing, the
payloads of the Python reporters and the contents of the history database (calls into
libraries), single requests of the Python library that nothing in the repository
combines (`get_values`, `get_alarm_info`, `get_protocol_version`,
`get_module_software_version`), demos and packaging.

Abstracted: the wire is a set, so that two late replies to one question count as one; a
snapshot takes relaxed counters as any combination of values seen meanwhile, which
includes every order of loads; u64 counters do not overflow; a reply in `FrameReader` is
one byte between two marks; damage in `FrameCodec` is one character of the first of two
frames.

## 6. Possible extensions

What could still be added: the proof that the decoded characters of `FrameCodec` justify
the one byte that `FrameReader` has for them, as a refinement between the two; damage of
several characters, for which a probabilistic statement would be more to the point; the
single requests of the Python library.
