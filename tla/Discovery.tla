----------------------------- MODULE Discovery -----------------------------
(***************************************************************************)
(* What Home Assistant is told, and whether it can be kept: a session of   *)
(* the Rust adapter announces its sensors in retained messages, each       *)
(* naming a state topic and a key of the JSON object published there, and  *)
(* then publishes those objects.  The sensors come from the five tables    *)
(* and the loop over the cells in mqtt.rs, the objects from to_payload in  *)
(* model.rs, and nothing in the code compares the two.  A session may fail *)
(* at any publication; what the broker retains of it meets the next one.   *)
(* Appearance (names, units, icons, devices) is left out.                  *)
(***************************************************************************)
EXTENDS Integers, Sequences, FiniteSets, SequencesExt, TLC

CONSTANTS Stacks,   \* the stacks that may be installed: address -> cells
          Capacity  \* MQTT_REQUEST_CAPACITY, places of the request channel

ASSUME StacksAssumption ==
    /\ \A s \in Stacks : /\ IsFiniteSet(DOMAIN s) /\ DOMAIN s \subseteq 0..255
                         /\ \A a \in DOMAIN s : s[a] \in 1..255
    /\ Capacity \in Nat

VARIABLES
    stack,     \* the modules on the bus, with their numbers of cells
    modules,   \* those the session has found, in order; none between sessions
    plan,      \* the loop the session is in
    at,        \* the module it is at; 0 for what is published of the stack
    pos,       \* the next publication for that module
    retained,  \* the sensors the broker holds: discovery topic -> sensor
    heard,     \* the last object of this session: state topic -> its keys
    replaced   \* has the stack ever been changed?

vars == <<stack, modules, plan, at, pos, retained, heard, replaced>>

Nothing == [t \in {} |-> 0]
-----------------------------------------------------------------------------
(* Topics, below the prefixes of the configuration.                        *)

StackTopic == <<"stack">>
StateTopic(a) == <<"module", a, "state">>
SystemTopic(a) == <<"module", a, "system">>
ManagementTopic(a) == <<"module", a, "management">>

\* The announcement of one sensor
Sensor(component, id, topic, key) ==
    [topic |-> <<component, id>>, sensor |-> [state |-> topic, key |-> key]]

\* The unique id of a table's sensor for the module at address a
Numbered(prefix, a) == prefix \o "_" \o ToString(a)

(* The tables: pairs of a unique-id prefix and a state key.                *)

StackSensors == <<
    <<"stack_disbalance", "stack_disbalance">>,
    <<"max_battery_disbalance", "max_module_disbalance">>,
    <<"max_battery_disbalance_id", "max_module_id">> >>

ModuleSensors == <<
    <<"battery_soc", "soc_percent">>, <<"battery_disbalance", "disbalance">>,
    <<"battery_voltage", "voltage">>, <<"battery_current", "current">>,
    <<"battery_power", "power">>, <<"battery_cycle", "cycle">>,
    <<"battery_temperature", "temperature">> >>

SystemParameterSensors == <<
    <<"battery_cell_high_voltage_limit", "cell_high_voltage_limit">>,
    <<"battery_cell_low_voltage_limit", "cell_low_voltage_limit">>,
    <<"battery_cell_under_voltage_limit", "cell_under_voltage_limit">>,
    <<"battery_charge_high_temperature_limit", "charge_high_temperature_limit">>,
    <<"battery_charge_low_temperature_limit", "charge_low_temperature_limit">>,
    <<"battery_charge_current_limit", "charge_current_limit">>,
    <<"battery_module_high_voltage_limit", "module_high_voltage_limit">>,
    <<"battery_module_low_voltage_limit", "module_low_voltage_limit">>,
    <<"battery_module_under_voltage_limit", "module_under_voltage_limit">>,
    <<"battery_discharge_high_temperature_limit", "discharge_high_temperature_limit">>,
    <<"battery_discharge_low_temperature_limit", "discharge_low_temperature_limit">>,
    <<"battery_discharge_current_limit", "discharge_current_limit">> >>

ManagementValueSensors == <<
    <<"battery_management_charge_voltage_limit", "charge_voltage_limit">>,
    <<"battery_management_discharge_voltage_limit", "discharge_voltage_limit">>,
    <<"battery_management_charge_current_limit", "charge_current_limit">>,
    <<"battery_management_discharge_current_limit", "discharge_current_limit">> >>

ManagementFlagSensors == <<
    <<"battery_management_charge_enable", "charge_enable">>,
    <<"battery_management_discharge_enable", "discharge_enable">>,
    <<"battery_management_charge_immediately_2", "charge_immediately_2">>,
    <<"battery_management_charge_immediately_1", "charge_immediately_1">>,
    <<"battery_management_full_charge_request", "full_charge_request">>,
    <<"battery_management_should_charge", "should_charge">> >>

\* The announcements of a table for module a, all fed from one topic
Table(component, table, topic, a) ==
    [i \in DOMAIN table |-> Sensor(component, Numbered(table[i][1], a), topic, table[i][2])]

CellKey(i) == "cell_" \o ToString(i) \o "_voltage"

\* Mutant: Cells numbered without the address of their module.
CellSensorsShared(a, cells) ==
    [i \in 1..cells |-> Sensor("sensor", Numbered("cell_voltage", i - 1),
                               StateTopic(a), CellKey(i - 1))]

\* Mutant: Cells counted from one in the announcement, from zero in the state.
CellSensorsFromOne(a, cells) ==
    [i \in 1..cells |-> Sensor("sensor", Numbered(Numbered("cell_voltage", a), i),
                               StateTopic(a), CellKey(i))]

CellSensors(a, cells) ==
    [i \in 1..cells |-> Sensor("sensor", Numbered(Numbered("cell_voltage", a), i - 1),
                               StateTopic(a), CellKey(i - 1))]

StackDiscovery ==
    [i \in DOMAIN StackSensors |->
        Sensor("sensor", StackSensors[i][1], StackTopic, StackSensors[i][2])]

\* Mutant: The sensors of the management info are not announced.
ModuleDiscoveryShort(a, cells) ==
    Table("sensor", ModuleSensors, StateTopic(a), a)
    \o CellSensors(a, cells)
    \o Table("sensor", SystemParameterSensors, SystemTopic(a), a)

ModuleDiscovery(a, cells) ==
    Table("sensor", ModuleSensors, StateTopic(a), a)
    \o CellSensors(a, cells)
    \o Table("sensor", SystemParameterSensors, SystemTopic(a), a)
    \o Table("sensor", ManagementValueSensors, ManagementTopic(a), a)
    \o Table("binary_sensor", ManagementFlagSensors, ManagementTopic(a), a)
-----------------------------------------------------------------------------
(* The objects: state topics with the keys of what is published there.     *)

Object(topic, keys) == [topic |-> topic, keys |-> keys]

StackState == Object(StackTopic, {"stack_disbalance", "max_module_disbalance", "max_module_id"})

ModuleState(a, cells) ==
    Object(StateTopic(a),
        {"address", "voltage", "current", "power", "cycle", "soc_ratio", "soc_percent",
         "temperature", "grouped_temperatures", "remaining_capacity", "total_capacity",
         "disbalance"} \cup {CellKey(i) : i \in 0..cells - 1})

SystemParameters(a) ==
    Object(SystemTopic(a),
        {"cell_high_voltage_limit", "cell_low_voltage_limit", "cell_under_voltage_limit",
         "charge_high_temperature_limit", "charge_low_temperature_limit",
         "charge_current_limit", "module_high_voltage_limit", "module_low_voltage_limit",
         "module_under_voltage_limit", "discharge_high_temperature_limit",
         "discharge_low_temperature_limit", "discharge_current_limit"})

ManagementInfo(a) ==
    Object(ManagementTopic(a),
        {"charge_voltage_limit", "discharge_voltage_limit", "charge_current_limit",
         "discharge_current_limit", "charge_enable", "discharge_enable",
         "charge_immediately_2", "charge_immediately_1", "full_charge_request",
         "should_charge"})
-----------------------------------------------------------------------------
(* A number is written in digits and can be read off behind the last       *)
(* underscore of an id, which the provers cannot know.  That the ids are   *)
(* distinct does not follow from this alone: see CellSensorsShared.        *)

Tables == {ModuleSensors, SystemParameterSensors, ManagementValueSensors, ManagementFlagSensors}

IdPrefixes == {"cell_voltage"} \cup UNION {{table[n][1] : n \in DOMAIN table} : table \in Tables}

Numbers == UNION {DOMAIN s \cup UNION {0..s[a] - 1 : a \in DOMAIN s} : s \in Stacks}

Stems == IdPrefixes \cup {Numbered("cell_voltage", a) : a \in Numbers}

ASSUME NumberedAssumption ==
    /\ \A p, q \in Stems : \A m, n \in Numbers :
          Numbered(p, m) = Numbered(q, n) => p = q /\ m = n
    /\ \A p \in IdPrefixes \cup {StackSensors[n][1] : n \in DOMAIN StackSensors} :
          \A q \in Stems : \A n \in Numbers : p # Numbered(q, n)
-----------------------------------------------------------------------------
(* The session.                                                            *)

\* The announcements of the stack, and those of the k-th module
Announced(k) ==
    IF k = 0 THEN StackDiscovery ELSE ModuleDiscovery(modules[k].address, modules[k].cells)

\* What is published in one go in a loop: of the stack, or of a module
Publications ==
    LET a == modules[at].address
    IN  CASE plan = "discovery" -> Announced(at)
          [] plan = "system" -> <<SystemParameters(a)>>
          [] plan = "management" -> <<ManagementInfo(a)>>
          [] plan = "values" -> IF at = 0 THEN <<StackState>> ELSE <<ModuleState(a, stack[a])>>

\* Where a loop begins: two of them publish something of the stack first.
Start(loop) == IF loop \in {"discovery", "values"} THEN 0 ELSE 1

Init ==
    /\ stack \in Stacks /\ modules = <<>>
    /\ plan = "discovery" /\ at = 0 /\ pos = 1
    /\ retained = Nothing /\ heard = Nothing /\ replaced = FALSE

\* The modules of s at some of its addresses, in ascending order
Scans(s) ==
    {f \in UNION {[1..n -> {[address |-> a, cells |-> s[a]] : a \in DOMAIN s}] :
                     n \in 1..Cardinality(DOMAIN s)} :
        \A k, l \in DOMAIN f : k < l => f[k].address < f[l].address}

\* A scan may miss modules, but not all of them.
Scan ==
    /\ modules = <<>>
    /\ modules' \in Scans(stack)
    /\ UNCHANGED <<stack, plan, at, pos, retained, heard, replaced>>

\* The function f with x mapped to y
With(f, x, y) == [z \in DOMAIN f \cup {x} |-> IF z = x THEN y ELSE f[z]]

\* publish_json with a discovery payload, retained
Announce(message) ==
    /\ retained' = With(retained, message.topic, message.sensor)
    /\ UNCHANGED heard

\* publish_json with the payload of a state
Show(message) ==
    /\ heard' = With(heard, message.topic, message.keys)
    /\ UNCHANGED retained

Publish ==
    /\ modules # <<>> /\ pos <= Len(Publications)
    /\ IF plan = "discovery" THEN Announce(Publications[pos]) ELSE Show(Publications[pos])
    /\ pos' = pos + 1
    /\ UNCHANGED <<stack, modules, plan, at, replaced>>

\* A loop goes on with the next module.
NextModule ==
    /\ at < Len(modules) /\ pos > Len(Publications)
    /\ at' = at + 1 /\ pos' = 1
    /\ UNCHANGED <<stack, modules, plan, retained, heard, replaced>>

\* The next loop.  The first cycle polls the management info, later ones
\* when it is due.
NextLoop ==
    /\ modules # <<>> /\ at = Len(modules) /\ pos > Len(Publications)
    /\ plan' \in CASE plan = "discovery" -> {"system"}
                   [] plan = "system" -> {"management"}
                   [] plan = "management" -> {"values"}
                   [] plan = "values" -> {"management", "values"}
    /\ at' = Start(plan') /\ pos' = 1
    /\ UNCHANGED <<stack, modules, retained, heard, replaced>>

\* A request or a publication fails, and with it the session.
Fail ==
    /\ modules # <<>>
    /\ modules' = <<>> /\ plan' = "discovery" /\ at' = 0 /\ pos' = 1 /\ heard' = Nothing
    /\ UNCHANGED <<stack, retained, replaced>>

\* Someone works on the stack; no session survives that.
Replace ==
    /\ modules = <<>>
    /\ stack' \in Stacks \ {stack} /\ replaced' = TRUE
    /\ UNCHANGED <<modules, plan, at, pos, retained, heard>>

Next == Scan \/ Publish \/ NextModule \/ NextLoop \/ Fail \/ Replace

Spec == Init /\ [][Next]_vars
-----------------------------------------------------------------------------
\* All announcements of the session
Announcements == UNION {ToSet(Announced(k)) : k \in 0..Len(modules)}

(* By the time a first state of the session is published, Home Assistant   *)
(* holds every sensor of the session's modules, and no announcement has    *)
(* replaced another: the unique ids, put together from the tables, the     *)
(* addresses and the cells, are distinct (publish_discovery).              *)
AnnouncedFirst ==
    DOMAIN heard # {} =>
        \A message \in Announcements :
            /\ message.topic \in DOMAIN retained
            /\ retained[message.topic] = message.sensor

(* No sensor stays empty: the last object on the topic of a retained       *)
(* sensor has the key that the sensor reads.  It holds of what every       *)
(* session, failed or not, leaves at the broker, while nobody exchanges    *)
(* modules: discovery messages are never taken back (publish_discovery     *)
(* and the to_payload functions).                                          *)
SensorsFed ==
    ~replaced =>
        \A t \in DOMAIN retained :
            LET sensor == retained[t]
            IN  sensor.state \in DOMAIN heard => sensor.key \in heard[sensor.state]

(* Before the first state of a session, at least as many announcements     *)
(* are published as the request channel has places, even for one module    *)
(* with one cell.  The order of the telemetry of successive sessions rests *)
(* on it (DiscoveryFillsChannel in TelemetryOrder).                        *)
AnnouncementsFillChannel ==
    DOMAIN heard # {} => Cardinality({message.topic : message \in Announcements}) >= Capacity
=============================================================================
