-------------------------- MODULE Discovery_proofs --------------------------
(***************************************************************************)
(* Every sensor that is announced is fed, for every stack: any addresses,  *)
(* any numbers of cells.  What the provers are told about text is that a   *)
(* number can be read off an id (NumberedAssumption); the tables they read *)
(* themselves.                                                             *)
(***************************************************************************)
EXTENDS Discovery, FiniteSetTheorems, TLAPS

(* The tables.                                                             *)
LEMMA TablesAre ==
    /\ DOMAIN StackSensors = 1..3 /\ DOMAIN ModuleSensors = 1..7
    /\ DOMAIN SystemParameterSensors = 1..12
    /\ DOMAIN ManagementValueSensors = 1..4 /\ DOMAIN ManagementFlagSensors = 1..6
    /\ Len(StackSensors) = 3 /\ Len(ModuleSensors) = 7
    /\ Len(SystemParameterSensors) = 12
    /\ Len(ManagementValueSensors) = 4 /\ Len(ManagementFlagSensors) = 6
  BY DEF StackSensors, ModuleSensors, SystemParameterSensors, ManagementValueSensors,
         ManagementFlagSensors

\* No prefix of one table is one of the other, or of the same in another row.
Apart(t, u) ==
    \A n \in DOMAIN t, k \in DOMAIN u : t[n][1] = u[k][1] => t = u /\ n = k

LEMMA TablesApart == \A t, u \in Tables : Apart(t, u)
<1>1. Apart(ModuleSensors, ModuleSensors)
  BY TablesAre DEF Apart, ModuleSensors
<1>2. Apart(SystemParameterSensors, SystemParameterSensors)
  BY TablesAre DEF Apart, SystemParameterSensors
<1>3. Apart(ManagementValueSensors, ManagementValueSensors)
  BY TablesAre DEF Apart, ManagementValueSensors
<1>4. Apart(ManagementFlagSensors, ManagementFlagSensors)
  BY TablesAre DEF Apart, ManagementFlagSensors
<1>5. Apart(ModuleSensors, SystemParameterSensors)
  BY TablesAre DEF Apart, ModuleSensors, SystemParameterSensors
<1>6. Apart(ModuleSensors, ManagementValueSensors)
  BY TablesAre DEF Apart, ModuleSensors, ManagementValueSensors
<1>7. Apart(ModuleSensors, ManagementFlagSensors)
  BY TablesAre DEF Apart, ModuleSensors, ManagementFlagSensors
<1>8. Apart(SystemParameterSensors, ManagementValueSensors)
  BY TablesAre DEF Apart, SystemParameterSensors, ManagementValueSensors
<1>9. Apart(SystemParameterSensors, ManagementFlagSensors)
  BY TablesAre DEF Apart, SystemParameterSensors, ManagementFlagSensors
<1>10. Apart(ManagementValueSensors, ManagementFlagSensors)
  BY TablesAre DEF Apart, ManagementValueSensors, ManagementFlagSensors
<1>11. \A t, u : Apart(t, u) => Apart(u, t)
  BY DEF Apart
<1> QED
  BY <1>1, <1>2, <1>3, <1>4, <1>5, <1>6, <1>7, <1>8, <1>9, <1>10, <1>11 DEF Tables
-----------------------------------------------------------------------------
(* The announcements, as sets.                                             *)

\* The announcements of the rows of a table for the module at a
Rows(component, table, topic, a) ==
    {Sensor(component, Numbered(table[n][1], a), topic, table[n][2]) : n \in DOMAIN table}

CellRows(a, cells) ==
    {Sensor("sensor", Numbered(Numbered("cell_voltage", a), c), StateTopic(a), CellKey(c)) :
        c \in 0..cells - 1}

OfModule(a, cells) ==
    Rows("sensor", ModuleSensors, StateTopic(a), a)
    \cup CellRows(a, cells)
    \cup Rows("sensor", SystemParameterSensors, SystemTopic(a), a)
    \cup Rows("sensor", ManagementValueSensors, ManagementTopic(a), a)
    \cup Rows("binary_sensor", ManagementFlagSensors, ManagementTopic(a), a)

OfStack == {Sensor("sensor", StackSensors[n][1], StackTopic, StackSensors[n][2]) : n \in 1..3}

LEMMA ConcatSet ==
    ASSUME NEW S, NEW s \in Seq(S), NEW t \in Seq(S)
    PROVE  s \o t \in Seq(S) /\ ToSet(s \o t) = ToSet(s) \cup ToSet(t)
<1>1. s \o t \in Seq(S) /\ Len(s \o t) = Len(s) + Len(t)
  OBVIOUS
<1>2. /\ \A n \in DOMAIN s : n \in DOMAIN (s \o t) /\ (s \o t)[n] = s[n]
      /\ \A n \in DOMAIN t : n + Len(s) \in DOMAIN (s \o t) /\ (s \o t)[n + Len(s)] = t[n]
      /\ \A n \in DOMAIN (s \o t) :
            \/ n \in DOMAIN s /\ (s \o t)[n] = s[n]
            \/ n - Len(s) \in DOMAIN t /\ (s \o t)[n] = t[n - Len(s)]
  OBVIOUS
<1>3. ASSUME NEW x PROVE x \in ToSet(s \o t) <=> x \in ToSet(s) \/ x \in ToSet(t)
  <2>1. /\ x \in ToSet(s \o t) <=> \E n \in DOMAIN (s \o t) : x = (s \o t)[n]
        /\ x \in ToSet(s) <=> \E n \in DOMAIN s : x = s[n]
        /\ x \in ToSet(t) <=> \E n \in DOMAIN t : x = t[n]
    BY DEF ToSet
  <2> QED
    BY <1>2, <2>1
<1> QED
  BY <1>1, <1>3

LEMMA TableIs ==
    ASSUME NEW table \in Tables, NEW component, NEW topic, NEW a
    PROVE  /\ \A S : Rows(component, table, topic, a) \subseteq S =>
                        Table(component, table, topic, a) \in Seq(S)
           /\ ToSet(Table(component, table, topic, a)) = Rows(component, table, topic, a)
<1>1. PICK n \in Nat : DOMAIN table = 1..n
  BY TablesAre DEF Tables
<1>2. ASSUME NEW S, Rows(component, table, topic, a) \subseteq S
      PROVE  Table(component, table, topic, a) \in Seq(S)
  <2>1. Table(component, table, topic, a) \in [1..n -> S]
    BY <1>1, <1>2 DEF Table, Rows
  <2> QED
    BY <2>1
<1>3. ToSet(Table(component, table, topic, a)) = Rows(component, table, topic, a)
  BY DEF ToSet, Table, Rows
<1> QED
  BY <1>2, <1>3

LEMMA CellsAre ==
    ASSUME NEW a, NEW cells \in Nat
    PROVE  /\ \A S : CellRows(a, cells) \subseteq S => CellSensors(a, cells) \in Seq(S)
           /\ ToSet(CellSensors(a, cells)) = CellRows(a, cells)
<1> DEFINE M(c) == Sensor("sensor", Numbered(Numbered("cell_voltage", a), c), StateTopic(a), CellKey(c))
<1>1. CellSensors(a, cells) = [n \in 1..cells |-> M(n - 1)]
  BY DEF CellSensors
<1>2. CellRows(a, cells) = {M(c) : c \in 0..cells - 1}
  BY DEF CellRows
<1> HIDE DEF M
<1>3. \A n \in 1..cells : M(n - 1) \in CellRows(a, cells)
  BY <1>2
<1>4. \A c \in 0..cells - 1 : c + 1 \in 1..cells /\ M(c) = M((c + 1) - 1)
  OBVIOUS
<1>5. ToSet(CellSensors(a, cells)) = {M(n - 1) : n \in 1..cells}
  BY <1>1 DEF ToSet
<1>6. ToSet(CellSensors(a, cells)) = CellRows(a, cells)
  BY <1>2, <1>3, <1>4, <1>5
<1>7. \A S : CellRows(a, cells) \subseteq S => CellSensors(a, cells) \in [1..cells -> S]
  BY <1>1, <1>3
<1> QED
  BY <1>6, <1>7

(* What is announced of the stack and of a module.                         *)
LEMMA AnnouncedAre ==
    /\ StackDiscovery \in Seq(OfStack) /\ ToSet(StackDiscovery) = OfStack
    /\ \A a : \A cells \in Nat :
          /\ ModuleDiscovery(a, cells) \in Seq(OfModule(a, cells))
          /\ ToSet(ModuleDiscovery(a, cells)) = OfModule(a, cells)
<1>1. StackDiscovery \in Seq(OfStack) /\ ToSet(StackDiscovery) = OfStack
  <2>1. StackDiscovery \in [1..3 -> OfStack]
    BY TablesAre DEF StackDiscovery, OfStack
  <2> QED
    BY <2>1, TablesAre DEF StackDiscovery, OfStack, ToSet
<1>2. ASSUME NEW a, NEW cells \in Nat
      PROVE  /\ ModuleDiscovery(a, cells) \in Seq(OfModule(a, cells))
             /\ ToSet(ModuleDiscovery(a, cells)) = OfModule(a, cells)
  <2> DEFINE S == OfModule(a, cells)
             t1 == Table("sensor", ModuleSensors, StateTopic(a), a)
             t2 == CellSensors(a, cells)
             t3 == Table("sensor", SystemParameterSensors, SystemTopic(a), a)
             t4 == Table("sensor", ManagementValueSensors, ManagementTopic(a), a)
             t5 == Table("binary_sensor", ManagementFlagSensors, ManagementTopic(a), a)
  <2>1. /\ t1 \in Seq(S) /\ t2 \in Seq(S) /\ t3 \in Seq(S) /\ t4 \in Seq(S) /\ t5 \in Seq(S)
        /\ S = ToSet(t1) \cup ToSet(t2) \cup ToSet(t3) \cup ToSet(t4) \cup ToSet(t5)
    BY TableIs, CellsAre DEF OfModule, Tables
  <2> DEFINE u2 == t1 \o t2
             u3 == u2 \o t3
             u4 == u3 \o t4
             u5 == u4 \o t5
  <2>2. ModuleDiscovery(a, cells) = u5
    BY DEF ModuleDiscovery
  <2> HIDE DEF S, t1, t2, t3, t4, t5
  <2>3. u2 \in Seq(S) /\ ToSet(u2) = ToSet(t1) \cup ToSet(t2)
    BY <2>1, ConcatSet
  <2> HIDE DEF u2
  <2>4. u3 \in Seq(S) /\ ToSet(u3) = ToSet(u2) \cup ToSet(t3)
    BY <2>1, <2>3, ConcatSet
  <2> HIDE DEF u3
  <2>5. u4 \in Seq(S) /\ ToSet(u4) = ToSet(u3) \cup ToSet(t4)
    BY <2>1, <2>4, ConcatSet
  <2> HIDE DEF u4
  <2>6. u5 \in Seq(S) /\ ToSet(u5) = ToSet(u4) \cup ToSet(t5)
    BY <2>1, <2>5, ConcatSet
  <2> HIDE DEF u5
  <2>7. ToSet(u5) = S
    BY <2>1, <2>3, <2>4, <2>5, <2>6
  <2> QED
    BY <2>2, <2>6, <2>7 DEF S
<1> QED
  BY <1>1, <1>2
-----------------------------------------------------------------------------
(* No two announcements for one stack have the same topic.                 *)

Component(table) == IF table = ManagementFlagSensors THEN "binary_sensor" ELSE "sensor"

TopicOf(table, a) ==
    IF table = ModuleSensors THEN StateTopic(a)
    ELSE IF table = SystemParameterSensors THEN SystemTopic(a) ELSE ManagementTopic(a)

RowOf(table, n, a) ==
    Sensor(Component(table), Numbered(table[n][1], a), TopicOf(table, a), table[n][2])

CellOf(a, c) ==
    Sensor("sensor", Numbered(Numbered("cell_voltage", a), c), StateTopic(a), CellKey(c))

LEMMA OfModuleIs ==
    ASSUME NEW a, NEW cells, NEW m \in OfModule(a, cells)
    PROVE  \/ \E table \in Tables : \E n \in DOMAIN table : m = RowOf(table, n, a)
           \/ \E c \in 0..cells - 1 : m = CellOf(a, c)
<1>1. /\ ModuleSensors # SystemParameterSensors /\ ModuleSensors # ManagementValueSensors
      /\ ModuleSensors # ManagementFlagSensors
      /\ SystemParameterSensors # ManagementValueSensors
      /\ SystemParameterSensors # ManagementFlagSensors
      /\ ManagementValueSensors # ManagementFlagSensors
  BY TablesAre
<1>2. CASE m \in CellRows(a, cells)
  BY <1>2 DEF CellRows, CellOf
<1>3. CASE m \in Rows("sensor", ModuleSensors, StateTopic(a), a)
  BY <1>1, <1>3 DEF Rows, RowOf, Component, TopicOf, Tables
<1>4. CASE m \in Rows("sensor", SystemParameterSensors, SystemTopic(a), a)
  BY <1>1, <1>4 DEF Rows, RowOf, Component, TopicOf, Tables
<1>5. CASE m \in Rows("sensor", ManagementValueSensors, ManagementTopic(a), a)
  BY <1>1, <1>5 DEF Rows, RowOf, Component, TopicOf, Tables
<1>6. CASE m \in Rows("binary_sensor", ManagementFlagSensors, ManagementTopic(a), a)
  BY <1>1, <1>6 DEF Rows, RowOf, Component, TopicOf, Tables
<1> QED
  BY <1>2, <1>3, <1>4, <1>5, <1>6 DEF OfModule

\* All announcements that sessions make while s is installed
AllOf(s) == OfStack \cup UNION {OfModule(a, s[a]) : a \in DOMAIN s}

LEMMA NumbersAre ==
    ASSUME NEW s \in Stacks, NEW a \in DOMAIN s
    PROVE  /\ a \in Numbers /\ s[a] \in Nat \ {0}
           /\ \A c \in 0..s[a] - 1 : c \in Numbers
           /\ Numbered("cell_voltage", a) \in Stems
<1>1. a \in Numbers /\ s[a] \in Nat \ {0}
  BY StacksAssumption DEF Numbers
<1>2. \A c \in 0..s[a] - 1 : c \in Numbers
  BY DEF Numbers
<1> QED
  BY <1>1, <1>2 DEF Stems

LEMMA PrefixesAre ==
    ASSUME NEW table \in Tables, NEW n \in DOMAIN table
    PROVE  table[n][1] \in IdPrefixes /\ table[n][1] \in Stems
  BY DEF IdPrefixes, Stems

LEMMA SameTopic ==
    ASSUME NEW s \in Stacks, NEW m \in AllOf(s), NEW l \in AllOf(s), m.topic = l.topic
    PROVE  m = l
<1>1. \A x \in AllOf(s) :
        \/ \E n \in 1..3 : x = Sensor("sensor", StackSensors[n][1], StackTopic, StackSensors[n][2])
        \/ \E a \in DOMAIN s :
              \/ \E table \in Tables : \E n \in DOMAIN table : x = RowOf(table, n, a)
              \/ \E c \in 0..s[a] - 1 : x = CellOf(a, c)
  BY OfModuleIs DEF AllOf, OfStack
<1>2. \A p \in IdPrefixes \cup {StackSensors[n][1] : n \in 1..3} : \A q \in Stems :
          \A n \in Numbers : p # Numbered(q, n)
  BY NumberedAssumption, TablesAre
<1>3. \A p, q \in Stems : \A n, k \in Numbers : Numbered(p, n) = Numbered(q, k) => p = q /\ n = k
  BY NumberedAssumption
<1>4. \A c1, i1, t1, k1, c2, i2, t2, k2 :
          Sensor(c1, i1, t1, k1).topic = Sensor(c2, i2, t2, k2).topic => c1 = c2 /\ i1 = i2
  BY DEF Sensor
<1>5. ASSUME NEW n \in 1..3, m = Sensor("sensor", StackSensors[n][1], StackTopic, StackSensors[n][2])
      PROVE  m = l
  <2>1. PICK k \in 1..3 : l = Sensor("sensor", StackSensors[k][1], StackTopic, StackSensors[k][2])
    <3>1. ASSUME NEW a \in DOMAIN s, NEW table \in Tables, NEW k \in DOMAIN table,
                 l = RowOf(table, k, a)
          PROVE  FALSE
      <4>1. StackSensors[n][1] = Numbered(table[k][1], a)
        BY <1>4, <1>5, <3>1 DEF RowOf
      <4> QED
        BY <1>2, <4>1, NumbersAre, PrefixesAre
    <3>2. ASSUME NEW a \in DOMAIN s, NEW c \in 0..s[a] - 1, l = CellOf(a, c) PROVE FALSE
      <4>1. StackSensors[n][1] = Numbered(Numbered("cell_voltage", a), c)
        BY <1>4, <1>5, <3>2 DEF CellOf
      <4> QED
        BY <1>2, <4>1, NumbersAre
    <3> QED
      BY <1>1, <3>1, <3>2
  <2>2. StackSensors[n][1] = StackSensors[k][1]
    BY <1>4, <1>5, <2>1
  <2>3. n = k
    BY <2>2 DEF StackSensors
  <2> QED
    BY <1>5, <2>1, <2>3
<1>6. ASSUME NEW a \in DOMAIN s, NEW table \in Tables, NEW n \in DOMAIN table, m = RowOf(table, n, a)
      PROVE  m = l
  <2>1. \A k \in 1..3 : l # Sensor("sensor", StackSensors[k][1], StackTopic, StackSensors[k][2])
    <3> SUFFICES ASSUME NEW k \in 1..3,
                        l = Sensor("sensor", StackSensors[k][1], StackTopic, StackSensors[k][2])
                 PROVE  FALSE
      OBVIOUS
    <3>1. StackSensors[k][1] = Numbered(table[n][1], a)
      BY <1>4, <1>6 DEF RowOf
    <3> QED
      BY <1>2, <3>1, NumbersAre, PrefixesAre
  <2>2. ASSUME NEW b \in DOMAIN s, NEW c \in 0..s[b] - 1, l = CellOf(b, c) PROVE FALSE
    <3>1. Numbered(table[n][1], a) = Numbered(Numbered("cell_voltage", b), c)
      BY <1>4, <1>6, <2>2 DEF RowOf, CellOf
    <3>2. table[n][1] = Numbered("cell_voltage", b)
      BY <1>3, <3>1, NumbersAre, PrefixesAre
    <3> QED
      BY <1>2, <3>2, NumbersAre, PrefixesAre DEF Stems, IdPrefixes
  <2>3. PICK b \in DOMAIN s, u \in Tables : \E k \in DOMAIN u : l = RowOf(u, k, b)
    BY <1>1, <2>1, <2>2
  <2>4. PICK k \in DOMAIN u : l = RowOf(u, k, b)
    BY <2>3
  <2>5. Numbered(table[n][1], a) = Numbered(u[k][1], b)
    BY <1>4, <1>6, <2>4 DEF RowOf
  <2>6. table[n][1] = u[k][1] /\ a = b
    BY <1>3, <2>5, NumbersAre, PrefixesAre
  <2>7. table = u /\ n = k
    BY <2>6, TablesApart DEF Apart
  <2> QED
    BY <1>6, <2>4, <2>6, <2>7
<1>7. ASSUME NEW a \in DOMAIN s, NEW c \in 0..s[a] - 1, m = CellOf(a, c) PROVE m = l
  <2>1. \A k \in 1..3 : l # Sensor("sensor", StackSensors[k][1], StackTopic, StackSensors[k][2])
    <3> SUFFICES ASSUME NEW k \in 1..3,
                        l = Sensor("sensor", StackSensors[k][1], StackTopic, StackSensors[k][2])
                 PROVE  FALSE
      OBVIOUS
    <3>1. StackSensors[k][1] = Numbered(Numbered("cell_voltage", a), c)
      BY <1>4, <1>7 DEF CellOf
    <3> QED
      BY <1>2, <3>1, NumbersAre
  <2>2. ASSUME NEW b \in DOMAIN s, NEW table \in Tables, NEW n \in DOMAIN table,
               l = RowOf(table, n, b)
        PROVE  FALSE
    <3>1. Numbered(table[n][1], b) = Numbered(Numbered("cell_voltage", a), c)
      BY <1>4, <1>7, <2>2 DEF RowOf, CellOf
    <3>2. table[n][1] = Numbered("cell_voltage", a)
      BY <1>3, <3>1, NumbersAre, PrefixesAre
    <3> QED
      BY <1>2, <3>2, NumbersAre, PrefixesAre DEF Stems, IdPrefixes
  <2>3. PICK b \in DOMAIN s : \E e \in 0..s[b] - 1 : l = CellOf(b, e)
    BY <1>1, <2>1, <2>2
  <2>4. PICK e \in 0..s[b] - 1 : l = CellOf(b, e)
    BY <2>3
  <2>5. Numbered("cell_voltage", a) = Numbered("cell_voltage", b) /\ c = e
    BY <1>3, <1>4, <1>7, <2>4, NumbersAre DEF CellOf
  <2>6. a = b
    BY <1>3, <2>5, NumbersAre DEF Stems, IdPrefixes
  <2> QED
    BY <1>7, <2>4, <2>5, <2>6
<1> QED
  BY <1>1, <1>5, <1>6, <1>7
-----------------------------------------------------------------------------
(* Each announced sensor is fed by one of the objects.                     *)

\* All objects that sessions publish while s is installed
Objects(s) ==
    {StackState} \cup {ModuleState(a, s[a]) : a \in DOMAIN s}
    \cup {SystemParameters(a) : a \in DOMAIN s} \cup {ManagementInfo(a) : a \in DOMAIN s}

LEMMA ObjectsApart ==
    ASSUME NEW s, NEW o \in Objects(s), NEW p \in Objects(s), o.topic = p.topic
    PROVE  o = p
<1>1. \A x \in Objects(s) :
        \/ x = StackState /\ x.topic = <<"stack">>
        \/ \E a \in DOMAIN s :
              \/ x = ModuleState(a, s[a]) /\ x.topic = <<"module", a, "state">>
              \/ x = SystemParameters(a) /\ x.topic = <<"module", a, "system">>
              \/ x = ManagementInfo(a) /\ x.topic = <<"module", a, "management">>
  BY DEF Objects, StackState, ModuleState, SystemParameters, ManagementInfo, Object,
         StackTopic, StateTopic, SystemTopic, ManagementTopic
<1>2. \A a, b, x, y : /\ <<"module", a, x>> = <<"module", b, y>> => a = b /\ x = y
                      /\ <<"module", a, x>> # <<"stack">>
  <2>1. \A a, x : <<"module", a, x>>[1] = "module" /\ <<"stack">>[1] = "stack"
    OBVIOUS
  <2> QED
    BY <2>1
<1>3. PICK a : \/ o = StackState /\ o.topic = <<"stack">>
               \/ o = ModuleState(a, s[a]) /\ o.topic = <<"module", a, "state">>
               \/ o = SystemParameters(a) /\ o.topic = <<"module", a, "system">>
               \/ o = ManagementInfo(a) /\ o.topic = <<"module", a, "management">>
  BY <1>1
<1>4. PICK b : \/ p = StackState /\ p.topic = <<"stack">>
               \/ p = ModuleState(b, s[b]) /\ p.topic = <<"module", b, "state">>
               \/ p = SystemParameters(b) /\ p.topic = <<"module", b, "system">>
               \/ p = ManagementInfo(b) /\ p.topic = <<"module", b, "management">>
  BY <1>1
<1> QED
  BY <1>2, <1>3, <1>4

\* One of the objects is published to the sensor's topic and has its key.
Feeds(s, sensor) == \E o \in Objects(s) : o.topic = sensor.state /\ sensor.key \in o.keys

LEMMA AllFed ==
    ASSUME NEW s \in Stacks, NEW m \in AllOf(s)
    PROVE  Feeds(s, m.sensor)
<1>1. ASSUME NEW component, NEW id, NEW topic, NEW key, NEW o \in Objects(s),
             o.topic = topic, key \in o.keys, m = Sensor(component, id, topic, key)
      PROVE  Feeds(s, m.sensor)
  BY <1>1 DEF Feeds, Sensor
<1>2. CASE m \in OfStack
  <2>1. PICK n \in 1..3 : m = Sensor("sensor", StackSensors[n][1], StackTopic, StackSensors[n][2])
    BY <1>2 DEF OfStack
  <2>2. StackState \in Objects(s) /\ StackState.topic = StackTopic
    BY DEF Objects, StackState, Object
  <2>3. StackSensors[n][2] \in StackState.keys
    BY DEF StackState, Object, StackSensors
  <2> QED
    BY <1>1, <2>1, <2>2, <2>3
<1>3. ASSUME NEW a \in DOMAIN s, m \in OfModule(a, s[a]) PROVE Feeds(s, m.sensor)
  <2>1. /\ ModuleState(a, s[a]) \in Objects(s) /\ ModuleState(a, s[a]).topic = StateTopic(a)
        /\ SystemParameters(a) \in Objects(s) /\ SystemParameters(a).topic = SystemTopic(a)
        /\ ManagementInfo(a) \in Objects(s) /\ ManagementInfo(a).topic = ManagementTopic(a)
    BY DEF Objects, ModuleState, SystemParameters, ManagementInfo, Object
  <2>2. \A n \in 1..7 : ModuleSensors[n][2] \in ModuleState(a, s[a]).keys
    BY DEF ModuleState, Object, ModuleSensors
  <2>3. \A c \in 0..s[a] - 1 : CellKey(c) \in ModuleState(a, s[a]).keys
    BY DEF ModuleState, Object
  <2>4. \A n \in 1..12 : SystemParameterSensors[n][2] \in SystemParameters(a).keys
    BY DEF SystemParameters, Object, SystemParameterSensors
  <2>5. \A n \in 1..4 : ManagementValueSensors[n][2] \in ManagementInfo(a).keys
    BY DEF ManagementInfo, Object, ManagementValueSensors
  <2>6. \A n \in 1..6 : ManagementFlagSensors[n][2] \in ManagementInfo(a).keys
    BY DEF ManagementInfo, Object, ManagementFlagSensors
  <2>7. CASE m \in Rows("sensor", ModuleSensors, StateTopic(a), a)
    BY <1>1, <2>1, <2>2, <2>7, TablesAre DEF Rows
  <2>8. CASE m \in CellRows(a, s[a])
    BY <1>1, <2>1, <2>3, <2>8 DEF CellRows
  <2>9. CASE m \in Rows("sensor", SystemParameterSensors, SystemTopic(a), a)
    BY <1>1, <2>1, <2>4, <2>9, TablesAre DEF Rows
  <2>10. CASE m \in Rows("sensor", ManagementValueSensors, ManagementTopic(a), a)
    BY <1>1, <2>1, <2>5, <2>10, TablesAre DEF Rows
  <2>11. CASE m \in Rows("binary_sensor", ManagementFlagSensors, ManagementTopic(a), a)
    BY <1>1, <2>1, <2>6, <2>11, TablesAre DEF Rows
  <2> QED
    BY <1>3, <2>7, <2>8, <2>9, <2>10, <2>11 DEF OfModule
<1> QED
  BY <1>2, <1>3 DEF AllOf
-----------------------------------------------------------------------------
(* The invariant.                                                          *)

Loops == {"discovery", "system", "management", "values"}

TypeInv ==
    /\ stack \in Stacks /\ (modules # <<>> => modules \in Scans(stack))
    /\ plan \in Loops /\ pos \in Nat \ {0} /\ at \in 0..Len(modules)
    /\ plan \in {"system", "management"} => at # 0
    /\ modules = <<>> => plan = "discovery" /\ at = 0 /\ pos = 1

\* What is heard are objects of the stack, none before the discovery is over.
HeardInv ==
    /\ \A t \in DOMAIN heard : \E o \in Objects(stack) : o.topic = t /\ heard[t] = o.keys
    /\ plan = "discovery" => DOMAIN heard = {}

\* What is retained, of sessions that failed as well, is fed by the stack.
RetainedInv == ~replaced => \A t \in DOMAIN retained : Feeds(stack, retained[t])

\* The n-th announcement of the k-th module has been published.
Past(k, n) == plan # "discovery" \/ k < at \/ (k = at /\ n < pos)

Held(m) == m.topic \in DOMAIN retained /\ retained[m.topic] = m.sensor

SentInv ==
    \A k \in 0..Len(modules) : \A n \in 1..Len(Announced(k)) :
        Past(k, n) => Held(Announced(k)[n])

IInv == TypeInv /\ HeardInv /\ RetainedInv /\ SentInv

LEMMA ScansAre ==
    ASSUME NEW s \in Stacks, NEW f \in Scans(s)
    PROVE  /\ f # <<>> /\ Len(f) \in Nat \ {0} /\ DOMAIN f = 1..Len(f)
           /\ \A k \in 1..Len(f) : /\ f[k].address \in DOMAIN s
                                   /\ f[k].cells = s[f[k].address]
<1>1. PICK n \in 1..Cardinality(DOMAIN s) :
        f \in [1..n -> {[address |-> a, cells |-> s[a]] : a \in DOMAIN s}]
  BY DEF Scans
<1>2. Cardinality(DOMAIN s) \in Nat
  BY StacksAssumption, FS_CardinalityType
<1>3. n \in Nat \ {0} /\ f # <<>> /\ Len(f) = n /\ DOMAIN f = 1..n
  BY <1>1, <1>2
<1>4. \A k \in 1..n : \E a \in DOMAIN s : f[k] = [address |-> a, cells |-> s[a]]
  BY <1>1
<1> QED
  BY <1>3, <1>4

LEMMA ModulesAre ==
    ASSUME TypeInv
    PROVE  /\ Len(modules) \in Nat /\ at \in Nat
           /\ modules = <<>> <=> Len(modules) = 0
           /\ \A k \in 1..Len(modules) : /\ modules[k].address \in DOMAIN stack
                                         /\ modules[k].cells = stack[modules[k].address]
                                         /\ modules[k].cells \in Nat \ {0}
<1>1. CASE modules = <<>>
  BY <1>1 DEF TypeInv
<1>2. CASE modules # <<>>
  <2>1. modules \in Scans(stack) /\ stack \in Stacks
    BY <1>2 DEF TypeInv
  <2>2. /\ modules # <<>> /\ Len(modules) \in Nat \ {0}
        /\ \A k \in 1..Len(modules) : /\ modules[k].address \in DOMAIN stack
                                      /\ modules[k].cells = stack[modules[k].address]
    BY <2>1, ScansAre
  <2> QED
    BY <2>1, <2>2, NumbersAre DEF TypeInv
<1> QED
  BY <1>1, <1>2

LEMMA AnnouncedIs ==
    ASSUME TypeInv, NEW k \in 0..Len(modules)
    PROVE  /\ Announced(k) \in Seq(AllOf(stack))
           /\ Len(Announced(k)) \in Nat /\ DOMAIN Announced(k) = 1..Len(Announced(k))
           /\ \A n \in DOMAIN Announced(k) : Announced(k)[n] \in AllOf(stack)
<1>1. \A S, T : S \subseteq T => Seq(S) \subseteq Seq(T)
  OBVIOUS
<1>2. CASE k = 0
  <2>1. OfStack \subseteq AllOf(stack)
    BY DEF AllOf
  <2>2. Announced(k) \in Seq(OfStack)
    BY <1>2, AnnouncedAre DEF Announced
  <2> QED
    BY <1>1, <2>1, <2>2
<1>3. CASE k # 0
  <2> DEFINE a == modules[k].address
  <2>1. k \in 1..Len(modules)
    BY <1>3, ModulesAre
  <2>2. a \in DOMAIN stack /\ modules[k].cells = stack[a] /\ stack[a] \in Nat
    BY <2>1, ModulesAre
  <2>3. OfModule(a, stack[a]) \subseteq AllOf(stack)
    BY <2>2 DEF AllOf
  <2>4. Announced(k) \in Seq(OfModule(a, stack[a]))
    BY <1>3, <2>2, AnnouncedAre DEF Announced
  <2> QED
    BY <1>1, <2>3, <2>4
<1> QED
  BY <1>2, <1>3

LEMMA InitInv == Init => IInv
<1> SUFFICES ASSUME Init PROVE IInv
  OBVIOUS
<1>1. TypeInv
  BY DEF Init, TypeInv, Loops
<1>2. HeardInv /\ RetainedInv
  BY DEF Init, HeardInv, RetainedInv, Nothing
<1>3. SentInv
  <2>1. Len(modules) = 0 /\ at = 0 /\ pos = 1 /\ plan = "discovery"
    BY DEF Init
  <2> QED
    BY <2>1 DEF SentInv, Past
<1> QED
  BY <1>1, <1>2, <1>3 DEF IInv

(* An announcement takes nothing back of the same stack.                   *)
LEMMA AnnounceStep == IInv /\ Publish /\ plan = "discovery" => IInv'
<1> SUFFICES ASSUME IInv, Publish, plan = "discovery" PROVE IInv'
  OBVIOUS
<1>1. TypeInv
  BY DEF IInv
<1> DEFINE message == Announced(at)[pos]
<1>2. /\ pos \in DOMAIN Announced(at) /\ message \in AllOf(stack)
      /\ at \in 0..Len(modules) /\ pos \in Nat
      /\ retained' = With(retained, message.topic, message.sensor) /\ heard' = heard
      /\ pos' = pos + 1 /\ UNCHANGED <<stack, modules, plan, at, replaced>>
  <2>1. Publications = Announced(at)
    BY DEF Publications
  <2>2. at \in 0..Len(modules) /\ pos \in Nat \ {0}
    BY <1>1 DEF TypeInv
  <2>3. pos \in DOMAIN Announced(at)
    BY <1>1, <2>1, <2>2, AnnouncedIs DEF Publish
  <2> QED
    BY <1>1, <2>1, <2>2, <2>3, AnnouncedIs DEF Publish, Announce
<1>3. TypeInv'
  BY <1>1, <1>2 DEF TypeInv, Publish
<1>4. HeardInv'
  BY <1>2 DEF IInv, HeardInv
<1> HIDE DEF message
<1>5. /\ DOMAIN retained' = DOMAIN retained \cup {message.topic}
      /\ retained'[message.topic] = message.sensor
      /\ \A t \in DOMAIN retained : t # message.topic => retained'[t] = retained[t]
  <2> DEFINE held == With(retained, message.topic, message.sensor)
  <2>1. retained' = held
    BY <1>2
  <2>2. /\ DOMAIN held = DOMAIN retained \cup {message.topic}
        /\ held[message.topic] = message.sensor
        /\ \A t \in DOMAIN retained : t # message.topic => held[t] = retained[t]
    BY DEF With
  <2> HIDE DEF held
  <2> QED
    BY <2>1, <2>2
<1>6. RetainedInv'
  <2> SUFFICES ASSUME ~replaced, NEW t \in DOMAIN retained' PROVE Feeds(stack, retained'[t])
    BY <1>2 DEF RetainedInv
  <2>1. CASE t = message.topic
    BY <1>1, <1>2, <1>5, <2>1, AllFed DEF TypeInv
  <2>2. CASE t # message.topic
    BY <1>5, <2>2 DEF IInv, RetainedInv
  <2> QED
    BY <2>1, <2>2
<1>7. SentInv'
  <2>1. \A k : Announced(k)' = Announced(k)
    BY <1>2 DEF Announced
  <2> SUFFICES ASSUME NEW k \in 0..Len(modules), NEW n \in 1..Len(Announced(k)), Past(k, n)'
               PROVE  LET m == Announced(k)[n]
                      IN  m.topic \in DOMAIN retained' /\ retained'[m.topic] = m.sensor
    BY <1>2, <2>1 DEF SentInv, Held
  <2> DEFINE m == Announced(k)[n]
  <2>2. n \in Nat /\ m \in AllOf(stack)
    BY <1>1, AnnouncedIs
  <2>3. CASE k = at /\ n = pos
    BY <1>5, <2>3 DEF message
  <2>4. CASE ~(k = at /\ n = pos)
    <3>1. Past(k, n)
      BY <1>2, <2>2, <2>4 DEF Past
    <3>2. m.topic \in DOMAIN retained /\ retained[m.topic] = m.sensor
      BY <3>1 DEF IInv, SentInv, Held
    <3> HIDE DEF m
    <3>3. m.topic = message.topic => m = message
      BY <1>1, <1>2, <2>2, SameTopic DEF TypeInv
    <3> QED
      BY <1>5, <3>2, <3>3 DEF m
  <2> QED
    BY <2>3, <2>4
<1> QED
  BY <1>3, <1>4, <1>6, <1>7 DEF IInv

(* A state is an object of the stack.                                      *)
LEMMA ShowStep == IInv /\ Publish /\ plan # "discovery" => IInv'
<1> SUFFICES ASSUME IInv, Publish, plan # "discovery" PROVE IInv'
  OBVIOUS
<1>1. TypeInv
  BY DEF IInv
<1>2. PICK o \in Objects(stack) : Publications = <<o>>
  <2>1. plan \in {"system", "management", "values"} /\ (plan # "values" => at # 0)
    BY <1>1 DEF TypeInv, Loops
  <2>2. at # 0 => modules[at].address \in DOMAIN stack
    BY <1>1, ModulesAre DEF TypeInv
  <2> QED
    BY <2>1, <2>2 DEF Publications, Objects
<1>3. /\ heard' = With(heard, o.topic, o.keys) /\ retained' = retained
      /\ pos' = pos + 1 /\ UNCHANGED <<stack, modules, plan, at, replaced>>
  <2>1. pos = 1
    BY <1>1, <1>2 DEF Publish, TypeInv
  <2> QED
    BY <1>2, <2>1 DEF Publish, Show
<1>4. TypeInv'
  BY <1>1, <1>3 DEF TypeInv, Publish
<1>5. HeardInv'
  <2> DEFINE now == With(heard, o.topic, o.keys)
  <2>1. /\ DOMAIN now = DOMAIN heard \cup {o.topic} /\ now[o.topic] = o.keys
        /\ \A t \in DOMAIN heard : t # o.topic => now[t] = heard[t]
    BY DEF With
  <2>2. heard' = now
    BY <1>3
  <2> HIDE DEF now
  <2>3. \A t \in DOMAIN now : \E p \in Objects(stack) : p.topic = t /\ now[t] = p.keys
    BY <2>1 DEF IInv, HeardInv
  <2> QED
    BY <1>3, <2>2, <2>3 DEF HeardInv
<1>6. RetainedInv'
  BY <1>3 DEF IInv, RetainedInv
<1>7. SentInv'
  BY <1>3 DEF IInv, SentInv, Past, Held, Announced
<1> QED
  BY <1>4, <1>5, <1>6, <1>7 DEF IInv

LEMMA StepInv == IInv /\ [Next]_vars => IInv'
<1> SUFFICES ASSUME IInv, [Next]_vars PROVE IInv'
  OBVIOUS
<1>1. TypeInv /\ HeardInv /\ RetainedInv /\ SentInv
  BY DEF IInv
<1>2. CASE Scan
  <2>1. /\ modules = <<>> /\ modules' \in Scans(stack) /\ Len(modules') \in Nat
        /\ modules' # <<>> /\ plan = "discovery" /\ at = 0 /\ pos = 1
        /\ UNCHANGED <<stack, plan, at, pos, retained, heard, replaced>>
    BY <1>1, <1>2, ScansAre DEF Scan, TypeInv
  <2>2. TypeInv'
    BY <1>1, <2>1 DEF TypeInv
  <2>3. HeardInv' /\ RetainedInv'
    BY <1>1, <2>1 DEF HeardInv, RetainedInv
  <2>4. SentInv'
    BY <2>1 DEF SentInv, Past
  <2> QED
    BY <2>2, <2>3, <2>4 DEF IInv
<1>3. CASE Publish
  BY <1>3, AnnounceStep, ShowStep
<1>4. CASE NextModule
  <2>1. /\ at' = at + 1 /\ pos' = 1 /\ at < Len(modules) /\ pos > Len(Publications)
        /\ UNCHANGED <<stack, modules, plan, retained, heard, replaced>>
    BY <1>4 DEF NextModule
  <2>2. at \in Nat /\ Len(modules) \in Nat
    BY <1>1, ModulesAre
  <2>3. TypeInv'
    BY <1>1, <2>1, <2>2 DEF TypeInv
  <2>4. HeardInv' /\ RetainedInv'
    BY <1>1, <2>1 DEF HeardInv, RetainedInv
  <2>5. \A k : Announced(k)' = Announced(k)
    BY <2>1 DEF Announced
  <2>6. ASSUME NEW k \in 0..Len(modules), NEW n \in 1..Len(Announced(k)), Past(k, n)'
        PROVE  Past(k, n)
    <3>1. DOMAIN Announced(k) = 1..Len(Announced(k)) /\ Len(Announced(k)) \in Nat
      BY <1>1, AnnouncedIs
    <3>2. plan = "discovery" => Publications = Announced(at)
      BY DEF Publications
    <3> QED
      BY <1>1, <2>1, <2>2, <2>6, <3>1, <3>2 DEF Past, TypeInv
  <2>7. SentInv'
    BY <1>1, <2>1, <2>5, <2>6 DEF SentInv, Held
  <2> QED
    BY <2>3, <2>4, <2>7 DEF IInv
<1>5. CASE NextLoop
  <2>1. /\ plan' \in {"system", "management", "values"} /\ at' = Start(plan') /\ pos' = 1
        /\ modules # <<>> /\ at = Len(modules) /\ pos > Len(Publications)
        /\ UNCHANGED <<stack, modules, retained, heard, replaced>>
    BY <1>1, <1>5 DEF NextLoop, TypeInv, Loops
  <2>2. Len(modules) \in Nat \ {0}
    BY <1>1, <2>1, ModulesAre
  <2>3. TypeInv'
    BY <1>1, <2>1, <2>2 DEF TypeInv, Loops, Start
  <2>4. HeardInv' /\ RetainedInv'
    BY <1>1, <2>1 DEF HeardInv, RetainedInv
  <2>5. \A k : Announced(k)' = Announced(k)
    BY <2>1 DEF Announced
  <2>6. ASSUME NEW k \in 0..Len(modules), NEW n \in 1..Len(Announced(k))
        PROVE  Past(k, n)
    <3>1. DOMAIN Announced(k) = 1..Len(Announced(k)) /\ Len(Announced(k)) \in Nat
      BY <1>1, AnnouncedIs
    <3>2. plan = "discovery" => Publications = Announced(at)
      BY DEF Publications
    <3> QED
      BY <1>1, <2>1, <2>2, <3>1, <3>2 DEF Past, TypeInv
  <2>7. SentInv'
    BY <1>1, <2>1, <2>5, <2>6 DEF SentInv, Held
  <2> QED
    BY <2>3, <2>4, <2>7 DEF IInv
<1>6. CASE Fail
  <2>1. /\ modules' = <<>> /\ plan' = "discovery" /\ at' = 0 /\ pos' = 1
        /\ heard' = Nothing /\ UNCHANGED <<stack, retained, replaced>>
    BY <1>6 DEF Fail
  <2>2. TypeInv'
    BY <1>1, <2>1 DEF TypeInv, Loops
  <2>3. HeardInv' /\ RetainedInv'
    BY <1>1, <2>1 DEF HeardInv, RetainedInv, Nothing
  <2>4. SentInv'
    BY <2>1 DEF SentInv, Past
  <2> QED
    BY <2>2, <2>3, <2>4 DEF IInv
<1>7. CASE Replace
  <2>1. /\ modules = <<>> /\ plan = "discovery" /\ at = 0 /\ pos = 1
        /\ stack' \in Stacks /\ replaced'
        /\ UNCHANGED <<modules, plan, at, pos, retained, heard>>
    BY <1>1, <1>7 DEF Replace, TypeInv
  <2>2. TypeInv'
    BY <1>1, <2>1 DEF TypeInv
  <2>3. HeardInv' /\ RetainedInv'
    BY <1>1, <2>1 DEF HeardInv, RetainedInv
  <2>4. SentInv'
    BY <2>1 DEF SentInv, Past
  <2> QED
    BY <2>2, <2>3, <2>4 DEF IInv
<1>8. CASE UNCHANGED vars
  <2>1. TypeInv' /\ HeardInv' /\ RetainedInv'
    BY <1>1, <1>8 DEF vars, TypeInv, HeardInv, RetainedInv
  <2>2. SentInv'
    BY <1>1, <1>8 DEF vars, SentInv, Past, Held, Announced
  <2> QED
    BY <2>1, <2>2 DEF IInv
<1> QED
  BY <1>2, <1>3, <1>4, <1>5, <1>6, <1>7, <1>8 DEF Next

LEMMA InvariantHolds == Spec => []IInv
  BY InitInv, StepInv, PTL DEF Spec
-----------------------------------------------------------------------------
(* No state is published before every sensor that reads states has been    *)
(* announced, and no two announcements have the same id                    *)
(* (publish_discovery).                                                    *)
THEOREM AnnouncedFirstAlways == Spec => []AnnouncedFirst
<1>1. IInv => AnnouncedFirst
  <2> SUFFICES ASSUME IInv, DOMAIN heard # {}, NEW message \in Announcements
               PROVE  message.topic \in DOMAIN retained
                      /\ retained[message.topic] = message.sensor
    BY DEF AnnouncedFirst
  <2>1. plan # "discovery"
    BY DEF IInv, HeardInv
  <2>2. PICK k \in 0..Len(modules) : message \in ToSet(Announced(k))
    BY DEF Announcements
  <2>3. PICK n \in 1..Len(Announced(k)) : message = Announced(k)[n]
    BY <2>2, AnnouncedIs DEF ToSet, IInv
  <2> QED
    BY <2>1, <2>3 DEF IInv, SentInv, Past, Held
<1> QED
  BY <1>1, InvariantHolds, PTL

(* A retained sensor reads what is published to its topic, whatever        *)
(* sessions have left it there, until modules are exchanged                *)
(* (publish_discovery and the to_payload functions).                       *)
THEOREM SensorsFedAlways == Spec => []SensorsFed
<1>1. IInv => SensorsFed
  <2> SUFFICES ASSUME IInv, ~replaced, NEW t \in DOMAIN retained,
                      retained[t].state \in DOMAIN heard
               PROVE  retained[t].key \in heard[retained[t].state]
    BY DEF SensorsFed
  <2>1. PICK o \in Objects(stack) : o.topic = retained[t].state /\ retained[t].key \in o.keys
    BY DEF IInv, RetainedInv, Feeds
  <2>2. PICK p \in Objects(stack) : /\ p.topic = retained[t].state
                                    /\ heard[retained[t].state] = p.keys
    BY DEF IInv, HeardInv
  <2>3. o = p
    BY <2>1, <2>2, ObjectsApart
  <2> QED
    BY <2>1, <2>2, <2>3
<1> QED
  BY <1>1, InvariantHolds, PTL
-----------------------------------------------------------------------------
(* The announcements of any session are many: those of the stack and of    *)
(* the module it found first, with one cell at least, are 33.              *)

LEMMA ImageIsFinite ==
    ASSUME NEW D, IsFiniteSet(D), NEW f, f = [x \in D |-> f[x]]
    PROVE  IsFiniteSet({f[x] : x \in D})
<1> DEFINE T == {f[x] : x \in D}
<1>1. f \in Surjection(D, T)
  BY DEF Surjection
<1> QED
  BY <1>1, FS_Surjection

LEMMA TopicsFinite ==
    ASSUME TypeInv
    PROVE  IsFiniteSet({message.topic : message \in Announcements})
<1> DEFINE K == 0..Len(modules)
           parts == [k \in K |-> ToSet(Announced(k))]
           topics == [message \in Announcements |-> message.topic]
<1>1. Announcements = UNION {parts[k] : k \in K}
  BY DEF Announcements
<1>2. ASSUME NEW k \in K PROVE IsFiniteSet(parts[k])
  <2> DEFINE s == Announced(k)
  <2>1. s \in Seq(AllOf(stack)) /\ Len(s) \in Nat /\ DOMAIN s = 1..Len(s)
    BY <1>2, AnnouncedIs
  <2>2. parts[k] = {s[n] : n \in 1..Len(s)}
    BY <2>1 DEF ToSet
  <2>3. s = [n \in 1..Len(s) |-> s[n]]
    BY <2>1
  <2> HIDE DEF s
  <2>4. IsFiniteSet(1..Len(s))
    BY <2>1, FS_Interval
  <2>5. IsFiniteSet({s[n] : n \in 1..Len(s)})
    BY <2>3, <2>4, ImageIsFinite
  <2> QED
    BY <2>2, <2>5
<1>3. IsFiniteSet({parts[k] : k \in K})
  <2>1. IsFiniteSet(K)
    BY ModulesAre, FS_Interval
  <2>2. parts = [k \in K |-> parts[k]]
    OBVIOUS
  <2> HIDE DEF parts, K
  <2> QED
    BY <2>1, <2>2, ImageIsFinite
<1>4. IsFiniteSet(Announcements)
  <2> HIDE DEF parts, K
  <2>1. \A T \in {parts[k] : k \in K} : IsFiniteSet(T)
    BY <1>2
  <2> QED
    BY <1>1, <1>3, <2>1, FS_UNION
<1>5. topics = [message \in Announcements |-> topics[message]]
  OBVIOUS
<1>6. {message.topic : message \in Announcements} = {topics[message] : message \in Announcements}
  OBVIOUS
<1> HIDE DEF topics
<1>7. IsFiniteSet({topics[message] : message \in Announcements})
  BY <1>4, <1>5, ImageIsFinite
<1> QED
  BY <1>6, <1>7

\* The table and the row of the n-th of the announcements of a module that
\* are counted, 3 < n < 33; the others are those of the stack and a cell.
TableAt(n) ==
    IF n <= 10 THEN ModuleSensors
    ELSE IF n <= 22 THEN SystemParameterSensors
    ELSE IF n <= 26 THEN ManagementValueSensors ELSE ManagementFlagSensors

RowAt(n) == IF n <= 10 THEN n - 3 ELSE IF n <= 22 THEN n - 10 ELSE IF n <= 26 THEN n - 22 ELSE n - 26

Counted(a, n) ==
    IF n <= 3 THEN Sensor("sensor", StackSensors[n][1], StackTopic, StackSensors[n][2])
    ELSE IF n = 33 THEN CellOf(a, 0)
    ELSE RowOf(TableAt(n), RowAt(n), a)

LEMMA PlacesAre ==
    /\ \A n \in 4..32 : TableAt(n) \in Tables /\ RowAt(n) \in DOMAIN TableAt(n)
    /\ \A n, k \in 4..32 : TableAt(n) = TableAt(k) /\ RowAt(n) = RowAt(k) => n = k
<1>1. \A n \in 4..32 : TableAt(n) \in Tables
  BY DEF TableAt, Tables
<1>2. ASSUME NEW n \in 4..32 PROVE RowAt(n) \in DOMAIN TableAt(n)
  <2>1. CASE n <= 10
    BY <2>1, TablesAre DEF TableAt, RowAt
  <2>2. CASE 10 < n /\ n <= 22
    BY <2>2, TablesAre DEF TableAt, RowAt
  <2>3. CASE 22 < n /\ n <= 26
    BY <2>3, TablesAre DEF TableAt, RowAt
  <2>4. CASE 26 < n
    BY <2>4, TablesAre DEF TableAt, RowAt
  <2> QED
    BY <2>1, <2>2, <2>3, <2>4
<1>3. \A n \in 4..32 : Len(TableAt(n)) = IF n <= 10 THEN 7 ELSE IF n <= 22 THEN 12
                                         ELSE IF n <= 26 THEN 4 ELSE 6
  BY TablesAre DEF TableAt
<1>4. \A n, k \in 4..32 : TableAt(n) = TableAt(k) => \/ n <= 10 /\ k <= 10
                                                     \/ 10 < n /\ n <= 22 /\ 10 < k /\ k <= 22
                                                     \/ 22 < n /\ n <= 26 /\ 22 < k /\ k <= 26
                                                     \/ 26 < n /\ 26 < k
  <2> SUFFICES ASSUME NEW n \in 4..32, NEW k \in 4..32, TableAt(n) = TableAt(k)
               PROVE  \/ n <= 10 /\ k <= 10
                      \/ 10 < n /\ n <= 22 /\ 10 < k /\ k <= 22
                      \/ 22 < n /\ n <= 26 /\ 22 < k /\ k <= 26
                      \/ 26 < n /\ 26 < k
    OBVIOUS
  <2>1. Len(TableAt(n)) = Len(TableAt(k))
    OBVIOUS
  <2> QED
    BY <1>3, <2>1
<1>5. \A n, k \in 4..32 : TableAt(n) = TableAt(k) /\ RowAt(n) = RowAt(k) => n = k
  BY <1>4 DEF RowAt
<1> QED
  BY <1>1, <1>2, <1>5

LEMMA CountedApart ==
    ASSUME NEW s \in Stacks, NEW a \in DOMAIN s, NEW n \in 1..33, NEW k \in 1..33,
           Counted(a, n).topic = Counted(a, k).topic
    PROVE  n = k
<1> DEFINE Id(i) == IF i <= 3 THEN StackSensors[i][1]
                    ELSE IF i = 33 THEN Numbered(Numbered("cell_voltage", a), 0)
                    ELSE Numbered(TableAt(i)[RowAt(i)][1], a)
<1>1. \A i \in 1..33 : Counted(a, i).topic[2] = Id(i)
  BY DEF Counted, Sensor, CellOf, RowOf
<1>2. Id(n) = Id(k)
  <2> HIDE DEF Id
  <2> QED
    BY <1>1
<1>3. a \in Numbers /\ 0 \in Numbers /\ Numbered("cell_voltage", a) \in Stems
  BY NumbersAre
<1>4. \A i \in 4..32 : /\ TableAt(i)[RowAt(i)][1] \in IdPrefixes
                       /\ TableAt(i)[RowAt(i)][1] \in Stems
  BY PlacesAre, PrefixesAre
<1>5. \A p \in IdPrefixes \cup {StackSensors[i][1] : i \in 1..3} : \A q \in Stems :
          \A x \in Numbers : p # Numbered(q, x)
  BY NumberedAssumption, TablesAre
<1>6. \A p, q \in Stems : \A x, y \in Numbers : Numbered(p, x) = Numbered(q, y) => p = q /\ x = y
  BY NumberedAssumption
<1>7. \A i \in 1..3, l \in 4..33 : Id(i) # Id(l)
  <2> SUFFICES ASSUME NEW i \in 1..3, NEW l \in 4..33 PROVE Id(i) # Id(l)
    OBVIOUS
  <2>1. Id(i) \in {StackSensors[j][1] : j \in 1..3}
    OBVIOUS
  <2>2. \E q \in Stems, x \in Numbers : Id(l) = Numbered(q, x)
    <3>1. CASE l = 33
      BY <1>3, <3>1
    <3>2. CASE l # 33
      BY <1>3, <1>4, <3>2
    <3> QED
      BY <3>1, <3>2
  <2> HIDE DEF Id
  <2> QED
    BY <1>5, <2>1, <2>2
<1>8. \A i \in 4..32 : Id(i) # Id(33)
  <2> SUFFICES ASSUME NEW i \in 4..32, Id(i) = Id(33) PROVE FALSE
    OBVIOUS
  <2>1. TableAt(i)[RowAt(i)][1] = Numbered("cell_voltage", a)
    BY <1>3, <1>4, <1>6
  <2> QED
    BY <1>3, <1>4, <1>5, <2>1 DEF Stems, IdPrefixes
<1>9. \A i, l \in 1..3 : Id(i) = Id(l) => i = l
  BY DEF StackSensors
<1>10. \A i, l \in 4..32 : Id(i) = Id(l) => i = l
  <2> SUFFICES ASSUME NEW i \in 4..32, NEW l \in 4..32, Id(i) = Id(l) PROVE i = l
    OBVIOUS
  <2>1. TableAt(i)[RowAt(i)][1] = TableAt(l)[RowAt(l)][1]
    <3> DEFINE p == TableAt(i)[RowAt(i)][1]
               q == TableAt(l)[RowAt(l)][1]
    <3>1. Numbered(p, a) = Numbered(q, a)
      OBVIOUS
    <3>2. p \in Stems /\ q \in Stems
      BY <1>4
    <3> HIDE DEF p, q, Id
    <3>3. p = q
      BY <1>3, <1>6, <3>1, <3>2
    <3> QED
      BY <3>3 DEF p, q
  <2>2. /\ TableAt(i) \in Tables /\ RowAt(i) \in DOMAIN TableAt(i)
        /\ TableAt(l) \in Tables /\ RowAt(l) \in DOMAIN TableAt(l)
    BY PlacesAre
  <2>3. Apart(TableAt(i), TableAt(l))
    BY <2>2, TablesApart
  <2>4. TableAt(i) = TableAt(l) /\ RowAt(i) = RowAt(l)
    BY <2>1, <2>2, <2>3 DEF Apart
  <2> QED
    BY <2>4, PlacesAre
<1> HIDE DEF Id
<1> QED
  BY <1>2, <1>7, <1>8, <1>9, <1>10

LEMMA CountedOfModule ==
    ASSUME NEW s \in Stacks, NEW a \in DOMAIN s, NEW n \in 1..33
    PROVE  Counted(a, n) \in OfStack \cup OfModule(a, s[a])
<1>1. CASE n <= 3
  BY <1>1 DEF Counted, OfStack
<1>2. CASE n = 33
  <2>1. 0 \in 0..s[a] - 1
    BY NumbersAre
  <2>2. CellOf(a, 0) \in CellRows(a, s[a])
    BY <2>1 DEF CellOf, CellRows
  <2> QED
    BY <1>2, <2>2 DEF Counted, OfModule
<1>3. CASE 3 < n /\ n < 33
  <2>1. \A table \in Tables : \A i \in DOMAIN table : RowOf(table, i, a) \in OfModule(a, s[a])
    <3>1. /\ ModuleSensors # SystemParameterSensors /\ ModuleSensors # ManagementValueSensors
          /\ ModuleSensors # ManagementFlagSensors
          /\ SystemParameterSensors # ManagementValueSensors
          /\ SystemParameterSensors # ManagementFlagSensors
          /\ ManagementValueSensors # ManagementFlagSensors
      BY TablesAre
    <3>2. \A i \in DOMAIN ModuleSensors : RowOf(ModuleSensors, i, a) \in OfModule(a, s[a])
      BY <3>1 DEF RowOf, Component, TopicOf, Rows, OfModule
    <3>3. \A i \in DOMAIN SystemParameterSensors :
            RowOf(SystemParameterSensors, i, a) \in OfModule(a, s[a])
      BY <3>1 DEF RowOf, Component, TopicOf, Rows, OfModule
    <3>4. \A i \in DOMAIN ManagementValueSensors :
            RowOf(ManagementValueSensors, i, a) \in OfModule(a, s[a])
      BY <3>1 DEF RowOf, Component, TopicOf, Rows, OfModule
    <3>5. \A i \in DOMAIN ManagementFlagSensors :
            RowOf(ManagementFlagSensors, i, a) \in OfModule(a, s[a])
      BY <3>1 DEF RowOf, Component, TopicOf, Rows, OfModule
    <3> QED
      BY <3>2, <3>3, <3>4, <3>5 DEF Tables
  <2>2. TableAt(n) \in Tables /\ RowAt(n) \in DOMAIN TableAt(n)
    BY <1>3, PlacesAre
  <2>3. Counted(a, n) = RowOf(TableAt(n), RowAt(n), a)
    BY <1>3 DEF Counted
  <2> QED
    BY <2>1, <2>2, <2>3
<1> QED
  BY <1>1, <1>2, <1>3

(* For a request channel with at most 33 places (the code's has 32), the   *)
(* announcements of a session have passed through all of them before its   *)
(* first state is published (publish_discovery, MQTT_REQUEST_CAPACITY).    *)
THEOREM AnnouncementsFillChannelAlways ==
    ASSUME Capacity <= 33
    PROVE  Spec => []AnnouncementsFillChannel
<1>1. IInv => AnnouncementsFillChannel
  <2> SUFFICES ASSUME IInv, DOMAIN heard # {}
               PROVE  Cardinality({message.topic : message \in Announcements}) >= Capacity
    BY DEF AnnouncementsFillChannel
  <2> DEFINE T == {message.topic : message \in Announcements}
             a == modules[1].address
             g == [n \in 1..33 |-> Counted(a, n).topic]
  <2>1. TypeInv /\ modules # <<>>
    BY DEF IInv, TypeInv, HeardInv
  <2>2. /\ Len(modules) \in Nat \ {0} /\ stack \in Stacks /\ a \in DOMAIN stack
        /\ modules[1].cells = stack[a] /\ stack[a] \in Nat
    <3>1. Len(modules) \in Nat \ {0}
      BY <2>1, ModulesAre
    <3> QED
      BY <2>1, <3>1, ModulesAre DEF TypeInv
  <2>3. OfStack \cup OfModule(a, stack[a]) \subseteq Announcements
    <3>1. 0 \in 0..Len(modules) /\ 1 \in 0..Len(modules)
      BY <2>2
    <3>2. ToSet(Announced(0)) = OfStack
      BY AnnouncedAre DEF Announced
    <3>3. ToSet(Announced(1)) = OfModule(a, stack[a])
      BY <2>2, AnnouncedAre DEF Announced
    <3> QED
      BY <3>1, <3>2, <3>3 DEF Announcements
  <2>4. IsFiniteSet(T)
    BY <2>1, TopicsFinite
  <2>5. \A n \in 1..33 : Counted(a, n).topic \in T
    BY <2>2, <2>3, CountedOfModule
  <2>6. \A n, k \in 1..33 : Counted(a, n).topic = Counted(a, k).topic => n = k
    BY <2>2, CountedApart
  <2> HIDE DEF T, a
  <2>7. g \in Injection(1..33, T)
    BY <2>5, <2>6 DEF Injection, IsInjective
  <2> HIDE DEF g
  <2>8. Cardinality(T) \in Nat /\ Cardinality(1..33) <= Cardinality(T)
    BY <2>4, <2>7, FS_Injection, FS_CardinalityType
  <2>9. Cardinality(1..33) = 33
    <3>1. 1 \in Int /\ 33 \in Int /\ ~(1 > 33) /\ 33 - 1 + 1 = 33
      OBVIOUS
    <3> QED
      BY <3>1, FS_Interval
  <2> QED
    BY <2>8, <2>9, StacksAssumption DEF T
<1> QED
  BY <1>1, InvariantHolds, PTL
=============================================================================
