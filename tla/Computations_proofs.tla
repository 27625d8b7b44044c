------------------------ MODULE Computations_proofs ------------------------
(***************************************************************************)
(* The three parts that only compute: the summary of a cycle, the          *)
(* conversion of the command line, and the encoding of frames.             *)
(*                                                                         *)
(* The summary is right for every number of modules and cells, and for     *)
(* every set of numbers to round to: the invariant says of each pair of    *)
(* variables what part of the readings it is the minimum and the maximum   *)
(* of, and at the end that part is all; rounding keeps the order of what   *)
(* it does not make equal.                                                 *)
(*                                                                         *)
(* What is accepted of a command line is right for all texts: what is left *)
(* of a text has a first and a last character that is not trimmed.         *)
(*                                                                         *)
(* A frame survives the line, or its damage is noticed, whatever it says   *)
(* and whatever characters the line makes: a single fault changes the sum  *)
(* of the characters by less than 2^16, or leaves a number of characters   *)
(* that the length in the header does not fit.                             *)
(***************************************************************************)
EXTENDS StackState, Configuration, FrameCodec, FiniteSetTheorems, SequenceTheorems, TLAPS

\* low and high are the minimum and the maximum of S, or infinite.
Bounds(low, high, S) ==
    /\ S = {} => low = Infinity /\ high = -Infinity
    /\ S # {} => /\ low \in S /\ high \in S
                 /\ \A v \in S : low <= v /\ v <= high

SeenInModule == {Cells(i)[c] : c \in 1..(j - 1)}

SeenBefore(n) == UNION {{Cells(k)[c] : c \in DOMAIN Cells(k)} : k \in 1..(n - 1)}

\* d is the difference of two of the voltages that ks have, and no two
\* differ by more.
IsSpan(d, ks) ==
    /\ \E k, l \in ks : \E c \in DOMAIN Cells(k), e \in DOMAIN Cells(l) :
          d = Minus(Cells(k)[c], Cells(l)[e])
    /\ \A k, l \in ks : \A c \in DOMAIN Cells(k), e \in DOMAIN Cells(l) :
          Minus(Cells(k)[c], Cells(l)[e]) <= d

\* The module at address id is the first of the most uneven ones before n,
\* and d is its disbalance.
WorstBefore(n, d, id) ==
    /\ n = 1 => d = -Infinity
    /\ n > 1 => \E w \in 1..(n - 1) :
        /\ id = modules[w].address
        /\ IsSpan(d, {w})
        /\ \A k \in 1..(n - 1) : \A c, e \in DOMAIN Cells(k) :
              LET difference == Minus(Cells(k)[c], Cells(k)[e])
              IN  IF k < w THEN difference < d ELSE difference <= d

IInv ==
    /\ TypeOK
    /\ Done => j = 1
    /\ Bounds(moduleMin, moduleMax, IF Done THEN {} ELSE SeenInModule)
    /\ Bounds(globalMin, globalMax, SeenBefore(i))
    /\ WorstBefore(i, maxDisbalance, maxId)
-----------------------------------------------------------------------------
(* Rounding.                                                               *)

(* The sets of the naturals below the elements of T are finite, and one of *)
(* them has none of the others for a part.                                 *)
LEMMA LeastExists ==
    ASSUME NEW T \in SUBSET Nat, T # {}
    PROVE  \E k \in T : \A l \in T : k <= l
<1> DEFINE Part(k) == {l \in T : l <= k}
           Parts == {Part(k) : k \in T}
<1>1. \A k \in T : k \in Nat
  OBVIOUS
<1>2. Parts \subseteq FiniteSubsetsOf(Nat) /\ Parts # {}
  <2>1. ASSUME NEW k \in T PROVE IsFiniteSet(Part(k))
    <3>1. IsFiniteSet(0..k)
      BY <1>1, FS_Interval
    <3>2. Part(k) \subseteq 0..k
      <4> SUFFICES ASSUME NEW l \in T, l <= k PROVE l \in 0..k
        OBVIOUS
      <4>1. l \in Nat /\ k \in Nat
        BY <1>1
      <4> QED
        BY <4>1
    <3> QED
      BY <3>1, <3>2, FS_Subset
  <2> QED
    BY <2>1 DEF FiniteSubsetsOf
<1>3. IsWellFoundedOn(StrictSubsetOrdering(Nat), FiniteSubsetsOf(Nat))
  BY FS_StrictSubsetOrderingWellFounded
<1> HIDE DEF Parts
<1>4. PICK p \in Parts : \A q \in Parts : <<q, p>> \notin StrictSubsetOrdering(Nat)
  BY <1>2, <1>3, WFMin
<1>5. PICK k \in T : p = Part(k)
  BY DEF Parts
<1>6. ASSUME NEW l \in T PROVE k <= l
  <2> SUFFICES ASSUME l < k PROVE FALSE
    BY <1>1
  <2>1. Part(l) \subseteq Part(k) /\ k \in Part(k) /\ k \notin Part(l)
    <3>1. k \in Nat /\ l \in Nat
      BY <1>1
    <3>2. \A x \in T : x <= l => x <= k
      <4> TAKE x \in T
      <4>1. x \in Nat
        BY <1>1
      <4> QED
        BY <3>1, <4>1
    <3>3. k <= k /\ ~(k <= l)
      BY <3>1
    <3> QED
      BY <3>2, <3>3
  <2>2. Part(l) \in SUBSET Nat /\ Part(k) \in SUBSET Nat /\ Part(l) \in Parts
    BY DEF Parts
  <2>3. <<Part(l), Part(k)>> \in StrictSubsetOrdering(Nat)
    BY <2>1, <2>2 DEF StrictSubsetOrdering
  <2> QED
    BY <1>4, <1>5, <2>2, <2>3
<1> QED
  BY <1>6

\* There is a number to round to.
LEMMA NearestIs ==
    ASSUME NEW x \in Int
    PROVE  Nearest(x) \in Float /\ \A g \in Float : Gap(Nearest(x), x) <= Gap(g, x)
<1> DEFINE Gaps == {Gap(f, x) : f \in Float}
           near == {f \in Float : \A g \in Float : Gap(f, x) <= Gap(g, x)}
<1>1. Gaps \in SUBSET Nat /\ Gaps # {}
  <2>1. \A f \in Float : Gap(f, x) \in Nat
    BY StackAssumption DEF Gap
  <2> QED
    BY <2>1, StackAssumption
<1> HIDE DEF Gaps
<1>2. PICK least \in Gaps : \A l \in Gaps : least <= l
  BY <1>1, LeastExists
<1>3. PICK f \in Float : least = Gap(f, x)
  BY DEF Gaps
<1>4. f \in near
  BY <1>2, <1>3 DEF Gaps
<1> HIDE DEF near
<1>5. \E n \in near : near \cap Even # {} => n \in Even
  BY <1>4
<1>6. Nearest(x) = CHOOSE n \in near : near \cap Even # {} => n \in Even
  BY DEF Nearest, near
<1>7. Nearest(x) \in near
  BY <1>5, <1>6
<1> QED
  BY <1>7 DEF near

LEMMA NearestMonotone ==
    ASSUME NEW x \in Int, NEW y \in Int, x <= y
    PROVE  Nearest(x) <= Nearest(y)
<1> DEFINE f == Nearest(x)
           g == Nearest(y)
<1>1. f \in Int /\ g \in Int /\ Gap(f, x) <= Gap(g, x) /\ Gap(g, y) <= Gap(f, y)
  BY NearestIs, StackAssumption
<1>2. x = y => f = g
  OBVIOUS
<1> HIDE DEF f, g
<1>3. f <= g
  BY <1>1, <1>2 DEF Gap
<1> QED
  BY <1>3 DEF f, g

LEMMA VoltsAre ==
    /\ Volts \subseteq Float
    /\ \A m \in Voltage : Quotient[m] \in Volts
    /\ \A x \in Volts : x \in Int /\ -Infinity < x /\ x < Infinity
<1>1. \A m \in Voltage : Quotient[m] \in Volts
  BY DEF Volts
<1>2. ASSUME NEW m \in Voltage PROVE Quotient[m] \in Float
  <2>1. m * Millivolt \in Int
    BY StackAssumption
  <2> QED
    BY <2>1, NearestIs DEF Quotient
<1>3. Volts \subseteq Float
  BY <1>2 DEF Volts
<1> QED
  BY <1>1, <1>3, StackAssumption

LEMMA MinusIs ==
    ASSUME NEW x \in Volts, NEW y \in Volts
    PROVE  /\ Minus(x, y) = Nearest(x - y) /\ Minus(x, y) \in Float
           /\ Minus(x, y) \in Int /\ -Infinity < Minus(x, y)
<1>1. x - y \in Int
  BY VoltsAre
<1>2. x - y \in {u - v : u, v \in Volts}
  OBVIOUS
<1>3. Minus(x, y) = Nearest(x - y)
  BY <1>2 DEF Minus, Rounded
<1> QED
  BY <1>1, <1>3, NearestIs, StackAssumption

LEMMA MinusMonotone ==
    ASSUME NEW x \in Volts, NEW y \in Volts, NEW u \in Volts, NEW v \in Volts,
           x <= u, v <= y
    PROVE  Minus(x, y) <= Minus(u, v)
<1>1. x - y \in Int /\ u - v \in Int /\ x - y <= u - v
  BY VoltsAre
<1> QED
  BY <1>1, NearestMonotone, MinusIs

(* The computed difference of two readings is theirs, up to half a         *)
(* millivolt: each of three roundings is wrong by less than a sixth.       *)
LEMMA GivesDifference ==
    ASSUME NEW m \in Voltage, NEW n \in Voltage
    PROVE  Gives(Minus(Quotient[m], Quotient[n]), m - n)
<1> DEFINE x == Quotient[m]
           y == Quotient[n]
           d == Minus(x, y)
           a == m * Millivolt
           b == n * Millivolt
<1>1. m \in Int /\ n \in Int /\ Millivolt \in Int
  BY StackAssumption
<1>2. a \in Int /\ b \in Int /\ (m - n) * Millivolt = a - b
  BY <1>1
<1>3. x \in Volts /\ y \in Volts
  BY VoltsAre
<1>4. x \in Int /\ y \in Int /\ d \in Int
  BY <1>3, VoltsAre, MinusIs
<1>5. 6 * Gap(x, a) < Millivolt /\ 6 * Gap(y, b) < Millivolt /\ 6 * Gap(d, x - y) < Millivolt
  BY <1>3, FineAssumption
<1> HIDE DEF x, y, d, a, b
<1>6. 2 * Gap(d, a - b) < Millivolt
  BY <1>1, <1>2, <1>4, <1>5 DEF Gap
<1> QED
  BY <1>2, <1>6 DEF Gives, x, y, d

\* What is wider in millivolts is wider after rounding.
LEMMA WiderShows ==
    ASSUME NEW m \in Voltage, NEW n \in Voltage, NEW k \in Voltage, NEW l \in Voltage,
           Minus(Quotient[m], Quotient[n]) <= Minus(Quotient[k], Quotient[l])
    PROVE  m - n <= k - l
<1> DEFINE d == Minus(Quotient[m], Quotient[n])
           e == Minus(Quotient[k], Quotient[l])
           p == m - n
           q == k - l
<1>1. p \in Int /\ q \in Int /\ Millivolt \in Nat \ {0}
  BY StackAssumption
<1>2. d \in Int /\ e \in Int /\ d <= e
  BY VoltsAre, MinusIs
<1>3. 2 * Gap(d, p * Millivolt) < Millivolt /\ 2 * Gap(e, q * Millivolt) < Millivolt
  BY GivesDifference DEF Gives
<1> HIDE DEF d, e, p, q
<1>4. p > q => p * Millivolt >= q * Millivolt + Millivolt
  <2> SUFFICES ASSUME p > q PROVE p * Millivolt >= q * Millivolt + Millivolt
    OBVIOUS
  <2>1. PICK t \in Nat : p = q + 1 + t
    <3>1. p - q - 1 \in Nat /\ p = q + 1 + (p - q - 1)
      BY <1>1
    <3> QED
      BY <3>1
  <2>2. p * Millivolt = q * Millivolt + Millivolt + t * Millivolt
    BY <1>1, <2>1
  <2>3. t * Millivolt \in Nat
    BY <1>1
  <2> QED
    BY <1>1, <2>2, <2>3
<1>5. p * Millivolt \in Int /\ q * Millivolt \in Int
  BY <1>1
<1>6. p <= q
  BY <1>1, <1>2, <1>3, <1>4, <1>5 DEF Gap
<1> QED
  BY <1>6 DEF p, q
-----------------------------------------------------------------------------
(* What the sets of readings are made of.                                  *)
LEMMA CyclesHaveCells ==
    ASSUME modules \in Cycles
    PROVE  /\ Len(modules) \in Nat \ {0} /\ DOMAIN modules = 1..Len(modules)
           /\ \A k \in DOMAIN modules :
                /\ modules[k].address \in Address
                /\ Len(Cells(k)) \in Nat \ {0}
                /\ DOMAIN Cells(k) = 1..Len(Cells(k)) /\ DOMAIN Readings(k) = DOMAIN Cells(k)
                /\ \A c \in DOMAIN Cells(k) :
                      /\ Readings(k)[c] \in Voltage
                      /\ Cells(k)[c] = Quotient[Readings(k)[c]] /\ Cells(k)[c] \in Volts
<1>1. PICK n \in 1..MaxModules : modules \in [1..n -> ModuleState]
  BY DEF Cycles
<1>2. modules \in Seq(ModuleState) /\ Len(modules) = n /\ DOMAIN modules = 1..n
  BY <1>1, StackAssumption
<1>3. ASSUME NEW k \in DOMAIN modules
      PROVE  /\ modules[k].address \in Address
             /\ Len(Cells(k)) \in Nat \ {0}
             /\ DOMAIN Cells(k) = 1..Len(Cells(k)) /\ DOMAIN Readings(k) = DOMAIN Cells(k)
             /\ \A c \in DOMAIN Cells(k) :
                   /\ Readings(k)[c] \in Voltage
                   /\ Cells(k)[c] = Quotient[Readings(k)[c]] /\ Cells(k)[c] \in Volts
  <2>1. modules[k] \in ModuleState
    BY <1>1
  <2>2. PICK m \in 1..MaxCells : Readings(k) \in [1..m -> Voltage]
    BY <2>1 DEF ModuleState, Readings
  <2>3. DOMAIN Readings(k) = 1..m /\ \A c \in 1..m : Readings(k)[c] \in Voltage
    BY <2>2
  <2>4. /\ DOMAIN Cells(k) = 1..m
        /\ \A c \in 1..m : Cells(k)[c] = Quotient[Readings(k)[c]] /\ Cells(k)[c] \in Volts
    BY <2>3, VoltsAre DEF Cells, CellVoltages, Readings
  <2>5. Cells(k) \in [1..m -> Volts]
    BY <2>3, <2>4 DEF Cells, CellVoltages, Readings
  <2>6. m \in Nat \ {0}
    BY StackAssumption
  <2>7. Len(Cells(k)) = m
    BY <2>5, <2>6
  <2> QED
    BY <2>1, <2>3, <2>4, <2>6, <2>7 DEF ModuleState
<1> QED
  BY <1>1, <1>2, <1>3, StackAssumption

(* The bounds of two sets together, and of a set and one more voltage.     *)
LEMMA BoundsOfUnion ==
    ASSUME NEW low, NEW high, NEW S \in SUBSET Volts,
           NEW low2, NEW high2, NEW T \in SUBSET Volts, T # {},
           Bounds(low, high, S), Bounds(low2, high2, T)
    PROVE  Bounds(Lower(low, low2), Higher(high, high2), S \cup T)
<1>1. \A x \in Volts : x \in Int /\ -Infinity < x /\ x < Infinity
  BY VoltsAre
<1>2. CASE S = {}
  BY <1>1, <1>2, StackAssumption DEF Bounds, Lower, Higher
<1>3. CASE S # {}
  <2>1. /\ low \in S /\ high \in S /\ low2 \in T /\ high2 \in T
        /\ \A v \in S : low <= v /\ v <= high
        /\ \A v \in T : low2 <= v /\ v <= high2
    BY <1>3 DEF Bounds
  <2>2. low \in Int /\ high \in Int /\ low2 \in Int /\ high2 \in Int
    BY <1>1, <2>1
  <2>3. Lower(low, low2) \in S \cup T /\ Higher(high, high2) \in S \cup T
    BY <2>1 DEF Lower, Higher
  <2>4. ASSUME NEW v \in S \cup T
        PROVE  Lower(low, low2) <= v /\ v <= Higher(high, high2)
    <3>1. v \in Int
      BY <1>1
    <3> QED
      BY <2>1, <2>2, <3>1 DEF Lower, Higher
  <2> QED
    BY <2>3, <2>4, <1>3 DEF Bounds
<1> QED
  BY <1>2, <1>3

LEMMA BoundsOfOneMore ==
    ASSUME NEW low, NEW high, NEW S \in SUBSET Volts, NEW v \in Volts,
           Bounds(low, high, S)
    PROVE  Bounds(Lower(low, v), Higher(high, v), S \cup {v})
<1>1. v \in Int
  BY VoltsAre
<1>2. Bounds(v, v, {v})
  BY <1>1 DEF Bounds
<1> QED
  BY <1>2, BoundsOfUnion
-----------------------------------------------------------------------------
(* A fold over the cells of a module changes the bounds of the module.     *)
LEMMA FoldCellKeeps == IInv /\ FoldCell => IInv'
<1> SUFFICES ASSUME IInv, FoldCell PROVE IInv'
  OBVIOUS
<1> USE DEF IInv
<1>1. /\ i \in DOMAIN modules /\ j \in 1..Len(Cells(i)) /\ ~Done
      /\ i \in Nat /\ j \in Nat /\ Len(modules) \in Nat
      /\ Cells(i)[j] \in Volts /\ \A c \in DOMAIN Cells(i) : Cells(i)[c] \in Volts
      /\ DOMAIN Cells(i) = 1..Len(Cells(i)) /\ Len(Cells(i)) \in Nat
  <2>1. modules \in Cycles /\ i \in 1..(Len(modules) + 1)
    BY DEF TypeOK
  <2>2. /\ Len(modules) \in Nat \ {0} /\ DOMAIN modules = 1..Len(modules)
        /\ \A k \in DOMAIN modules :
              /\ Len(Cells(k)) \in Nat \ {0}
              /\ DOMAIN Cells(k) = 1..Len(Cells(k))
              /\ \A c \in DOMAIN Cells(k) : Cells(k)[c] \in Volts
    BY <2>1, CyclesHaveCells
  <2>3. i \in DOMAIN modules /\ ~Done
    BY <2>1, <2>2 DEF FoldCell, Done
  <2>4. j \in 1..Len(Cells(i))
    BY <2>2, <2>3 DEF FoldCell, TypeOK
  <2> QED
    BY <2>1, <2>2, <2>3, <2>4
<1>2. modules' = modules /\ i' = i /\ ~Done' /\ Done' = Done
  BY <1>1 DEF FoldCell, Done
<1>3. \A k : Cells(k)' = Cells(k)
  BY <1>2 DEF Cells
<1>4. SeenInModule \subseteq Volts
  BY <1>1 DEF SeenInModule
<1>5. SeenInModule' = SeenInModule \cup {Cells(i)[j]}
  BY <1>1, <1>2, <1>3 DEF SeenInModule, FoldCell
<1>6. Bounds(moduleMin', moduleMax', SeenInModule')
  BY <1>1, <1>4, <1>5, BoundsOfOneMore DEF FoldCell
<1>7. {moduleMin', moduleMax'} \subseteq Volts
  <2>1. SeenInModule' # {} /\ SeenInModule' \subseteq Volts
    BY <1>1, <1>4, <1>5
  <2> QED
    BY <1>6, <2>1 DEF Bounds
<1>8. TypeOK'
  BY <1>1, <1>2, <1>3, <1>7 DEF TypeOK, FoldCell
<1>9. Bounds(globalMin, globalMax, SeenBefore(i))'
  <2>1. SeenBefore(i)' = SeenBefore(i)
    BY <1>2, <1>3 DEF SeenBefore
  <2> QED
    BY <2>1 DEF FoldCell, Bounds
<1>10. WorstBefore(i, maxDisbalance, maxId)'
  BY <1>2 DEF FoldCell, WorstBefore, IsSpan, Cells
<1> QED
  BY <1>2, <1>6, <1>8, <1>9, <1>10 DEF Bounds

(* The end of a module adds it to the stack.                               *)
LEMMA EndModuleKeeps == IInv /\ EndModule => IInv'
<1> SUFFICES ASSUME IInv, EndModule PROVE IInv'
  OBVIOUS
<1> USE DEF IInv
<1> DEFINE disbalance == Minus(moduleMax, moduleMin)
<1> DEFINE Levels == {Cells(i)[c] : c \in DOMAIN Cells(i)}
<1>1. /\ modules \in Cycles /\ i \in DOMAIN modules /\ ~Done
      /\ DOMAIN modules = 1..Len(modules) /\ Len(modules) \in Nat /\ i \in Nat \ {0}
      /\ \A k \in DOMAIN modules :
            /\ modules[k].address \in Address
            /\ Len(Cells(k)) \in Nat \ {0}
            /\ DOMAIN Cells(k) = 1..Len(Cells(k))
            /\ \A c \in DOMAIN Cells(k) : Cells(k)[c] \in Volts
  <2>1. modules \in Cycles /\ i \in 1..(Len(modules) + 1) /\ i <= Len(modules)
    BY DEF TypeOK, EndModule
  <2> QED
    BY <2>1, CyclesHaveCells DEF Done
<1>2. j = Len(Cells(i)) + 1
  BY <1>1 DEF TypeOK, EndModule
<1>3. SeenInModule = Levels /\ Levels # {} /\ Levels \subseteq Volts
  <2>1. 1..(j - 1) = DOMAIN Cells(i) /\ 1 \in DOMAIN Cells(i)
    BY <1>1, <1>2
  <2>2. SeenInModule = Levels
    BY <2>1 DEF SeenInModule
  <2>3. Cells(i)[1] \in Levels
    BY <2>1
  <2>4. Levels \subseteq Volts
    BY <1>1
  <2> QED
    BY <2>2, <2>3, <2>4
<1>4. Bounds(moduleMin, moduleMax, Levels)
  BY <1>1, <1>3
<1>5. modules' = modules /\ i' = i + 1 /\ j' = 1 /\ \A k : Cells(k)' = Cells(k)
  BY DEF EndModule, Cells
<1>6. SeenBefore(i) \subseteq Volts
  BY <1>1 DEF SeenBefore
<1>7. SeenBefore(i + 1) = SeenBefore(i) \cup Levels
  <2>1. 1..((i + 1) - 1) = (1..(i - 1)) \cup {i}
    BY <1>1
  <2>2. \A n, x : x \in SeenBefore(n) <=>
            \E k \in 1..(n - 1) : \E c \in DOMAIN Cells(k) : x = Cells(k)[c]
    BY DEF SeenBefore
  <2>3. \A x : x \in Levels <=> \E c \in DOMAIN Cells(i) : x = Cells(i)[c]
    OBVIOUS
  <2> HIDE DEF Levels
  <2>4. ASSUME NEW x PROVE x \in SeenBefore(i + 1) <=> x \in SeenBefore(i) \cup Levels
    <3>1. x \in SeenBefore(i + 1) <=>
            \/ \E k \in 1..(i - 1) : \E c \in DOMAIN Cells(k) : x = Cells(k)[c]
            \/ \E c \in DOMAIN Cells(i) : x = Cells(i)[c]
      BY <2>1, <2>2
    <3> QED
      BY <2>2, <2>3, <3>1
  <2> QED
    BY <2>4
<1>8. SeenBefore(i)' = SeenBefore(i) \cup Levels
  <2>1. SeenBefore(i)' = SeenBefore(i + 1)
    BY <1>5 DEF SeenBefore
  <2> QED
    BY <1>7, <2>1
<1>9. Bounds(globalMin', globalMax', SeenBefore(i) \cup Levels)
  BY <1>3, <1>4, <1>6, BoundsOfUnion DEF EndModule, Widen
<1>10. /\ \A x \in Volts : x \in Int /\ -Infinity < x /\ x < Infinity
       /\ moduleMin \in Levels /\ moduleMax \in Levels
       /\ \A c \in DOMAIN Cells(i) : moduleMin <= Cells(i)[c] /\ Cells(i)[c] <= moduleMax
  BY <1>3, <1>4, VoltsAre DEF Bounds
<1>11. disbalance \in Float /\ disbalance \in Int /\ IsSpan(disbalance, {i}) /\ disbalance > -Infinity
  <2>1. /\ moduleMin \in Volts /\ moduleMax \in Volts
        /\ disbalance \in Float /\ disbalance \in Int /\ disbalance > -Infinity
    BY <1>3, <1>10, MinusIs, StackAssumption
  <2>2. \A c, e \in DOMAIN Cells(i) : Minus(Cells(i)[c], Cells(i)[e]) <= disbalance
    BY <1>1, <1>10, <2>1, MinusMonotone
  <2>3. PICK c, e \in DOMAIN Cells(i) : moduleMax = Cells(i)[c] /\ moduleMin = Cells(i)[e]
    BY <1>10
  <2>4. IsSpan(disbalance, {i})
    BY <2>2, <2>3 DEF IsSpan
  <2> QED
    BY <2>1, <2>4
<1>17. maxDisbalance \in Int
  BY StackAssumption DEF TypeOK
<1>12. WorstBefore(i + 1, maxDisbalance', maxId')
  <2>0. /\ i + 1 > 1 /\ 1..((i + 1) - 1) = 1..i /\ i \in 1..i
        /\ \A c, e \in DOMAIN Cells(i) : Minus(Cells(i)[c], Cells(i)[e]) <= disbalance
    BY <1>1, <1>5, <1>11 DEF IsSpan
  <2>1. CASE Worse(disbalance)
    <3>1. maxDisbalance' = disbalance /\ maxId' = modules[i].address
      BY <2>1 DEF EndModule
    <3>2. ASSUME NEW k \in 1..i, k # i, NEW c \in DOMAIN Cells(k), NEW e \in DOMAIN Cells(k)
          PROVE  Minus(Cells(k)[c], Cells(k)[e]) < disbalance
      <4>1. i > 1 /\ k \in 1..(i - 1) /\ k \in DOMAIN modules
        BY <1>1, <3>2
      <4>2. PICK w \in 1..(i - 1) :
              IF k < w THEN Minus(Cells(k)[c], Cells(k)[e]) < maxDisbalance
                       ELSE Minus(Cells(k)[c], Cells(k)[e]) <= maxDisbalance
        BY <4>1 DEF WorstBefore
      <4>3. Minus(Cells(k)[c], Cells(k)[e]) \in Int /\ maxDisbalance \in Int
        BY <1>1, <1>17, <4>1, MinusIs
      <4> QED
        BY <1>11, <2>1, <4>2, <4>3 DEF Worse
    <3>3. ASSUME NEW k \in 1..i, NEW c \in DOMAIN Cells(k), NEW e \in DOMAIN Cells(k)
          PROVE  IF k < i THEN Minus(Cells(k)[c], Cells(k)[e]) < disbalance
                          ELSE Minus(Cells(k)[c], Cells(k)[e]) <= disbalance
      BY <1>1, <2>0, <3>2
    <3>4. i + 1 # 1
      BY <1>1
    <3> HIDE DEF disbalance
    <3> QED
      BY <1>11, <2>0, <3>1, <3>3, <3>4 DEF WorstBefore
  <2>2. CASE ~Worse(disbalance)
    <3>1. maxDisbalance' = maxDisbalance /\ maxId' = maxId /\ maxDisbalance \in Int
      BY <1>17, <2>2 DEF EndModule
    <3>2. disbalance <= maxDisbalance
      BY <1>11, <2>2, <3>1 DEF Worse
    <3>3. i > 1
      BY <1>1, <1>11, <3>1, <3>2, StackAssumption DEF WorstBefore
    <3>4. PICK w \in 1..(i - 1) :
            /\ maxId = modules[w].address
            /\ IsSpan(maxDisbalance, {w})
            /\ \A k \in 1..(i - 1) : \A c, e \in DOMAIN Cells(k) :
                  LET difference == Minus(Cells(k)[c], Cells(k)[e])
                  IN  IF k < w THEN difference < maxDisbalance
                               ELSE difference <= maxDisbalance
      BY <3>3 DEF WorstBefore
    <3>5. ASSUME NEW c \in DOMAIN Cells(i), NEW e \in DOMAIN Cells(i)
          PROVE  Minus(Cells(i)[c], Cells(i)[e]) <= maxDisbalance
      <4>1. Minus(Cells(i)[c], Cells(i)[e]) \in Int
        BY <1>1, MinusIs
      <4> QED
        BY <1>11, <2>0, <3>1, <3>2, <4>1
    <3>6. w \in 1..i /\ ~(i < w) /\ i + 1 # 1 /\ \A k \in 1..i : k \in 1..(i - 1) \/ k = i
      BY <1>1
    <3>7. ASSUME NEW k \in 1..i, NEW c \in DOMAIN Cells(k), NEW e \in DOMAIN Cells(k)
          PROVE  IF k < w THEN Minus(Cells(k)[c], Cells(k)[e]) < maxDisbalance
                          ELSE Minus(Cells(k)[c], Cells(k)[e]) <= maxDisbalance
      BY <3>4, <3>5, <3>6
    <3> QED
      BY <2>0, <3>1, <3>4, <3>6, <3>7 DEF WorstBefore
  <2> QED
    BY <2>1, <2>2
<1>13. TypeOK'
  <2>1. {globalMin', globalMax'} \subseteq Volts
    BY <1>3, <1>6, <1>9 DEF Bounds
  <2>2. maxDisbalance' \in Float \cup {-Infinity} /\ maxId' \in Address \cup {0}
    BY <1>1, <1>11 DEF EndModule, TypeOK
  <2>3. i' \in 1..(Len(modules') + 1) /\ j' \in 1..(IF Done' THEN 1 ELSE Len(Cells(i)') + 1)
    BY <1>1, <1>5 DEF Done
  <2>4. j' \in 1..(IF Done THEN 1 ELSE Len(Cells(i)) + 1)'
    <3>1. ~Done' => i' \in DOMAIN modules
      BY <1>1, <1>5 DEF Done
    <3> QED
      BY <1>1, <1>5, <3>1 DEF Done, Cells
  <2> QED
    BY <1>1, <1>5, <2>1, <2>2, <2>3, <2>4 DEF TypeOK, EndModule
<1>14. Bounds(moduleMin, moduleMax, IF Done THEN {} ELSE SeenInModule)'
  <2>1. SeenInModule' = {}
    BY <1>5 DEF SeenInModule
  <2> QED
    BY <2>1 DEF EndModule, Bounds
<1>15. WorstBefore(i, maxDisbalance, maxId)'
  BY <1>5, <1>12 DEF WorstBefore, IsSpan, Cells
<1>16. Bounds(globalMin, globalMax, SeenBefore(i))'
  BY <1>8, <1>9 DEF Bounds
<1> QED
  BY <1>5, <1>13, <1>14, <1>15, <1>16
-----------------------------------------------------------------------------
LEMMA InvariantHolds == Spec => []IInv
<1>1. Init => IInv
  <2> SUFFICES ASSUME Init PROVE IInv
    OBVIOUS
  <2>1. modules \in Cycles
    BY DEF Init
  <2>2. /\ Len(modules) \in Nat \ {0} /\ DOMAIN modules = 1..Len(modules)
        /\ \A k \in DOMAIN modules : Len(Cells(k)) \in Nat \ {0}
    BY <2>1, CyclesHaveCells
  <2>3. TypeOK /\ ~Done
    BY <2>1, <2>2, StackAssumption DEF TypeOK, Init, Done
  <2>4. SeenInModule = {} /\ SeenBefore(i) = {}
    BY DEF Init, SeenInModule, SeenBefore
  <2> QED
    BY <2>3, <2>4 DEF IInv, Init, Bounds, WorstBefore
<1>2. IInv /\ [Next]_vars => IInv'
  <2> SUFFICES ASSUME IInv, [Next]_vars PROVE IInv'
    OBVIOUS
  <2>1. CASE UNCHANGED vars
    <3>1. TypeOK' /\ (Done => j = 1)'
      BY <2>1 DEF IInv, vars, TypeOK, Done, Cells
    <3>2. SeenInModule' = SeenInModule /\ SeenBefore(i)' = SeenBefore(i) /\ Done' = Done
      BY <2>1 DEF vars, SeenInModule, SeenBefore, Cells, Done
    <3>3. Bounds(moduleMin, moduleMax, IF Done THEN {} ELSE SeenInModule)'
      BY <2>1, <3>2 DEF IInv, vars, Bounds
    <3>4. Bounds(globalMin, globalMax, SeenBefore(i))'
      BY <2>1, <3>2 DEF IInv, vars, Bounds
    <3>5. WorstBefore(i, maxDisbalance, maxId)'
      BY <2>1 DEF IInv, vars, WorstBefore, IsSpan, Cells
    <3> QED
      BY <3>1, <3>3, <3>4, <3>5 DEF IInv
  <2> QED
    BY <2>1, FoldCellKeeps, EndModuleKeeps DEF Next
<1> QED
  BY <1>1, <1>2, PTL DEF Spec

(* Type correctness for every number of modules and cells.                 *)
THEOREM TypeCorrect == Spec => []TypeOK
<1>1. IInv => TypeOK
  BY DEF IInv
<1> QED
  BY <1>1, InvariantHolds, PTL

\* What the voltages of cells say of the readings they were made of
LEMMA ReadingsFollow ==
    ASSUME modules \in Cycles,
           NEW k \in DOMAIN modules, NEW l \in DOMAIN modules,
           NEW c \in DOMAIN Cells(k), NEW e \in DOMAIN Cells(l)
    PROVE  /\ c \in DOMAIN Readings(k) /\ e \in DOMAIN Readings(l)
           /\ Gives(Minus(Cells(k)[c], Cells(l)[e]), Readings(k)[c] - Readings(l)[e])
           /\ \A m, n \in DOMAIN modules :
                 \A g \in DOMAIN Readings(m), h \in DOMAIN Readings(n) :
                    Minus(Cells(m)[g], Cells(n)[h]) <= Minus(Cells(k)[c], Cells(l)[e])
                       => Readings(m)[g] - Readings(n)[h] <= Readings(k)[c] - Readings(l)[e]
<1>1. \A m \in DOMAIN modules :
         /\ DOMAIN Readings(m) = DOMAIN Cells(m)
         /\ \A g \in DOMAIN Readings(m) :
               Readings(m)[g] \in Voltage /\ Cells(m)[g] = Quotient[Readings(m)[g]]
  BY CyclesHaveCells
<1>2. c \in DOMAIN Readings(k) /\ e \in DOMAIN Readings(l)
  BY <1>1
<1>3. Gives(Minus(Cells(k)[c], Cells(l)[e]), Readings(k)[c] - Readings(l)[e])
  BY <1>1, <1>2, GivesDifference
<1>4. ASSUME NEW m \in DOMAIN modules, NEW n \in DOMAIN modules,
             NEW g \in DOMAIN Readings(m), NEW h \in DOMAIN Readings(n),
             Minus(Cells(m)[g], Cells(n)[h]) <= Minus(Cells(k)[c], Cells(l)[e])
      PROVE  Readings(m)[g] - Readings(n)[h] <= Readings(k)[c] - Readings(l)[e]
  BY <1>1, <1>2, <1>4, WiderShows
<1> QED
  BY <1>2, <1>3, <1>4

LEMMA DifferencesAre ==
    ASSUME NEW ks, NEW d
    PROVE  d \in Differences(ks) <=>
              \E k, l \in ks : \E c \in DOMAIN Readings(k), e \in DOMAIN Readings(l) :
                 d = Readings(k)[c] - Readings(l)[e]
<1> DEFINE D(k, l) ==
             {Readings(k)[c] - Readings(l)[e] : c \in DOMAIN Readings(k), e \in DOMAIN Readings(l)}
<1>3. Differences(ks) = UNION {D(k, l) : k, l \in ks}
  BY DEF Differences
<1>2. \A k, l : d \in D(k, l) <=>
         \E c \in DOMAIN Readings(k), e \in DOMAIN Readings(l) : d = Readings(k)[c] - Readings(l)[e]
  OBVIOUS
<1> HIDE DEF D
<1>1. d \in Differences(ks) <=> \E k, l \in ks : d \in D(k, l)
  BY <1>3
<1> QED
  BY <1>1, <1>2

(* The stack disbalance gives the widest difference of any two cells       *)
(* (stack_disbalance_v).                                                   *)
THEOREM StackSpanRightAlways == Spec => []StackSpanRight
<1>1. IInv => StackSpanRight
  <2> SUFFICES ASSUME IInv, Done PROVE StackSpanRight
    BY DEF StackSpanRight
  <2>1. /\ i = Len(modules) + 1 /\ modules \in Cycles
        /\ Len(modules) \in Nat \ {0} /\ DOMAIN modules = 1..Len(modules)
        /\ \A k \in DOMAIN modules :
              /\ Len(Cells(k)) \in Nat \ {0} /\ DOMAIN Cells(k) = 1..Len(Cells(k))
              /\ \A c \in DOMAIN Cells(k) : Cells(k)[c] \in Volts
              /\ DOMAIN Readings(k) = DOMAIN Cells(k)
    <3>1. modules \in Cycles
      BY DEF IInv, TypeOK
    <3>2. Len(modules) \in Nat \ {0}
      BY <3>1, CyclesHaveCells
    <3> QED
      BY <3>1, <3>2, CyclesHaveCells DEF IInv, TypeOK, Done
  <2>2. SeenBefore(i) = AllVoltages
    BY <2>1 DEF SeenBefore, AllVoltages
  <2>3. AllVoltages # {} /\ AllVoltages \subseteq Volts
    <3>1. 1 \in DOMAIN modules /\ 1 \in DOMAIN Cells(1)
      BY <2>1
    <3>2. Cells(1)[1] \in AllVoltages
      BY <3>1 DEF AllVoltages
    <3>3. AllVoltages \subseteq Volts
      BY <2>1 DEF AllVoltages
    <3> QED
      BY <3>2, <3>3
  <2>4. /\ globalMin \in AllVoltages /\ globalMax \in AllVoltages
        /\ \A v \in AllVoltages : globalMin <= v /\ v <= globalMax
    BY <2>2, <2>3 DEF IInv, Bounds
  <2>5. PICK k, l \in DOMAIN modules : \E c \in DOMAIN Cells(k), e \in DOMAIN Cells(l) :
            globalMax = Cells(k)[c] /\ globalMin = Cells(l)[e]
    BY <2>4 DEF AllVoltages
  <2>6. PICK c \in DOMAIN Cells(k), e \in DOMAIN Cells(l) :
            globalMax = Cells(k)[c] /\ globalMin = Cells(l)[e]
    BY <2>5
  <2>7. \A m, n \in DOMAIN modules : \A g \in DOMAIN Cells(m), h \in DOMAIN Cells(n) :
            Minus(Cells(m)[g], Cells(n)[h]) <= Minus(Cells(k)[c], Cells(l)[e])
    <3>1. \A m \in DOMAIN modules : \A g \in DOMAIN Cells(m) : Cells(m)[g] \in AllVoltages
      BY DEF AllVoltages
    <3> SUFFICES ASSUME NEW m \in DOMAIN modules, NEW n \in DOMAIN modules,
                        NEW g \in DOMAIN Cells(m), NEW h \in DOMAIN Cells(n)
                 PROVE  Minus(Cells(m)[g], Cells(n)[h]) <= Minus(Cells(k)[c], Cells(l)[e])
      OBVIOUS
    <3>2. /\ Cells(m)[g] \in Volts /\ Cells(n)[h] \in Volts
          /\ globalMax \in Volts /\ globalMin \in Volts
          /\ Cells(m)[g] <= globalMax /\ globalMin <= Cells(n)[h]
      BY <2>3, <2>4, <3>1
    <3>3. Minus(Cells(m)[g], Cells(n)[h]) <= Minus(globalMax, globalMin)
      BY <3>2, MinusMonotone
    <3> QED
      BY <2>6, <3>3
  <2> DEFINE d == Readings(k)[c] - Readings(l)[e]
  <2>8. d \in Differences(DOMAIN modules) /\ Gives(StackDisbalance, d)
    BY <2>1, <2>6, ReadingsFollow, DifferencesAre DEF StackDisbalance
  <2>9. \A o \in Differences(DOMAIN modules) : o <= d
    <3> SUFFICES ASSUME NEW m \in DOMAIN modules, NEW n \in DOMAIN modules,
                        NEW g \in DOMAIN Readings(m), NEW h \in DOMAIN Readings(n)
                 PROVE  Readings(m)[g] - Readings(n)[h] <= d
      BY DifferencesAre
    <3>1. Minus(Cells(m)[g], Cells(n)[h]) <= Minus(Cells(k)[c], Cells(l)[e])
      BY <2>1, <2>7
    <3> QED
      BY <2>1, <3>1, ReadingsFollow
  <2> QED
    BY <2>8, <2>9 DEF StackSpanRight
<1> QED
  BY <1>1, InvariantHolds, PTL

(* No module has cells that are more millivolts apart than those of the    *)
(* one that is named (max_module_id, max_module_disbalance_v).             *)
THEOREM WorstModuleRightAlways == Spec => []WorstModuleRight
<1>1. IInv => WorstModuleRight
  <2> SUFFICES ASSUME IInv, Done PROVE WorstModuleRight
    BY DEF WorstModuleRight
  <2>1. modules \in Cycles /\ i \in 1..(Len(modules) + 1)
    BY DEF IInv, TypeOK
  <2>2. /\ Len(modules) \in Nat \ {0} /\ DOMAIN modules = 1..Len(modules)
        /\ \A k \in DOMAIN modules :
              /\ DOMAIN Readings(k) = DOMAIN Cells(k)
              /\ \A c \in DOMAIN Cells(k) : Cells(k)[c] \in Volts
    BY <2>1, CyclesHaveCells
  <2>3. i > 1 /\ 1..(i - 1) = DOMAIN modules
    BY <2>1, <2>2 DEF Done
  <2>4. PICK w \in DOMAIN modules :
          /\ maxId = modules[w].address
          /\ IsSpan(maxDisbalance, {w})
          /\ \A k \in DOMAIN modules : \A c, e \in DOMAIN Cells(k) :
                LET difference == Minus(Cells(k)[c], Cells(k)[e])
                IN  IF k < w THEN difference < maxDisbalance ELSE difference <= maxDisbalance
    BY <2>3 DEF IInv, WorstBefore
  <2>5. PICK c \in DOMAIN Cells(w), e \in DOMAIN Cells(w) :
            maxDisbalance = Minus(Cells(w)[c], Cells(w)[e])
    BY <2>4 DEF IsSpan
  <2>6. ASSUME NEW k \in DOMAIN modules, NEW g \in DOMAIN Cells(k), NEW h \in DOMAIN Cells(k)
        PROVE  Minus(Cells(k)[g], Cells(k)[h]) <= maxDisbalance
    <3>1. Minus(Cells(k)[g], Cells(k)[h]) \in Int /\ maxDisbalance \in Int
      BY <2>2, <2>5, MinusIs
    <3>2. \/ Minus(Cells(k)[g], Cells(k)[h]) < maxDisbalance
          \/ Minus(Cells(k)[g], Cells(k)[h]) <= maxDisbalance
      BY <2>4
    <3> QED
      BY <3>1, <3>2
  <2> DEFINE d == Readings(w)[c] - Readings(w)[e]
  <2>7. d \in Differences({w}) /\ Gives(maxDisbalance, d)
    BY <2>1, <2>5, ReadingsFollow, DifferencesAre
  <2>8. ASSUME NEW k \in DOMAIN modules, NEW o \in Differences({k})
        PROVE  o <= d
    <3>1. PICK g, h \in DOMAIN Readings(k) : o = Readings(k)[g] - Readings(k)[h]
      BY DifferencesAre
    <3>2. Minus(Cells(k)[g], Cells(k)[h]) <= Minus(Cells(w)[c], Cells(w)[e])
      BY <2>2, <2>5, <2>6
    <3> QED
      BY <2>1, <3>1, <3>2, ReadingsFollow
  <2> QED
    BY <2>4, <2>7, <2>8 DEF WorstModuleRight
<1> QED
  BY <1>1, InvariantHolds, PTL
-----------------------------------------------------------------------------
(* The least and the greatest of a set, when there are such.               *)
LEMMA LeastIs ==
    ASSUME NEW S \in SUBSET Int, NEW low \in S, \A v \in S : low <= v
    PROVE  Min(S) = low
<1>1. \A x \in S : (\A y \in S : x =< y) => x = low
  <2> SUFFICES ASSUME NEW x \in S, \A y \in S : x =< y PROVE x = low
    OBVIOUS
  <2>1. x \in Int /\ low \in Int /\ x <= low /\ low <= x
    OBVIOUS
  <2> QED
    BY <2>1
<1> QED
  BY <1>1 DEF Min

LEMMA GreatestIs ==
    ASSUME NEW S \in SUBSET Int, NEW high \in S, \A v \in S : v <= high
    PROVE  Max(S) = high
<1>1. \A x \in S : (\A y \in S : x >= y) => x = high
  <2> SUFFICES ASSUME NEW x \in S, \A y \in S : x >= y PROVE x = high
    OBVIOUS
  <2>1. x \in Int /\ high \in Int /\ x <= high /\ high <= x
    OBVIOUS
  <2> QED
    BY <2>1
<1>2. \A y \in S : high >= y
  OBVIOUS
<1> QED
  BY <1>1, <1>2 DEF Max

Levels(k) == {Cells(k)[c] : c \in DOMAIN Cells(k)}

(* Each module that is done has a lowest and a highest cell: without this  *)
(* min and max of its cells mean nothing.                                  *)
HasExtremes == \A k \in 1..(i - 1) : \E low, high : Bounds(low, high, Levels(k))

LEMMA ExtremesHold == Spec => [](IInv /\ HasExtremes)
<1>1. Init => HasExtremes
  BY DEF Init, HasExtremes
<1>2. HasExtremes /\ UNCHANGED <<modules, i>> => HasExtremes'
  <2> SUFFICES ASSUME HasExtremes, UNCHANGED <<modules, i>> PROVE HasExtremes'
    OBVIOUS
  <2>1. \A k : Levels(k)' = Levels(k)
    BY DEF Levels, Cells
  <2> QED
    BY <2>1 DEF HasExtremes, Bounds
<1>3. IInv /\ HasExtremes /\ EndModule => HasExtremes'
  <2> SUFFICES ASSUME IInv, HasExtremes, EndModule PROVE HasExtremes'
    OBVIOUS
  <2>1. /\ modules \in Cycles /\ i \in DOMAIN modules /\ ~Done /\ i \in Nat \ {0}
        /\ Len(Cells(i)) \in Nat \ {0} /\ DOMAIN Cells(i) = 1..Len(Cells(i))
    <3>1. modules \in Cycles /\ i \in 1..(Len(modules) + 1) /\ i <= Len(modules)
      BY DEF IInv, TypeOK, EndModule
    <3> QED
      BY <3>1, CyclesHaveCells DEF Done
  <2>2. j = Len(Cells(i)) + 1
    BY <2>1 DEF IInv, TypeOK, EndModule
  <2>3. SeenInModule = Levels(i)
    BY <2>1, <2>2 DEF SeenInModule, Levels
  <2>4. Bounds(moduleMin, moduleMax, Levels(i))
    BY <2>1, <2>3 DEF IInv
  <2>5. modules' = modules /\ i' = i + 1 /\ 1..(i' - 1) = 1..(i - 1) \cup {i}
    BY <2>1 DEF EndModule
  <2>6. \A k \in 1..(i' - 1) : \E low, high : Bounds(low, high, Levels(k))
    BY <2>4, <2>5 DEF HasExtremes
  <2>7. \A k : Levels(k)' = Levels(k)
    BY <2>5 DEF Levels, Cells
  <2> QED
    BY <2>6, <2>7 DEF HasExtremes, Bounds
<1>4. IInv /\ HasExtremes /\ [Next]_vars => HasExtremes'
  BY <1>2, <1>3 DEF Next, FoldCell, vars
<1> QED
  BY <1>1, <1>4, InvariantHolds, PTL DEF Spec

(* The disbalance of one module, as Python computes it, is its span.       *)
LEMMA PythonSpan ==
    ASSUME NEW k, Levels(k) # {}, Levels(k) \subseteq Volts,
           \E low, high : Bounds(low, high, Levels(k))
    PROVE  PythonDisbalance(k) \in Int /\ IsSpan(PythonDisbalance(k), {k})
<1>1. PICK low, high : /\ low \in Levels(k) /\ high \in Levels(k)
                       /\ \A v \in Levels(k) : low <= v /\ v <= high
  BY DEF Bounds
<1>2. Levels(k) \subseteq Int
  BY VoltsAre
<1>3. Min(Levels(k)) = low /\ Max(Levels(k)) = high
  BY <1>1, <1>2, LeastIs, GreatestIs
<1>4. PythonDisbalance(k) = Minus(high, low)
  BY <1>3 DEF PythonDisbalance, Levels
<1>5. PICK c, e \in DOMAIN Cells(k) : high = Cells(k)[c] /\ low = Cells(k)[e]
  BY <1>1 DEF Levels
<1>6. ASSUME NEW c1 \in DOMAIN Cells(k), NEW e1 \in DOMAIN Cells(k)
      PROVE  Minus(Cells(k)[c1], Cells(k)[e1]) <= Minus(high, low)
  <2>1. Cells(k)[c1] \in Levels(k) /\ Cells(k)[e1] \in Levels(k)
    BY DEF Levels
  <2>2. /\ Cells(k)[c1] \in Volts /\ Cells(k)[e1] \in Volts
        /\ low \in Volts /\ high \in Volts
        /\ Cells(k)[c1] <= high /\ low <= Cells(k)[e1]
    BY <1>1, <2>1
  <2> QED
    BY <2>2, MinusMonotone
<1>7. Minus(high, low) \in Int
  BY <1>1, MinusIs
<1> QED
  BY <1>4, <1>5, <1>6, <1>7 DEF IsSpan

(* The adapter computes the summary that the Python poller would, to the   *)
(* last digit.                                                             *)
THEOREM SameAsPythonAlways == Spec => []SameAsPython
<1>1. IInv /\ HasExtremes => SameAsPython
  <2> SUFFICES ASSUME IInv, HasExtremes, Done
               PROVE  /\ StackDisbalance = PythonStackDisbalance
                      /\ <<maxId, maxDisbalance>> = PythonMaxDisbalance
    BY DEF SameAsPython
  <2>1. /\ Len(modules) \in Nat \ {0} /\ DOMAIN modules = 1..Len(modules)
        /\ i = Len(modules) + 1 /\ 1..(i - 1) = DOMAIN modules /\ i > 1
        /\ \A k \in DOMAIN modules : Levels(k) # {} /\ Levels(k) \subseteq Volts
    <3>1. modules \in Cycles /\ i \in 1..(Len(modules) + 1)
      BY DEF IInv, TypeOK
    <3>2. /\ Len(modules) \in Nat \ {0} /\ DOMAIN modules = 1..Len(modules)
          /\ \A k \in DOMAIN modules :
                /\ Len(Cells(k)) \in Nat \ {0} /\ DOMAIN Cells(k) = 1..Len(Cells(k))
                /\ \A c \in DOMAIN Cells(k) : Cells(k)[c] \in Volts
      BY <3>1, CyclesHaveCells
    <3>3. i = Len(modules) + 1 /\ 1..(i - 1) = DOMAIN modules /\ i > 1
      BY <3>1, <3>2 DEF Done
    <3>4. ASSUME NEW k \in DOMAIN modules
          PROVE  Levels(k) # {} /\ Levels(k) \subseteq Volts
      <4>1. 1 \in DOMAIN Cells(k)
        BY <3>2
      <4>2. Cells(k)[1] \in Levels(k)
        BY <4>1 DEF Levels
      <4> QED
        BY <3>2, <4>2 DEF Levels
    <3> QED
      BY <3>2, <3>3, <3>4
  <2>2. StackDisbalance = PythonStackDisbalance
    <3>1. SeenBefore(i) = AllVoltages
      BY <2>1 DEF SeenBefore, AllVoltages
    <3>2. \A x : x \in AllVoltages <=> \E k \in DOMAIN modules : x \in Levels(k)
      BY DEF AllVoltages, Levels
    <3>3. AllVoltages # {} /\ AllVoltages \subseteq Volts /\ Volts \subseteq Int
      <4>1. 1 \in DOMAIN modules
        BY <2>1
      <4> QED
        BY <2>1, <3>2, <4>1, VoltsAre
    <3>4. /\ globalMin \in AllVoltages /\ globalMax \in AllVoltages
          /\ \A v \in AllVoltages : globalMin <= v /\ v <= globalMax
      BY <3>1, <3>3 DEF IInv, Bounds
    <3>5. AllVoltages \in SUBSET Int
      BY <3>3
    <3>6. Min(AllVoltages) = globalMin
      BY <3>4, <3>5, LeastIs
    <3>7. Max(AllVoltages) = globalMax
      BY <3>4, <3>5, GreatestIs
    <3> QED
      BY <3>6, <3>7 DEF PythonStackDisbalance, StackDisbalance
  <2>3. \A k \in DOMAIN modules : PythonDisbalance(k) \in Int /\ IsSpan(PythonDisbalance(k), {k})
    BY <2>1, PythonSpan DEF HasExtremes
  <2>ints. \A k \in DOMAIN modules : PythonDisbalance(k) \in Int
    BY <2>3
  <2>4. PICK w \in DOMAIN modules :
          /\ maxId = modules[w].address
          /\ IsSpan(maxDisbalance, {w})
          /\ \A k \in DOMAIN modules : \A c, e \in DOMAIN Cells(k) :
                LET difference == Minus(Cells(k)[c], Cells(k)[e])
                IN  IF k < w THEN difference < maxDisbalance ELSE difference <= maxDisbalance
    BY <2>1 DEF IInv, WorstBefore
  <2>5. maxDisbalance \in Int
    BY StackAssumption DEF IInv, TypeOK
  <2>6. \A k \in DOMAIN modules :
          IF k < w THEN PythonDisbalance(k) < maxDisbalance
                   ELSE PythonDisbalance(k) <= maxDisbalance
    <3> SUFFICES ASSUME NEW k \in DOMAIN modules
                 PROVE  IF k < w THEN PythonDisbalance(k) < maxDisbalance
                                 ELSE PythonDisbalance(k) <= maxDisbalance
      OBVIOUS
    <3>1. PICK c, e \in DOMAIN Cells(k) : PythonDisbalance(k) = Minus(Cells(k)[c], Cells(k)[e])
      BY <2>3 DEF IsSpan
    <3> QED
      BY <2>4, <3>1
  <2>7. PythonDisbalance(w) = maxDisbalance
    <3>1. PICK c, e \in DOMAIN Cells(w) : maxDisbalance = Minus(Cells(w)[c], Cells(w)[e])
      BY <2>4 DEF IsSpan
    <3>2. maxDisbalance <= PythonDisbalance(w)
      BY <2>3, <3>1 DEF IsSpan
    <3>3. PythonDisbalance(w) <= maxDisbalance
      BY <2>1, <2>6
    <3> QED
      BY <2>5, <2>ints, <3>2, <3>3
  <2> DEFINE Worst == {l \in DOMAIN modules :
                          \A o \in DOMAIN modules : PythonDisbalance(o) <= PythonDisbalance(l)}
  <2>8. w \in Worst
    <3>1. \A o \in DOMAIN modules : PythonDisbalance(o) <= maxDisbalance
      BY <2>1, <2>5, <2>6, <2>ints
    <3> QED
      BY <2>7, <3>1
  <2>9. \A l \in Worst : w <= l
    <3> SUFFICES ASSUME NEW l \in DOMAIN modules, PythonDisbalance(w) <= PythonDisbalance(l)
                 PROVE  w <= l
      OBVIOUS
    <3>1. ~(PythonDisbalance(l) < maxDisbalance)
      BY <2>5, <2>7, <2>ints
    <3> QED
      BY <2>1, <2>6, <3>1
  <2>10. Min(Worst) = w
    <3>1. Worst \in SUBSET Int
      BY <2>1
    <3> HIDE DEF Worst
    <3> QED
      BY <2>8, <2>9, <3>1, LeastIs
  <2>11. PythonMaxDisbalance = <<modules[w].address, PythonDisbalance(w)>>
    BY <2>10 DEF PythonMaxDisbalance
  <2> QED
    BY <2>2, <2>4, <2>7, <2>11
<1> QED
  BY <1>1, ExtremesHold, PTL
-----------------------------------------------------------------------------
(* Configuration: what is left of a text that is trimmed.                  *)


\* The positions of the characters that keep a text from being trimmed
Kept(s, c) == {k \in DOMAIN s : s[k] # c}

LEMMA KeptEnds ==
    ASSUME NEW s \in Seq(Characters), NEW c, Kept(s, c) # {}
    PROVE  \E a, b \in Kept(s, c) : \A l \in Kept(s, c) : a <= l /\ l <= b
<1> DEFINE K == Kept(s, c)
           n == Len(s)
           R == {n - l : l \in K}
<1>1. n \in Nat /\ K \subseteq 1..n
  BY LenProperties DEF Kept
<1> HIDE DEF K, n
<1>2. K \in SUBSET Nat /\ K # {}
  BY <1>1 DEF K
<1>3. PICK a \in K : \A l \in K : a <= l
  BY <1>2, LeastExists
<1>4. R \in SUBSET Nat /\ R # {}
  BY <1>1, <1>2
<1>5. PICK r \in R : \A l \in R : r <= l
  <2> HIDE DEF R
  <2> QED
    BY <1>4, LeastExists
<1>6. PICK b \in K : r = n - b
  BY <1>5
<1>7. \A l \in K : l <= b
  <2> TAKE l \in K
  <2>1. n - l \in R /\ l \in Nat /\ b \in Nat
    BY <1>1
  <2>2. n - b <= n - l
    BY <1>5, <1>6, <2>1
  <2> QED
    BY <1>1, <2>1, <2>2
<1> QED
  BY <1>3, <1>7 DEF K

\* A text of other characters than c is left over, or nothing.
LEMMA TrimIs ==
    ASSUME NEW s \in Seq(Characters), NEW c
    PROVE  /\ Trim(s, c) \in Seq(Characters)
           /\ Kept(s, c) = {} => Trim(s, c) = <<>>
           /\ Kept(s, c) # {} => /\ Len(Trim(s, c)) \in Nat \ {0}
                                 /\ Trim(s, c)[1] # c
                                 /\ Trim(s, c)[Len(Trim(s, c))] # c
<1>1. CASE Kept(s, c) = {}
  BY <1>1 DEF Trim, Kept
<1>2. CASE Kept(s, c) # {}
  <2> DEFINE K == Kept(s, c)
             first == CHOOSE k \in K : \A l \in K : k <= l
             last == CHOOSE k \in K : \A l \in K : l <= k
  <2>1. Trim(s, c) = SubSeq(s, first, last)
    BY <1>2 DEF Trim, Kept
  <2>2. (\E k \in K : \A l \in K : k <= l) /\ (\E k \in K : \A l \in K : l <= k)
    BY <1>2, KeptEnds
  <2>3. first \in K /\ last \in K /\ first <= last
    BY <2>2
  <2> HIDE DEF first, last
  <2>4. /\ first \in Nat /\ last \in Nat /\ first <= last /\ s[first] # c /\ s[last] # c
        /\ \A k \in first..last : s[k] \in Characters
    <3>1. Len(s) \in Nat /\ DOMAIN s = 1..Len(s) /\ \A k \in 1..Len(s) : s[k] \in Characters
      BY LenProperties, ElementOfSeq
    <3>2. first \in 1..Len(s) /\ last \in 1..Len(s) /\ s[first] # c /\ s[last] # c
      BY <2>3, <3>1 DEF Kept
    <3> QED
      BY <2>3, <3>1, <3>2
  <2> DEFINE t == SubSeq(s, first, last)
  <2>5. /\ t \in Seq(Characters) /\ Len(t) = last - first + 1
        /\ \A k \in 1..last - first + 1 : t[k] = s[first + k - 1]
    <3>1. /\ first \in Int /\ last \in Int
          /\ (IF first <= last THEN last - first + 1 ELSE 0) = last - first + 1
      BY <2>4
    <3>2. /\ t \in Seq(Characters)
          /\ Len(t) = IF first <= last THEN last - first + 1 ELSE 0
          /\ \A k \in 1..last - first + 1 : t[k] = s[first + k - 1]
      BY <2>4, <3>1, SubSeqProperties
    <3> QED
      BY <3>1, <3>2
  <2>6. /\ 1 \in 1..last - first + 1 /\ last - first + 1 \in 1..last - first + 1
        /\ first + 1 - 1 = first /\ first + (last - first + 1) - 1 = last
        /\ last - first + 1 \in Nat \ {0}
    BY <2>4
  <2>7. t[1] # c /\ t[last - first + 1] # c
    BY <2>4, <2>5, <2>6
  <2> HIDE DEF t
  <2>8. Trim(s, c) = t
    BY <2>1 DEF t
  <2> QED
    BY <1>2, <2>5, <2>6, <2>7, <2>8
<1> QED
  BY <1>1, <1>2

LEMMA TrimmedAgain ==
    ASSUME NEW s \in Seq(Characters), NEW c, Trim(s, c) # <<>>
    PROVE  Trim(Trim(s, c), c) # <<>>
<1> DEFINE t == Trim(s, c)
<1>1. t \in Seq(Characters) /\ Len(t) \in Nat \ {0} /\ t[1] # c
  BY TrimIs
<1>2. DOMAIN t = 1..Len(t)
  BY <1>1, LenProperties
<1> HIDE DEF t
<1>3. 1 \in Kept(t, c)
  BY <1>1, <1>2 DEF Kept
<1>4. Len(Trim(t, c)) # 0
  BY <1>1, <1>3, TrimIs
<1>5. Len(<<>>) = 0
  OBVIOUS
<1> QED
  BY <1>4, <1>5 DEF t

\* What becomes of a prefix begins and ends with something else than a slash.
LEMMA NormalizeIs ==
    ASSUME NEW s \in Seq(Characters), Normalize(s) # <<>>
    PROVE  Head(Normalize(s)) # "slash" /\ Last(Normalize(s)) # "slash"
<1> DEFINE t == Trim(s, "space")
           u == Trim(t, "slash")
<1>1. t \in Seq(Characters)
  BY TrimIs
<1>2. Normalize(s) = u
  BY DEF Normalize
<1> HIDE DEF t
<1>3. /\ u \in Seq(Characters) /\ Len(u) \in Nat \ {0}
      /\ u[1] # "slash" /\ u[Len(u)] # "slash"
  BY <1>1, <1>2, TrimIs
<1> HIDE DEF u
<1>4. Head(u) = u[1]
  BY <1>3
<1>5. Last(u) = u[Len(u)]
  BY DEF Last
<1> QED
  BY <1>2, <1>3, <1>4, <1>5
-----------------------------------------------------------------------------
(* What the options can be, and what is accepted of them.                  *)

\* The arguments that the parser of the command line lets through
Arguments ==
    /\ \A o \in Numeric : args[o] \in Nat
    /\ \A o \in Textual : args[o] \in Seq(Characters)
    /\ args["password_file"] \in Files \cup {None}

\* What runs was accepted as a whole, and is made of the same arguments.
ConfigInv == Arguments /\ (Running => Valid /\ config = Accepted)

LEMMA ValuesAre ==
    /\ \A o \in Numeric : o \in Options /\ Values(o) = Numbers /\ Usual[o] = 1
    /\ \A o \in Textual : o \in Options /\ Values(o) = Texts /\ Usual[o] = <<"letter">>
    /\ "password_file" \in Options /\ Values("password_file") = Files \cup {None}
    /\ Usual["password_file"] = None
<1>1. ASSUME NEW o \in Numeric PROVE o \in Options /\ Values(o) = Numbers
  BY <1>1 DEF Options, Values, Numeric, Textual
<1>2. ASSUME NEW o \in Textual PROVE o \in Options /\ Values(o) = Texts
  BY <1>2 DEF Options, Values, Numeric, Textual
<1>3. "password_file" \in Options /\ Values("password_file") = Files \cup {None}
  BY DEF Options, Values, Numeric, Textual
<1>4. \A o \in Numeric : Usual[o] = 1
  BY <1>1 DEF Usual
<1>5. \A o \in Textual : Usual[o] = <<"letter">>
  <2> TAKE o \in Textual
  <2>1. o \in Options /\ o \notin Numeric
    BY <1>2 DEF Numeric, Textual
  <2> QED
    BY <2>1 DEF Usual
<1>6. Usual["password_file"] = None
  <2>1. "password_file" \notin Numeric /\ "password_file" \notin Textual \cup {"user"}
    BY DEF Numeric, Textual
  <2> QED
    BY <1>3, <2>1 DEF Usual
<1> QED
  BY <1>1, <1>2, <1>3, <1>4, <1>5, <1>6

LEMMA ArgumentsAtFirst == ConfigInit => Arguments
<1> SUFFICES ASSUME ConfigInit PROVE Arguments
  OBVIOUS
<1>1. PICK f, g \in Options : \E x \in Values(f), y \in Values(g) :
         args = [[Usual EXCEPT ![f] = x] EXCEPT ![g] = y]
  BY DEF ConfigInit
<1>2. PICK x \in Values(f), y \in Values(g) :
         args = [[Usual EXCEPT ![f] = x] EXCEPT ![g] = y]
  BY <1>1
<1>3. DOMAIN Usual = Options
  BY DEF Usual
<1>4. \A o \in Options : args[o] \in Values(o) \/ args[o] = Usual[o]
  BY <1>2, <1>3
<1>5. /\ Numbers \subseteq Nat /\ Texts \subseteq Seq(Characters)
      /\ <<"letter">> \in Seq(Characters)
  <2>1. "letter" \in Characters
    BY DEF Characters
  <2>2. <<"letter">> \in Seq(Characters)
    BY <2>1
  <2> QED
    BY <2>2, ConfigurationAssumption
<1>6. \A o \in Numeric : args[o] \in Nat
  <2> TAKE o \in Numeric
  <2>1. args[o] \in Numbers \/ args[o] = 1
    BY <1>4, ValuesAre
  <2>2. \A n \in Numbers : n \in Nat
    BY <1>5
  <2> QED
    BY <2>1, <2>2
<1>7. \A o \in Textual : args[o] \in Seq(Characters)
  <2> TAKE o \in Textual
  <2>1. args[o] \in Texts \/ args[o] = <<"letter">>
    BY <1>4, ValuesAre
  <2> QED
    BY <1>5, <2>1
<1>8. args["password_file"] \in Files \cup {None}
  BY <1>4, ValuesAre
<1> QED
  BY <1>6, <1>7, <1>8 DEF Arguments

LEMMA ConfigInvHolds == ConfigSpec => []ConfigInv
<1>1. ConfigInit => ConfigInv
  BY ArgumentsAtFirst DEF ConfigInv, ConfigInit, Running
<1>2. ConfigInv /\ [ConfigNext]_configVars => ConfigInv'
  <2> SUFFICES ASSUME ConfigInv, [ConfigNext]_configVars PROVE ConfigInv'
    OBVIOUS
  <2>1. args' = args
    BY DEF ConfigNext, IntoConfig, configVars
  <2>2. Arguments' /\ Valid' = Valid /\ Accepted' = Accepted
    BY <2>1 DEF ConfigInv, Arguments, Valid, Accepted, Password, DelaysOrdered
  <2>3. CASE IntoConfig
    BY <2>2, <2>3 DEF ConfigInv, IntoConfig, Running
  <2>4. CASE UNCHANGED configVars
    BY <2>2, <2>4 DEF ConfigInv, configVars, Running
  <2> QED
    BY <2>3, <2>4 DEF ConfigNext
<1> QED
  BY <1>1, <1>2, PTL DEF ConfigSpec

(* What the other modules assume of their constants is true of every       *)
(* configuration that is accepted.                                         *)
THEOREM AssumptionsMetAlways == ConfigSpec => []AssumptionsMet
<1>1. ConfigInv => AssumptionsMet
  <2> SUFFICES ASSUME ConfigInv, Running PROVE AssumptionsMet
    BY DEF AssumptionsMet
  <2>1. Valid /\ config = Accepted /\ Arguments
    BY DEF ConfigInv
  <2>2. \A o \in Numeric : config[o] = args[o]
    <3> TAKE o \in Numeric
    <3>1. /\ o \in Options /\ o \notin {"source_host", "mqtt_host"}
          /\ o \notin {"discovery_prefix", "topic_prefix"} /\ o # "user" /\ o # "password"
      BY DEF Options, Numeric
    <3> QED
      BY <2>1, <3>1 DEF Accepted
  <2>3. \A o \in Numeric : config[o] \in Nat
    BY <2>1, <2>2 DEF Arguments
  <2>4. \A o \in Numeric \ {"scan_start", "scan_end"} : config[o] # 0
    BY <2>1, <2>2 DEF Valid
  <2>5. {"scan_start", "scan_end", "initial_delay", "max_delay"} \subseteq Numeric
    BY DEF Numeric
  <2>6. /\ config["scan_start"] <= config["scan_end"]
        /\ config["initial_delay"] <= config["max_delay"]
    BY <2>1, <2>2, <2>5 DEF Valid, DelaysOrdered
  <2>7. /\ "initial_delay" \in Numeric \ {"scan_start", "scan_end"}
        /\ {"timeout", "interval", "management_interval", "stats_interval"}
              \subseteq Numeric \ {"scan_start", "scan_end"}
    BY DEF Numeric
  <2> QED
    BY <2>3, <2>4, <2>5, <2>6, <2>7 DEF AssumptionsMet
<1> QED
  BY <1>1, ConfigInvHolds, PTL

(* Neither prefix of an accepted configuration begins or ends with a       *)
(* slash, and its password is the only one that was given.                 *)
THEOREM TextsUsableAlways == ConfigSpec => []TextsUsable
<1>1. ConfigInv /\ Running => PrefixUsable
  <2> SUFFICES ASSUME ConfigInv, Running PROVE PrefixUsable
    OBVIOUS
  <2>1. Valid /\ config = Accepted /\ Arguments
    BY DEF ConfigInv
  <2>2. ASSUME NEW o \in {"discovery_prefix", "topic_prefix"}
        PROVE  config[o] # <<>> /\ Head(config[o]) # "slash" /\ Last(config[o]) # "slash"
    <3>1. o \in Options /\ o \in Textual /\ o \notin {"source_host", "mqtt_host"}
      BY <2>2 DEF Options, Textual
    <3>2. config[o] = Normalize(args[o])
      BY <2>1, <2>2, <3>1 DEF Accepted
    <3>3. args[o] \in Seq(Characters) /\ Normalize(args[o]) # <<>>
      BY <2>1, <2>2, <3>1 DEF Arguments, Valid
    <3> QED
      BY <3>2, <3>3, NormalizeIs
  <2> QED
    BY <2>2 DEF PrefixUsable
<1>2. ConfigInv /\ Running => OneSecret
  <2> SUFFICES ASSUME ConfigInv, Running, config["password"] # None
               PROVE  /\ args["user"] # None
                      /\ \/ args["password_file"] = None /\ config["password"] = args["password"]
                         \/ /\ args["password"] = None /\ args["password_file"] # Unreadable
                            /\ ~Blank(config["password"])
    BY DEF OneSecret
  <2>1. Valid /\ config = Accepted /\ Arguments
    BY DEF ConfigInv
  <2>2. config["password"] = Password
    <3>1. "password" \in Options
      BY DEF Options
    <3> QED
      BY <2>1, <3>1 DEF Accepted
  <2>3. Password # Refused /\ Password # None /\ args["user"] # None
    BY <2>1, <2>2 DEF Valid
  <2>4. CASE args["password"] # None
    <3>1. args["password_file"] = None
      BY <2>3, <2>4 DEF Password, LoadPassword
    <3>2. Password = args["password"]
      BY <2>4, <3>1 DEF Password, LoadPassword
    <3> QED
      BY <2>2, <2>3, <3>1, <3>2
  <2>5. CASE args["password"] = None
    <3> DEFINE file == args["password_file"]
    <3>1. file # None
      BY <2>3, <2>5 DEF Password, LoadPassword
    <3>2. file # Unreadable /\ ~Blank(file) /\ Password = Trim(file, "space")
      BY <2>3, <2>5, <3>1 DEF Password, LoadPassword
    <3>3. file \in Seq(Characters)
      BY <2>1, <3>1, <3>2, ConfigurationAssumption DEF Arguments
    <3> HIDE DEF file
    <3>4. ~Blank(Trim(file, "space"))
      BY <3>2, <3>3, TrimmedAgain DEF Blank
    <3> QED
      BY <2>2, <2>3, <2>5, <3>2, <3>4 DEF file
  <2> QED
    BY <2>4, <2>5
<1> QED
  BY <1>1, <1>2, ConfigInvHolds, PTL DEF TextsUsable
-----------------------------------------------------------------------------
(* The sum of the characters, as the number of pairs it is.                *)

Units(s) == UNION {{k} \X (1..s[k]) : k \in DOMAIN s}

Others(s, k) == {p \in Units(s) : p[1] # k}

LEMMA ByteIs == \A b : b \in Byte <=> b \in Nat /\ b <= 255
  BY DEF Byte

LEMMA SeqIs ==
    ASSUME NEW s \in Seq(Byte)
    PROVE  /\ Len(s) \in Nat /\ DOMAIN s = 1..Len(s)
           /\ \A k \in 1..Len(s) : s[k] \in Byte /\ s[k] \in Nat /\ s[k] <= 255
<1>1. Len(s) \in Nat /\ s \in [1..Len(s) -> Byte]
  BY LenProperties
<1> QED
  BY <1>1, ByteIs

UpTo(n) == 0..n

LEMMA BytesFinite == IsFiniteSet(Byte)
<1>1. \A n \in Nat : IsFiniteSet(UpTo(n))
  BY FS_Interval DEF UpTo
<1>2. Byte = UpTo(255)
  BY DEF Byte, UpTo
<1> QED
  BY <1>1, <1>2

LEMMA UnitsAre ==
    ASSUME NEW s \in Seq(Byte)
    PROVE  /\ Units(s) = {p \in (1..Len(s)) \X Byte : 0 < p[2] /\ p[2] <= s[p[1]]}
           /\ IsFiniteSet(Units(s))
<1>1. /\ DOMAIN s = 1..Len(s) /\ Len(s) \in Nat
      /\ \A k \in 1..Len(s) : s[k] \in Nat /\ s[k] <= 255
  BY SeqIs
<1>2. Units(s) = {p \in (1..Len(s)) \X Byte : 0 < p[2] /\ p[2] <= s[p[1]]}
  <2>1. ASSUME NEW p \in Units(s) PROVE p \in (1..Len(s)) \X Byte /\ 0 < p[2] /\ p[2] <= s[p[1]]
    <3>1. PICK k \in 1..Len(s) : p \in {k} \X (1..s[k])
      BY <1>1, <2>1 DEF Units
    <3>2. p[1] = k /\ p[2] \in 1..s[k] /\ p = <<p[1], p[2]>>
      BY <3>1
    <3>3. p[2] \in Byte /\ 0 < p[2] /\ p[2] <= s[p[1]]
      BY <1>1, <3>2, ByteIs
    <3> QED
      BY <3>2, <3>3
  <2>2. ASSUME NEW p \in (1..Len(s)) \X Byte, 0 < p[2], p[2] <= s[p[1]] PROVE p \in Units(s)
    <3>1. p[1] \in 1..Len(s) /\ p[2] \in 1..s[p[1]] /\ p = <<p[1], p[2]>>
      <4>1. p[1] \in 1..Len(s) /\ p[2] \in Byte /\ p = <<p[1], p[2]>>
        BY <2>2
      <4> QED
        BY <1>1, <2>2, <4>1, ByteIs
    <3> QED
      BY <1>1, <3>1 DEF Units
  <2> QED
    BY <2>1, <2>2
<1>3. IsFiniteSet((1..Len(s)) \X Byte)
  <2>1. IsFiniteSet(1..Len(s)) /\ IsFiniteSet(Byte)
    BY <1>1, FS_Interval, BytesFinite
  <2> QED
    BY <2>1, FS_Product
<1> QED
  BY <1>2, <1>3, FS_Subset

LEMMA SumIs ==
    ASSUME NEW s \in Seq(Byte)
    PROVE  Sum(s) = Cardinality(Units(s)) /\ Sum(s) \in Nat
  BY UnitsAre, FS_CardinalityType DEF Sum, Units

LEMMA SumAt ==
    ASSUME NEW s \in Seq(Byte), NEW k \in 1..Len(s)
    PROVE  /\ IsFiniteSet(Others(s, k)) /\ Cardinality(Others(s, k)) \in Nat
           /\ Sum(s) = Cardinality(Others(s, k)) + s[k]
<1> DEFINE Own == {p \in Units(s) : p[1] = k}
           f == [n \in 1..s[k] |-> <<k, n>>]
<1>1. s[k] \in Nat /\ s[k] <= 255
  BY SeqIs
<1>2. IsFiniteSet(Units(s)) /\ IsFiniteSet(Own) /\ IsFiniteSet(Others(s, k))
  BY UnitsAre, FS_Subset DEF Others
<1>3. Own = {<<k, n>> : n \in 1..s[k]}
  <2>1. ASSUME NEW p \in Own PROVE \E n \in 1..s[k] : p = <<k, n>>
    <3>1. /\ p \in (1..Len(s)) \X Byte /\ 0 < p[2] /\ p[2] <= s[p[1]] /\ p[1] = k
      BY UnitsAre, <2>1
    <3>2. p[2] \in Byte /\ p = <<k, p[2]>>
      BY <3>1
    <3> QED
      BY <1>1, <3>1, <3>2, ByteIs
  <2>2. ASSUME NEW n \in 1..s[k] PROVE <<k, n>> \in Own
    <3>1. n \in Byte /\ 0 < n /\ n <= s[k]
      BY <1>1, ByteIs
    <3>2. <<k, n>> \in Units(s)
      BY <3>1, UnitsAre
    <3> QED
      BY <3>2
  <2> QED
    BY <2>1, <2>2
<1>4. f \in Bijection(1..s[k], Own)
  BY <1>3 DEF Bijection, Injection, Surjection, IsInjective
<1>5. Cardinality(Own) = s[k]
  <2>1. IsFiniteSet(1..s[k]) /\ Cardinality(1..s[k]) = s[k]
    <3>1. 1 \in Int /\ s[k] \in Int /\ (1 > s[k] => s[k] = 0) /\ s[k] - 1 + 1 = s[k]
      BY <1>1
    <3> QED
      BY <3>1, FS_Interval
  <2>2. ExistsBijection(1..s[k], Own)
    BY <1>4 DEF ExistsBijection
  <2> QED
    BY <2>1, <2>2, FS_Bijection
<1>6. Units(s) = Others(s, k) \cup Own /\ Others(s, k) \cap Own = {}
  BY DEF Others
<1>7. Cardinality(Others(s, k)) \in Nat
  BY <1>2, FS_CardinalityType
<1> HIDE DEF Own
<1>8. Cardinality(Units(s)) = Cardinality(Others(s, k)) + Cardinality(Own) - Cardinality({})
  BY <1>2, <1>6, FS_Union
<1>9. Cardinality({}) = 0
  BY FS_EmptySet
<1> QED
  BY <1>1, <1>2, <1>5, <1>7, <1>8, <1>9, SumIs

\* One character is another.
LEMMA SumChanged ==
    ASSUME NEW s \in Seq(Byte), NEW t \in Seq(Byte), Len(s) = Len(t), NEW k \in 1..Len(s),
           \A n \in 1..Len(s) : n # k => s[n] = t[n]
    PROVE  Sum(s) - s[k] = Sum(t) - t[k]
<1>1. Others(s, k) = Others(t, k)
  BY UnitsAre DEF Others
<1>2. s[k] \in Nat /\ t[k] \in Nat
  BY SeqIs
<1> QED
  BY <1>1, <1>2, SumAt

\* One character more, at k.
LEMMA SumWithout ==
    ASSUME NEW s \in Seq(Byte), NEW t \in Seq(Byte), Len(s) = Len(t) + 1, NEW k \in 1..Len(s),
           \A n \in 1..Len(t) : t[n] = IF n < k THEN s[n] ELSE s[n + 1]
    PROVE  Sum(s) = Sum(t) + s[k]
<1> DEFINE Up(n) == IF n < k THEN n ELSE n + 1
           f == [p \in Units(t) |-> <<Up(p[1]), p[2]>>]
<1>1. Len(s) \in Nat /\ Len(t) \in Nat
  OBVIOUS
<1>2. \A p \in Units(t) : p \in (1..Len(t)) \X Byte /\ 0 < p[2] /\ p[2] <= t[p[1]]
  BY UnitsAre
<1>3. \A p : p \in Others(s, k) <=>
           p \in (1..Len(s)) \X Byte /\ 0 < p[2] /\ p[2] <= s[p[1]] /\ p[1] # k
  BY UnitsAre DEF Others
<1>4. \A n \in 1..Len(t) : Up(n) \in 1..Len(s) /\ Up(n) # k /\ t[n] = s[Up(n)]
  BY <1>1
<1>5. \A n, m \in 1..Len(t) : Up(n) = Up(m) => n = m
  BY <1>1
<1>6. \A n \in 1..Len(s) : n # k => \E m \in 1..Len(t) : n = Up(m)
  <2> SUFFICES ASSUME NEW n \in 1..Len(s), n # k PROVE \E m \in 1..Len(t) : n = Up(m)
    OBVIOUS
  <2>1. CASE n < k
    <3>1. n \in 1..Len(t) /\ n = Up(n)
      BY <1>1, <2>1
    <3> QED
      BY <3>1
  <2>2. CASE ~(n < k)
    <3>1. n - 1 \in 1..Len(t) /\ n = Up(n - 1)
      BY <1>1, <2>2
    <3> QED
      BY <3>1
  <2> QED
    BY <2>1, <2>2
<1> HIDE DEF Up
<1>7. \A p \in Units(t) : f[p] \in Others(s, k)
  <2> SUFFICES ASSUME NEW p \in Units(t) PROVE <<Up(p[1]), p[2]>> \in Others(s, k)
    OBVIOUS
  <2>1. /\ p[1] \in 1..Len(t) /\ p[2] \in Byte /\ 0 < p[2] /\ p[2] <= t[p[1]]
    BY <1>2
  <2> QED
    BY <1>3, <1>4, <2>1
<1>8. \A p, q \in Units(t) : f[p] = f[q] => p = q
  <2> SUFFICES ASSUME NEW p \in Units(t), NEW q \in Units(t), f[p] = f[q] PROVE p = q
    OBVIOUS
  <2>1. /\ p[1] \in 1..Len(t) /\ q[1] \in 1..Len(t)
        /\ p = <<p[1], p[2]>> /\ q = <<q[1], q[2]>>
    BY <1>2
  <2>2. Up(p[1]) = Up(q[1]) /\ p[2] = q[2]
    OBVIOUS
  <2> QED
    BY <1>5, <2>1, <2>2
<1>9. \A o \in Others(s, k) : \E p \in Units(t) : f[p] = o
  <2> SUFFICES ASSUME NEW o \in Others(s, k) PROVE \E p \in Units(t) : f[p] = o
    OBVIOUS
  <2>1. /\ o[1] \in 1..Len(s) /\ o[1] # k /\ o[2] \in Byte /\ 0 < o[2] /\ o[2] <= s[o[1]]
        /\ o = <<o[1], o[2]>>
    BY <1>3
  <2>2. PICK m \in 1..Len(t) : o[1] = Up(m)
    BY <1>6, <2>1
  <2>3. <<m, o[2]>> \in Units(t)
    <3>1. <<m, o[2]>> \in (1..Len(t)) \X Byte
      BY <2>1
    <3>2. 0 < o[2] /\ o[2] <= t[m]
      BY <1>4, <2>1, <2>2
    <3> QED
      BY <3>1, <3>2, UnitsAre
  <2>4. f[<<m, o[2]>>] = o
    BY <2>1, <2>2, <2>3
  <2> QED
    BY <2>3, <2>4
<1>10. f \in Bijection(Units(t), Others(s, k))
  BY <1>7, <1>8, <1>9 DEF Bijection, Injection, Surjection, IsInjective
<1>11. Cardinality(Others(s, k)) = Cardinality(Units(t))
  <2>1. ExistsBijection(Units(t), Others(s, k))
    BY <1>10 DEF ExistsBijection
  <2> QED
    BY <2>1, UnitsAre, FS_Bijection
<1> QED
  BY <1>11, SumAt, SumIs
-----------------------------------------------------------------------------
(* Hex digits, and the fields that are made of them.                       *)

Nibble == 0..15

LEMMA NibbleIs == \A d : d \in Nibble <=> d \in Nat /\ d <= 15
  BY DEF Nibble

LEMMA DigitIs ==
    \A d \in Nibble : /\ HexDigit(d) \in Byte /\ 47 < HexDigit(d) /\ HexDigit(d) < 71
                      /\ IsHex(HexDigit(d)) /\ HexValue(HexDigit(d)) = d
<1>1. \A d \in Nibble : /\ HexDigit(d) \in Nat /\ 47 < HexDigit(d) /\ HexDigit(d) < 71
                        /\ IsHex(HexDigit(d)) /\ HexValue(HexDigit(d)) = d
  BY NibbleIs DEF HexDigit, IsHex, HexValue
<1> QED
  BY <1>1, ByteIs

LEMMA HexIs ==
    \A c : IsHex(c) => c \in Nat /\ 47 < c /\ c < 103 /\ HexValue(c) \in Nibble
  BY NibbleIs DEF IsHex, HexValue

LEMMA PairsMakeFour ==
    ASSUME NEW S, NEW x \in S, NEW y \in S, NEW z \in S, NEW w \in S
    PROVE  <<x, y>> \o <<z, w>> = <<x, y, z, w>>
<1> DEFINE s == <<x, y>>
           t == <<z, w>>
           u == <<x, y, z, w>>
<1>1. s \in Seq(S) /\ t \in Seq(S) /\ u \in Seq(S) /\ Len(s) = 2 /\ Len(t) = 2 /\ Len(u) = 4
  OBVIOUS
<1>2. s[1] = x /\ s[2] = y /\ t[1] = z /\ t[2] = w /\ u[1] = x /\ u[2] = y /\ u[3] = z /\ u[4] = w
  OBVIOUS
<1> HIDE DEF s, t, u
<1>3. /\ s \o t \in Seq(S) /\ Len(s \o t) = 4
      /\ \A n \in 1..4 : (s \o t)[n] = IF n <= 2 THEN s[n] ELSE t[n - 2]
  <2>1. s \in Seq(S) /\ t \in Seq(S)
    BY <1>1
  <2>2. /\ s \o t \in Seq(S) /\ Len(s \o t) = Len(s) + Len(t)
        /\ \A n \in 1..Len(s) + Len(t) :
              (s \o t)[n] = IF n <= Len(s) THEN s[n] ELSE t[n - Len(s)]
    BY ONLY <2>1, ConcatProperties
  <2>3. 2 + 2 = 4
    OBVIOUS
  <2>4. Len(s) + Len(t) = 4
    BY <1>1, <2>3
  <2> QED
    BY <1>1, <2>2, <2>4
<1>4. \A n \in 1..4 : (s \o t)[n] = u[n]
  <2>1. /\ (s \o t)[1] = s[1] /\ (s \o t)[2] = s[2]
        /\ (s \o t)[3] = t[3 - 2] /\ (s \o t)[4] = t[4 - 2]
    BY ONLY <1>3
  <2>2. 3 - 2 = 1 /\ 4 - 2 = 2
    OBVIOUS
  <2>3. (s \o t)[1] = u[1] /\ (s \o t)[2] = u[2] /\ (s \o t)[3] = u[3] /\ (s \o t)[4] = u[4]
    BY ONLY <1>2, <2>1, <2>2
  <2>4. \A n \in 1..4 : n = 1 \/ n = 2 \/ n = 3 \/ n = 4
    OBVIOUS
  <2> QED
    BY ONLY <2>3, <2>4
<1>5. s \o t = u
  BY <1>1, <1>3, <1>4, SeqEqual
<1> QED
  BY <1>5 DEF s, t, u

LEMMA Hex2Is ==
    ASSUME NEW b \in Byte
    PROVE  /\ b \div 16 \in Nibble /\ b % 16 \in Nibble /\ b = 16 * (b \div 16) + (b % 16)
           /\ Hex2(b) = <<HexDigit(b \div 16), HexDigit(b % 16)>>
<1>1. b \in Nat /\ b <= 255
  BY ByteIs
<1> QED
  BY <1>1, NibbleIs DEF Hex2

\* A word of four hex digits, and its text
Word(a, b, c, d) == 4096 * a + 256 * b + 16 * c + d

Letters(a, b, c, d) == <<HexDigit(a), HexDigit(b), HexDigit(c), HexDigit(d)>>

LEMMA Hex4Is ==
    ASSUME NEW w \in Nat, w < 65536
    PROVE  \E a, b, c, d \in Nibble : w = Word(a, b, c, d) /\ Hex4(w) = Letters(a, b, c, d)
<1> DEFINE h == w \div 256
           l == w % 256
<1>1. h \in Nat /\ h <= 255 /\ l \in Nat /\ l <= 255 /\ w = 256 * h + l
  OBVIOUS
<1> HIDE DEF h, l
<1>2. h \in Byte /\ l \in Byte
  BY <1>1, ByteIs
<1>3. Hex4(w) = Hex2(h) \o Hex2(l)
  BY DEF Hex4, h, l
<1>4. PICK a, b \in Nibble : h = 16 * a + b /\ Hex2(h) = <<HexDigit(a), HexDigit(b)>>
  BY <1>2, Hex2Is
<1>5. PICK c, d \in Nibble : l = 16 * c + d /\ Hex2(l) = <<HexDigit(c), HexDigit(d)>>
  BY <1>2, Hex2Is
<1>6. w = Word(a, b, c, d)
  BY <1>1, <1>4, <1>5, NibbleIs DEF Word
<1>7. Hex4(w) = Letters(a, b, c, d)
  <2>1. /\ HexDigit(a) \in Byte /\ HexDigit(b) \in Byte
        /\ HexDigit(c) \in Byte /\ HexDigit(d) \in Byte
    BY DigitIs
  <2>2. <<HexDigit(a), HexDigit(b)>> \o <<HexDigit(c), HexDigit(d)>> = Letters(a, b, c, d)
    BY <2>1, PairsMakeFour DEF Letters
  <2>3. Hex4(w) = <<HexDigit(a), HexDigit(b)>> \o <<HexDigit(c), HexDigit(d)>>
    BY ONLY <1>3, <1>4, <1>5
  <2> QED
    BY ONLY <2>2, <2>3
<1> QED
  BY <1>6, <1>7

\* A number of hex digits, which is what the fields of a whole frame are
LEMMA DigitsAre ==
    ASSUME NEW s \in Seq(Byte), Len(s) > 0, IsHex(s[1])
    PROVE  Digits(s) = s
  BY HexIs DEF Digits

LEMMA DigitAt ==
    ASSUME NEW s, Digits(s) = s, NEW k
    PROVE  Digit(s, k) = IF k < Len(s) THEN HexValue(s[Len(s) - k]) ELSE 0
  BY DEF Digit

LEMMA NumberOf2 ==
    ASSUME NEW s \in Seq(Byte), Len(s) = 2, IsHex(s[1]), IsHex(s[2])
    PROVE  IsNumber(s) /\ Number(s) = 16 * HexValue(s[1]) + HexValue(s[2])
<1>1. Digits(s) = s /\ DOMAIN s = 1..2
  BY DigitsAre, SeqIs
<1>2. IsNumber(s)
  BY <1>1 DEF IsNumber
<1>3. HexValue(s[1]) \in Nibble /\ HexValue(s[2]) \in Nibble
  BY HexIs
<1>4. /\ Digit(s, 0) = HexValue(s[2]) /\ Digit(s, 1) = HexValue(s[1])
      /\ Digit(s, 2) = 0 /\ Digit(s, 3) = 0
  <2>1. /\ Len(s) - 0 = 2 /\ Len(s) - 1 = 1
        /\ 0 < Len(s) /\ 1 < Len(s) /\ ~(2 < Len(s)) /\ ~(3 < Len(s))
    OBVIOUS
  <2> QED
    BY <1>1, <2>1, DigitAt
<1>5. Number(s) = Digit(s, 0) + 16 * Digit(s, 1) + 256 * Digit(s, 2) + 4096 * Digit(s, 3)
  BY DEF Number
<1>6. HexValue(s[1]) \in Nat /\ HexValue(s[2]) \in Nat
  BY <1>3, NibbleIs
<1> QED
  BY ONLY <1>2, <1>4, <1>5, <1>6

LEMMA NumberOf4 ==
    ASSUME NEW s \in Seq(Byte), Len(s) = 4, \A k \in 1..4 : IsHex(s[k])
    PROVE  /\ IsNumber(s)
           /\ Number(s) = 4096 * HexValue(s[1]) + 256 * HexValue(s[2])
                          + 16 * HexValue(s[3]) + HexValue(s[4])
<1>1. Digits(s) = s /\ DOMAIN s = 1..4
  BY DigitsAre, SeqIs
<1>2. IsNumber(s)
  BY <1>1 DEF IsNumber
<1>3. \A k \in 1..4 : HexValue(s[k]) \in Nibble
  BY HexIs
<1>4. /\ Digit(s, 0) = HexValue(s[4]) /\ Digit(s, 1) = HexValue(s[3])
      /\ Digit(s, 2) = HexValue(s[2]) /\ Digit(s, 3) = HexValue(s[1])
  <2>1. /\ Len(s) - 0 = 4 /\ Len(s) - 1 = 3 /\ Len(s) - 2 = 2 /\ Len(s) - 3 = 1
        /\ 0 < Len(s) /\ 1 < Len(s) /\ 2 < Len(s) /\ 3 < Len(s)
    OBVIOUS
  <2> QED
    BY <1>1, <2>1, DigitAt
<1>5. Number(s) = Digit(s, 0) + 16 * Digit(s, 1) + 256 * Digit(s, 2) + 4096 * Digit(s, 3)
  BY DEF Number
<1>6. /\ HexValue(s[1]) \in Nat /\ HexValue(s[2]) \in Nat
      /\ HexValue(s[3]) \in Nat /\ HexValue(s[4]) \in Nat
  BY <1>3, NibbleIs
<1> QED
  BY ONLY <1>2, <1>4, <1>5, <1>6

LEMMA NumberOfHex4 ==
    ASSUME NEW w \in Nat, w < 65536
    PROVE  /\ Hex4(w) \in Seq(Byte) /\ Len(Hex4(w)) = 4
           /\ \A k \in 1..4 : \E d \in Nibble : Hex4(w)[k] = HexDigit(d)
           /\ IsNumber(Hex4(w)) /\ Number(Hex4(w)) = w
<1>1. PICK a, b, c, d \in Nibble : w = Word(a, b, c, d) /\ Hex4(w) = Letters(a, b, c, d)
  BY Hex4Is
<1> DEFINE s == Letters(a, b, c, d)
<1>2. s \in Seq(Byte) /\ Len(s) = 4
  BY DigitIs DEF Letters
<1>3. s[1] = HexDigit(a) /\ s[2] = HexDigit(b) /\ s[3] = HexDigit(c) /\ s[4] = HexDigit(d)
  BY DEF Letters
<1> HIDE DEF s
<1>4. \A k \in 1..4 : IsHex(s[k]) /\ \E x \in Nibble : s[k] = HexDigit(x)
  BY <1>3, DigitIs
<1>5. IsNumber(s) /\ Number(s) = Word(a, b, c, d)
  BY <1>2, <1>3, <1>4, NumberOf4, DigitIs DEF Word
<1>6. Hex4(w) = s
  BY <1>1 DEF s
<1> QED
  BY ONLY <1>1, <1>2, <1>4, <1>5, <1>6
-----------------------------------------------------------------------------
(* A frame, character by character.                                        *)

\* What a frame is made of, but for its first and last character
Letter == {HexDigit(d) : d \in Nibble}

LEMMA LetterIs ==
    \A c \in Letter : /\ c \in Byte /\ c \in Nat /\ 47 < c /\ c < 71
                      /\ IsHex(c) /\ c # Start /\ c # End /\ c \notin Blanks /\ c # 0
<1> SUFFICES ASSUME NEW c \in Letter
             PROVE  /\ c \in Byte /\ c \in Nat /\ 47 < c /\ c < 71
                    /\ IsHex(c) /\ c # Start /\ c # End /\ c \notin Blanks /\ c # 0
  OBVIOUS
<1>1. PICK d \in Nibble : c = HexDigit(d)
  BY DEF Letter
<1>2. c \in Byte /\ 47 < c /\ c < 71 /\ IsHex(c)
  BY <1>1, DigitIs
<1>3. c \in Nat
  BY <1>2, ByteIs
<1> QED
  BY <1>2, <1>3 DEF Start, End, Blanks

LEMMA ConcatIs ==
    ASSUME NEW s \in Seq(Byte), NEW t \in Seq(Byte)
    PROVE  /\ s \o t \in Seq(Byte) /\ Len(s \o t) = Len(s) + Len(t)
           /\ \A k \in 1..Len(s) : (s \o t)[k] = s[k]
           /\ \A k \in 1..Len(t) : (s \o t)[Len(s) + k] = t[k]
<1>1. Len(s) \in Nat /\ Len(t) \in Nat
  BY LenProperties
<1>2. /\ s \o t \in Seq(Byte) /\ Len(s \o t) = Len(s) + Len(t)
      /\ \A k \in 1..Len(s) + Len(t) :
            (s \o t)[k] = IF k <= Len(s) THEN s[k] ELSE t[k - Len(s)]
  BY ConcatProperties
<1>3. ASSUME NEW k \in 1..Len(s) PROVE (s \o t)[k] = s[k]
  <2>1. k \in 1..Len(s) + Len(t) /\ k <= Len(s)
    BY <1>1
  <2> QED
    BY <1>2, <2>1
<1>4. ASSUME NEW k \in 1..Len(t) PROVE (s \o t)[Len(s) + k] = t[k]
  <2>1. /\ Len(s) + k \in 1..Len(s) + Len(t) /\ ~(Len(s) + k <= Len(s))
        /\ Len(s) + k - Len(s) = k
    BY <1>1
  <2> QED
    BY <1>2, <2>1
<1> QED
  BY <1>2, <1>3, <1>4

LEMMA TwoMakePair ==
    ASSUME NEW S, NEW x \in S, NEW y \in S, NEW t, t = <<x, y>>
    PROVE  t \in Seq(S) /\ Len(t) = 2 /\ t[1] = x /\ t[2] = y
  OBVIOUS

LEMMA PairIs ==
    ASSUME NEW b \in Byte
    PROVE  /\ Hex2(b) \in Seq(Byte) /\ Len(Hex2(b)) = 2
           /\ Hex2(b)[1] \in Letter /\ Hex2(b)[2] \in Letter
           /\ 16 * HexValue(Hex2(b)[1]) + HexValue(Hex2(b)[2]) = b
<1> DEFINE h == b \div 16
           l == b % 16
<1>1. /\ h \in Nibble /\ l \in Nibble /\ b = 16 * h + l
      /\ Hex2(b) = <<HexDigit(h), HexDigit(l)>>
  BY Hex2Is
<1> HIDE DEF h, l
<1>2. /\ HexDigit(h) \in Byte /\ HexDigit(l) \in Byte
      /\ HexDigit(h) \in Letter /\ HexDigit(l) \in Letter
      /\ HexValue(HexDigit(h)) = h /\ HexValue(HexDigit(l)) = l
  BY <1>1, DigitIs DEF Letter
<1>3. /\ Hex2(b) \in Seq(Byte) /\ Len(Hex2(b)) = 2
      /\ Hex2(b)[1] = HexDigit(h) /\ Hex2(b)[2] = HexDigit(l)
  BY <1>1, <1>2, TwoMakePair
<1> QED
  BY <1>1, <1>2, <1>3

\* The number of digits, and of the byte in the middle of each
LEMMA HexOfIs ==
    ASSUME NEW s \in Seq(Byte)
    PROVE  /\ HexOf(s) \in Seq(Byte) /\ Len(HexOf(s)) = 2 * Len(s)
           /\ \A k \in 1..2 * Len(s) : HexOf(s)[k] \in Letter
           /\ \A k \in 1..Len(s) :
                 16 * HexValue(HexOf(s)[2 * k - 1]) + HexValue(HexOf(s)[2 * k]) = s[k]
<1> DEFINE Char(k) == Hex2(s[(k + 1) \div 2])[IF k % 2 = 1 THEN 1 ELSE 2]
<1>1. Len(s) \in Nat /\ \A k \in 1..Len(s) : s[k] \in Byte
  BY SeqIs
<1>2. \A k \in 1..2 * Len(s) : (k + 1) \div 2 \in 1..Len(s)
  BY <1>1
<1>3. \A k \in 1..2 * Len(s) : Char(k) \in Letter
  <2> TAKE k \in 1..2 * Len(s)
  <2>1. s[(k + 1) \div 2] \in Byte
    BY <1>1, <1>2
  <2>2. /\ Hex2(s[(k + 1) \div 2])[1] \in Letter
        /\ Hex2(s[(k + 1) \div 2])[2] \in Letter
    BY <2>1, PairIs
  <2> QED
    BY <2>2
<1>4. ASSUME NEW k \in 1..Len(s)
      PROVE  Char(2 * k - 1) = Hex2(s[k])[1] /\ Char(2 * k) = Hex2(s[k])[2]
  <2>1. /\ (2 * k - 1 + 1) \div 2 = k /\ (2 * k + 1) \div 2 = k
        /\ (2 * k - 1) % 2 = 1 /\ (2 * k) % 2 = 0
    BY <1>1
  <2> QED
    BY <2>1
<1>5. HexOf(s) = [k \in 1..2 * Len(s) |-> Char(k)]
  BY DEF HexOf
<1> HIDE DEF Char
<1>6. 2 * Len(s) \in Nat /\ \A k \in 1..2 * Len(s) : Char(k) \in Byte
  BY <1>1, <1>3, LetterIs
<1>7. HexOf(s) \in Seq(Byte) /\ Len(HexOf(s)) = 2 * Len(s)
  BY <1>5, <1>6, IsASeq
<1>8. \A k \in 1..2 * Len(s) : HexOf(s)[k] = Char(k)
  BY <1>5
<1>9. ASSUME NEW k \in 1..Len(s)
      PROVE  16 * HexValue(HexOf(s)[2 * k - 1]) + HexValue(HexOf(s)[2 * k]) = s[k]
  <2>1. 2 * k - 1 \in 1..2 * Len(s) /\ 2 * k \in 1..2 * Len(s)
    BY <1>1
  <2>2. HexOf(s)[2 * k - 1] = Hex2(s[k])[1] /\ HexOf(s)[2 * k] = Hex2(s[k])[2]
    BY <1>4, <1>8, <2>1
  <2>3. 16 * HexValue(Hex2(s[k])[1]) + HexValue(Hex2(s[k])[2]) = s[k]
    BY <1>1, PairIs
  <2> QED
    BY <2>2, <2>3
<1> QED
  BY <1>3, <1>7, <1>8, <1>9

\* The four digits of a length and its checksum keep the length.
LEMMA LengthFieldIs ==
    ASSUME NEW n \in Nat, n < 4096
    PROVE  /\ LengthField(n) \in Nat /\ LengthField(n) < 65536
           /\ LengthField(n) % 4096 = n
<1> DEFINE r == DigitSum(n) % 16
<1>1. r \in Nat /\ r < 16
  BY DEF DigitSum
<1> HIDE DEF r
<1>2. PICK m \in Nat : m < 16 /\ ((16 - r) * 4096) % 65536 = m * 4096
  <2>1. CASE r = 0
    <3>1. ((16 - r) * 4096) % 65536 = 0 * 4096
      BY <2>1
    <3> QED
      BY <3>1
  <2>2. CASE r > 0
    <3>1. 16 - r \in Nat /\ 16 - r < 16 /\ ((16 - r) * 4096) % 65536 = (16 - r) * 4096
      BY <1>1, <2>2
    <3> QED
      BY <3>1
  <2> QED
    BY <1>1, <2>1, <2>2
<1>3. LengthField(n) = IF n = 0 THEN 0 ELSE m * 4096 + n
  BY <1>2 DEF LengthField, r
<1>4. /\ m * 4096 + n \in Nat /\ m * 4096 + n < 65536 /\ (m * 4096 + n) % 4096 = n
  BY <1>2
<1> QED
  BY <1>3, <1>4

\* What Frames holds
LEMMA FrameIs ==
    ASSUME NEW f \in Frames
    PROVE  /\ f.address \in Byte /\ f.cid2 \in Byte /\ f.info \in Seq(Byte)
           /\ Len(f.info) \in Nat /\ Len(f.info) <= 2047
           /\ f = [address |-> f.address, cid2 |-> f.cid2, info |-> f.info]
<1>1. f \in [address : Byte, cid2 : Byte, info : Seq(Byte)] /\ Len(f.info) <= 2047
  BY FramesAssumption
<1>2. /\ f.address \in Byte /\ f.cid2 \in Byte /\ f.info \in Seq(Byte)
      /\ f = [address |-> f.address, cid2 |-> f.cid2, info |-> f.info]
  BY <1>1
<1> QED
  BY <1>1, <1>2, LenProperties

LEMMA ConstantsAre == Version \in Byte /\ Group \in Byte /\ Start \in Byte /\ End \in Byte
  BY ByteIs DEF Version, Group, Start, End

LEMMA HeaderIs ==
    ASSUME NEW f \in Frames, NEW w \in Nat, w < 65536
    PROVE  /\ Header(f, w) \in Seq(Byte) /\ Len(Header(f, w)) = 12
           /\ Header(f, w)[1] = Hex2(Version)[1] /\ Header(f, w)[2] = Hex2(Version)[2]
           /\ Header(f, w)[3] = Hex2(f.address)[1] /\ Header(f, w)[4] = Hex2(f.address)[2]
           /\ Header(f, w)[5] = Hex2(Group)[1] /\ Header(f, w)[6] = Hex2(Group)[2]
           /\ Header(f, w)[7] = Hex2(f.cid2)[1] /\ Header(f, w)[8] = Hex2(f.cid2)[2]
           /\ \A k \in 1..4 : Header(f, w)[8 + k] = Hex4(w)[k]
<1> DEFINE v == Hex2(Version)
           a == Hex2(f.address)
           g == Hex2(Group)
           c == Hex2(f.cid2)
           l == Hex4(w)
<1>1. /\ v \in Seq(Byte) /\ Len(v) = 2 /\ a \in Seq(Byte) /\ Len(a) = 2
      /\ g \in Seq(Byte) /\ Len(g) = 2 /\ c \in Seq(Byte) /\ Len(c) = 2
  BY ConstantsAre, FrameIs, PairIs
<1>2. l \in Seq(Byte) /\ Len(l) = 4
  BY NumberOfHex4
<1>3. Header(f, w) = v \o a \o g \o c \o l
  BY DEF Header
<1> HIDE DEF v, a, g, c, l
<1> DEFINE va == v \o a
           vag == va \o g
           vagc == vag \o c
<1>4. /\ va \in Seq(Byte) /\ Len(va) = 4
      /\ va[1] = v[1] /\ va[2] = v[2] /\ va[3] = a[1] /\ va[4] = a[2]
  <2>1. /\ va \in Seq(Byte) /\ Len(va) = 2 + 2 /\ \A k \in 1..2 : va[k] = v[k]
        /\ \A k \in 1..2 : va[2 + k] = a[k]
    <3>1. v \in Seq(Byte) /\ a \in Seq(Byte)
      BY <1>1
    <3>2. /\ v \o a \in Seq(Byte) /\ Len(v \o a) = Len(v) + Len(a)
          /\ \A k \in 1..Len(v) : (v \o a)[k] = v[k]
          /\ \A k \in 1..Len(a) : (v \o a)[Len(v) + k] = a[k]
      BY ONLY <3>1, ConcatIs
    <3>3. Len(v) = 2 /\ Len(a) = 2
      BY <1>1
    <3> QED
      BY ONLY <3>2, <3>3
  <2>2. va[2 + 1] = a[1] /\ va[2 + 2] = a[2]
    BY <2>1
  <2> QED
    BY <2>1, <2>2
<1> HIDE DEF va
<1>5. /\ vag \in Seq(Byte) /\ Len(vag) = 6 /\ \A k \in 1..4 : vag[k] = va[k]
      /\ vag[5] = g[1] /\ vag[6] = g[2]
  <2>0. va \in Seq(Byte) /\ g \in Seq(Byte)
    BY <1>1, <1>4
  <2>1. /\ va \o g \in Seq(Byte) /\ Len(va \o g) = Len(va) + Len(g)
        /\ \A k \in 1..Len(va) : (va \o g)[k] = va[k]
        /\ \A k \in 1..Len(g) : (va \o g)[Len(va) + k] = g[k]
    BY ONLY <2>0, ConcatIs
  <2>2. /\ vag \in Seq(Byte) /\ Len(vag) = 4 + 2 /\ \A k \in 1..4 : vag[k] = va[k]
        /\ \A k \in 1..2 : vag[4 + k] = g[k]
    BY <1>1, <1>4, <2>1
  <2>3. vag[4 + 1] = g[1] /\ vag[4 + 2] = g[2]
    BY <2>2
  <2>4. 4 + 1 = 5 /\ 4 + 2 = 6
    OBVIOUS
  <2> QED
    BY ONLY <2>2, <2>3, <2>4
<1> HIDE DEF vag
<1>6. /\ vagc \in Seq(Byte) /\ Len(vagc) = 8 /\ \A k \in 1..6 : vagc[k] = vag[k]
      /\ vagc[7] = c[1] /\ vagc[8] = c[2]
  <2>0. vag \in Seq(Byte) /\ c \in Seq(Byte)
    BY <1>1, <1>5
  <2>1. /\ vag \o c \in Seq(Byte) /\ Len(vag \o c) = Len(vag) + Len(c)
        /\ \A k \in 1..Len(vag) : (vag \o c)[k] = vag[k]
        /\ \A k \in 1..Len(c) : (vag \o c)[Len(vag) + k] = c[k]
    BY ONLY <2>0, ConcatIs
  <2>2. /\ vagc \in Seq(Byte) /\ Len(vagc) = 6 + 2 /\ \A k \in 1..6 : vagc[k] = vag[k]
        /\ \A k \in 1..2 : vagc[6 + k] = c[k]
    <3>1. Len(vag) = 6 /\ Len(c) = 2
      BY <1>1, <1>5
    <3> QED
      BY ONLY <2>1, <3>1
  <2>3. vagc[6 + 1] = c[1] /\ vagc[6 + 2] = c[2]
    BY ONLY <2>2
  <2>4. 6 + 1 = 7 /\ 6 + 2 = 8
    OBVIOUS
  <2> QED
    BY ONLY <2>2, <2>3, <2>4
<1>7. Header(f, w) = vagc \o l
  BY <1>3 DEF vag, va
<1> HIDE DEF vagc
<1>8. /\ Header(f, w) \in Seq(Byte) /\ Len(Header(f, w)) = 8 + 4
      /\ \A k \in 1..8 : Header(f, w)[k] = vagc[k]
      /\ \A k \in 1..4 : Header(f, w)[8 + k] = l[k]
  <2>0. vagc \in Seq(Byte) /\ l \in Seq(Byte)
    BY <1>2, <1>6
  <2>1. /\ vagc \o l \in Seq(Byte) /\ Len(vagc \o l) = Len(vagc) + Len(l)
        /\ \A k \in 1..Len(vagc) : (vagc \o l)[k] = vagc[k]
        /\ \A k \in 1..Len(l) : (vagc \o l)[Len(vagc) + k] = l[k]
    BY ONLY <2>0, ConcatIs
  <2>2. /\ vagc \o l \in Seq(Byte) /\ Len(vagc \o l) = 8 + 4
        /\ \A k \in 1..8 : (vagc \o l)[k] = vagc[k]
        /\ \A k \in 1..4 : (vagc \o l)[8 + k] = l[k]
    <3>1. Len(vagc) = 8 /\ Len(l) = 4
      BY <1>2, <1>6
    <3> QED
      BY ONLY <2>1, <3>1
  <2> QED
    BY ONLY <1>7, <2>2
<1>9. /\ Header(f, w)[1] = v[1] /\ Header(f, w)[2] = v[2]
      /\ Header(f, w)[3] = a[1] /\ Header(f, w)[4] = a[2]
      /\ Header(f, w)[5] = g[1] /\ Header(f, w)[6] = g[2]
      /\ Header(f, w)[7] = c[1] /\ Header(f, w)[8] = c[2]
  <2>1. \A k \in 1..8 : Header(f, w)[k] = vagc[k]
    BY <1>8
  <2>2. /\ vagc[1] = v[1] /\ vagc[2] = v[2] /\ vagc[3] = a[1] /\ vagc[4] = a[2]
        /\ vagc[5] = g[1] /\ vagc[6] = g[2] /\ vagc[7] = c[1] /\ vagc[8] = c[2]
    BY <1>4, <1>5, <1>6
  <2> QED
    BY ONLY <2>1, <2>2
<1> QED
  BY <1>8, <1>9 DEF v, a, g, c, l

\* What the checksum of a frame covers
Field(f) == LengthField(Len(HexOf(f.info)))

Body(f) == Header(f, Field(f)) \o HexOf(f.info)

LEMMA FieldIs ==
    ASSUME NEW f \in Frames
    PROVE  /\ Field(f) \in Nat /\ Field(f) < 65536
           /\ Field(f) % 4096 = 2 * Len(f.info) /\ Field(f) = LengthField(2 * Len(f.info))
<1>1. /\ Len(HexOf(f.info)) = 2 * Len(f.info)
      /\ 2 * Len(f.info) \in Nat /\ 2 * Len(f.info) < 4096
  BY FrameIs, HexOfIs
<1> QED
  BY <1>1, LengthFieldIs DEF Field

\* The twelve characters of a frame's header, with the length field computed from its payload.
LEMMA FieldHeader ==
    ASSUME NEW f \in Frames
    PROVE  LET h == Header(f, Field(f))
           IN  /\ h \in Seq(Byte) /\ Len(h) = 12
               /\ h[1] = Hex2(Version)[1] /\ h[2] = Hex2(Version)[2]
               /\ h[3] = Hex2(f.address)[1] /\ h[4] = Hex2(f.address)[2]
               /\ h[5] = Hex2(Group)[1] /\ h[6] = Hex2(Group)[2]
               /\ h[7] = Hex2(f.cid2)[1] /\ h[8] = Hex2(f.cid2)[2]
               /\ \A k \in 1..4 : h[8 + k] = Hex4(Field(f))[k]
<1> DEFINE w == Field(f)
<1>1. w \in Nat /\ w < 65536
  BY FieldIs
<1> HIDE DEF w
<1>2. /\ Header(f, w) \in Seq(Byte) /\ Len(Header(f, w)) = 12
      /\ Header(f, w)[1] = Hex2(Version)[1] /\ Header(f, w)[2] = Hex2(Version)[2]
      /\ Header(f, w)[3] = Hex2(f.address)[1] /\ Header(f, w)[4] = Hex2(f.address)[2]
      /\ Header(f, w)[5] = Hex2(Group)[1] /\ Header(f, w)[6] = Hex2(Group)[2]
      /\ Header(f, w)[7] = Hex2(f.cid2)[1] /\ Header(f, w)[8] = Hex2(f.cid2)[2]
      /\ \A k \in 1..4 : Header(f, w)[8 + k] = Hex4(w)[k]
  BY <1>1, HeaderIs
<1> QED
  BY <1>2 DEF w

LEMMA BodyIs ==
    ASSUME NEW f \in Frames
    PROVE  /\ Body(f) \in Seq(Byte) /\ Len(Body(f)) = 12 + 2 * Len(f.info)
           /\ \A k \in 1..12 : Body(f)[k] = Header(f, Field(f))[k]
           /\ \A k \in 1..2 * Len(f.info) : Body(f)[12 + k] = HexOf(f.info)[k]
           /\ \A k \in 1..12 + 2 * Len(f.info) : Body(f)[k] \in Letter
<1> DEFINE h == Header(f, Field(f))
           n == 2 * Len(f.info)
           x == HexOf(f.info)
<1>1. h \in Seq(Byte) /\ Len(h) = 12
  BY FieldHeader
<1>2. /\ x \in Seq(Byte) /\ Len(x) = n /\ n \in Nat
      /\ \A k \in 1..n : x[k] \in Letter
  BY FrameIs, HexOfIs
<1>3. \A k \in 1..12 : h[k] \in Letter
  <2>1. /\ h[1] = Hex2(Version)[1] /\ h[2] = Hex2(Version)[2]
        /\ h[3] = Hex2(f.address)[1] /\ h[4] = Hex2(f.address)[2]
        /\ h[5] = Hex2(Group)[1] /\ h[6] = Hex2(Group)[2]
        /\ h[7] = Hex2(f.cid2)[1] /\ h[8] = Hex2(f.cid2)[2]
        /\ \A k \in 1..4 : h[8 + k] = Hex4(Field(f))[k]
    BY FieldHeader
  <2>2. h[1] \in Letter /\ h[2] \in Letter /\ h[5] \in Letter /\ h[6] \in Letter
    BY <2>1, ConstantsAre, PairIs
  <2>3. h[3] \in Letter /\ h[4] \in Letter /\ h[7] \in Letter /\ h[8] \in Letter
    BY <2>1, FrameIs, PairIs
  <2>4. \A k \in 1..4 : h[8 + k] \in Letter
    BY <2>1, FieldIs, NumberOfHex4 DEF Letter
  <2>5. h[8 + 1] \in Letter /\ h[8 + 2] \in Letter /\ h[8 + 3] \in Letter /\ h[8 + 4] \in Letter
    BY <2>4
  <2> HIDE DEF h
  <2> QED
    BY <2>2, <2>3, <2>5
<1>4. Body(f) = h \o x
  BY DEF Body
<1> HIDE DEF h, x, n
<1>5. /\ Body(f) \in Seq(Byte) /\ Len(Body(f)) = 12 + n
      /\ \A k \in 1..12 : Body(f)[k] = h[k]
      /\ \A k \in 1..n : Body(f)[12 + k] = x[k]
  <2>0. h \in Seq(Byte) /\ x \in Seq(Byte)
    BY <1>1, <1>2
  <2>1. /\ h \o x \in Seq(Byte) /\ Len(h \o x) = Len(h) + Len(x)
        /\ \A k \in 1..Len(h) : (h \o x)[k] = h[k]
        /\ \A k \in 1..Len(x) : (h \o x)[Len(h) + k] = x[k]
    BY ONLY <2>0, ConcatIs
  <2> QED
    BY <1>1, <1>2, <1>4, <2>1
<1>6. ASSUME NEW k \in 1..12 + n PROVE Body(f)[k] \in Letter
  <2>1. CASE k <= 12
    <3>1. k \in 1..12
      BY <1>2, <2>1
    <3>2. Body(f)[k] = h[k] /\ h[k] \in Letter
      BY <1>3, <1>5, <3>1
    <3> QED
      BY <3>2
  <2>2. CASE ~(k <= 12)
    <3>1. k - 12 \in 1..n /\ 12 + (k - 12) = k
      BY <1>2, <2>2
    <3>2. Body(f)[12 + (k - 12)] = x[k - 12]
      BY <1>5, <3>1
    <3> QED
      BY <1>2, <3>1, <3>2
  <2> QED
    BY <2>1, <2>2
<1> QED
  BY <1>5, <1>6 DEF h, x, n

\* The checksum completes the sum to a multiple of 2^16.
LEMMA ChecksumIs ==
    ASSUME NEW s \in Seq(Byte)
    PROVE  /\ Checksum(s) \in Nat /\ Checksum(s) < 65536
           /\ (Sum(s) + Checksum(s)) % 65536 = 0
           /\ PythonChecksum(s) = IF Checksum(s) = 0 THEN 65536 ELSE Checksum(s)
<1>1. Sum(s) \in Nat
  BY SumIs
<1> DEFINE r == Sum(s) % 65536
<1>2. r \in Nat /\ r < 65536 /\ Sum(s) = 65536 * (Sum(s) \div 65536) + r
  BY <1>1
<1>3. Sum(s) \div 65536 \in Nat
  BY <1>1
<1>4. Checksum(s) = IF r = 0 THEN 0 ELSE 65536 - r
  <2>1. Checksum(s) = (65535 - r + 1) % 65536
    BY DEF Checksum
  <2> HIDE DEF r
  <2> QED
    BY <1>2, <2>1
<1>5. PythonChecksum(s) = 65536 - r
  <2>1. PythonChecksum(s) = 65535 - r + 1
    BY DEF PythonChecksum
  <2> HIDE DEF r
  <2> QED
    BY <1>2, <2>1
<1> HIDE DEF r
<1>6. (Sum(s) + Checksum(s)) % 65536 = 0
  <2> DEFINE q == Sum(s) \div 65536
             m == IF r = 0 THEN q ELSE q + 1
  <2>1. q \in Nat /\ Sum(s) = 65536 * q + r
    BY <1>2, <1>3
  <2> HIDE DEF q
  <2>2. m \in Nat /\ Sum(s) + Checksum(s) = 65536 * m
    BY <1>2, <1>4, <2>1
  <2> HIDE DEF m
  <2>3. (65536 * m) % 65536 = 0
    BY <2>2
  <2> QED
    BY <2>2, <2>3
<1> QED
  BY <1>2, <1>4, <1>5, <1>6

LEMMA ChecksumDiffers ==
    ASSUME NEW s \in Seq(Byte), NEW t \in Seq(Byte), Sum(s) < Sum(t), Sum(t) < Sum(s) + 65536
    PROVE  Checksum(s) # Checksum(t)
<1>1. Sum(s) \in Nat /\ Sum(t) \in Nat
  BY SumIs
<1>2. /\ (Sum(s) + Checksum(s)) % 65536 = 0 /\ (Sum(t) + Checksum(t)) % 65536 = 0
      /\ Checksum(s) \in Nat
  BY ChecksumIs
<1> SUFFICES ASSUME Checksum(s) = Checksum(t) PROVE FALSE
  OBVIOUS
<1> DEFINE a == Sum(s) + Checksum(s)
           b == Sum(t) + Checksum(s)
<1>3. a \in Nat /\ b \in Nat /\ a < b /\ b < a + 65536 /\ a % 65536 = 0 /\ b % 65536 = 0
  BY <1>1, <1>2
<1> HIDE DEF a, b
<1> QED
  BY <1>3

LEMMA CoveredIs ==
    ASSUME NEW raw \in Seq(Byte), Len(raw) >= 6
    PROVE  /\ Covered(raw) \in Seq(Byte) /\ Len(Covered(raw)) = Len(raw) - 6
           /\ \A k \in 1..Len(raw) - 6 : Covered(raw)[k] = raw[k + 1]
           /\ Trailer(raw) \in Seq(Byte) /\ Len(Trailer(raw)) = 4
           /\ \A k \in 1..4 : Trailer(raw)[k] = raw[Len(raw) - 5 + k]
<1> DEFINE n == Len(raw)
<1>1. n \in Nat /\ n >= 6 /\ \A k \in 1..n : raw[k] \in Byte
  BY SeqIs
<1>2. Covered(raw) = SubSeq(raw, 2, n - 5) /\ Trailer(raw) = SubSeq(raw, n - 4, n - 1)
  BY DEF Covered, Trailer
<1> HIDE DEF n
<1>3. /\ 2 \in Int /\ n - 5 \in Int /\ n - 4 \in Int /\ n - 1 \in Int
      /\ \A k \in 2..n - 5 : raw[k] \in Byte
      /\ \A k \in n - 4..n - 1 : raw[k] \in Byte
  BY <1>1
<1>4. /\ Covered(raw) \in Seq(Byte)
      /\ Len(Covered(raw)) = IF 2 <= n - 5 THEN n - 5 - 2 + 1 ELSE 0
      /\ \A k \in 1..n - 5 - 2 + 1 : Covered(raw)[k] = raw[2 + k - 1]
  BY ONLY <1>2, <1>3, SubSeqProperties
<1>5. /\ Trailer(raw) \in Seq(Byte)
      /\ Len(Trailer(raw)) = IF n - 4 <= n - 1 THEN n - 1 - (n - 4) + 1 ELSE 0
      /\ \A k \in 1..n - 1 - (n - 4) + 1 : Trailer(raw)[k] = raw[n - 4 + k - 1]
  <2>1. n - 4 \in Int /\ n - 1 \in Int /\ \A k \in n - 4..n - 1 : raw[k] \in Byte
    BY <1>3
  <2>2. Trailer(raw) = SubSeq(raw, n - 4, n - 1)
    BY <1>2
  <2> QED
    BY ONLY <2>1, <2>2, SubSeqProperties
<1>6. Len(Covered(raw)) = n - 6 /\ Len(Trailer(raw)) = 4
  BY <1>1, <1>4, <1>5
<1>7. ASSUME NEW k \in 1..n - 6 PROVE Covered(raw)[k] = raw[k + 1]
  <2>1. k \in 1..n - 5 - 2 + 1 /\ 2 + k - 1 = k + 1
    BY <1>1
  <2> QED
    BY <1>4, <2>1
<1>8. ASSUME NEW k \in 1..4 PROVE Trailer(raw)[k] = raw[n - 5 + k]
  <2>1. k \in 1..n - 1 - (n - 4) + 1 /\ n - 4 + k - 1 = n - 5 + k
    BY <1>1
  <2> QED
    BY <1>5, <2>1
<1> QED
  BY <1>4, <1>5, <1>6, <1>7, <1>8 DEF n

\* Behind the start character comes the body, then its checksum.
LEMMA EncodeIs ==
    ASSUME NEW f \in Frames
    PROVE  /\ Encode(f) \in Seq(Byte) /\ Len(Encode(f)) = 18 + 2 * Len(f.info)
           /\ Encode(f)[1] = Start /\ Encode(f)[18 + 2 * Len(f.info)] = End
           /\ \A k \in 1..12 + 2 * Len(f.info) : Encode(f)[k + 1] = Body(f)[k]
           /\ \A k \in 1..4 :
                 Encode(f)[13 + 2 * Len(f.info) + k] = Hex4(Checksum(Body(f)))[k]
<1> DEFINE n == 12 + 2 * Len(f.info)
           b == Body(f)
           x == Hex4(Checksum(b))
           s == <<Start>>
           e == <<End>>
<1>1. n \in Nat /\ b \in Seq(Byte) /\ Len(b) = n
  BY FrameIs, BodyIs
<1>2. x \in Seq(Byte) /\ Len(x) = 4
  <2>1. b \in Seq(Byte)
    BY <1>1
  <2> HIDE DEF b
  <2>2. Checksum(b) \in Nat /\ Checksum(b) < 65536
    BY <2>1, ChecksumIs
  <2> QED
    BY <2>2, NumberOfHex4
<1>3. /\ s \in Seq(Byte) /\ Len(s) = 1 /\ s[1] = Start
      /\ e \in Seq(Byte) /\ Len(e) = 1 /\ e[1] = End
  BY ConstantsAre
<1>4. Encode(f) = ((s \o b) \o x) \o e
  BY DEF Encode, Body, Field
<1>5. n = 12 + 2 * Len(f.info)
  OBVIOUS
<1> HIDE DEF s, e, b, x, n
<1> DEFINE sb == s \o b
           sbx == sb \o x
<1>6. /\ sb \in Seq(Byte) /\ Len(sb) = 1 + n /\ sb[1] = Start
      /\ \A k \in 1..n : sb[1 + k] = b[k]
  <2>1. s \in Seq(Byte) /\ b \in Seq(Byte)
    BY <1>1, <1>3
  <2>2. /\ sb \in Seq(Byte) /\ Len(sb) = Len(s) + Len(b)
        /\ \A k \in 1..Len(s) : sb[k] = s[k]
        /\ \A k \in 1..Len(b) : sb[Len(s) + k] = b[k]
    BY ONLY <2>1, ConcatIs
  <2> QED
    BY <1>1, <1>3, <2>2
<1> HIDE DEF sb
<1>7. /\ sbx \in Seq(Byte) /\ Len(sbx) = 1 + n + 4
      /\ \A k \in 1..1 + n : sbx[k] = sb[k]
      /\ \A k \in 1..4 : sbx[1 + n + k] = x[k]
  <2>1. sb \in Seq(Byte) /\ x \in Seq(Byte)
    BY <1>2, <1>6
  <2>2. /\ sbx \in Seq(Byte) /\ Len(sbx) = Len(sb) + Len(x)
        /\ \A k \in 1..Len(sb) : sbx[k] = sb[k]
        /\ \A k \in 1..Len(x) : sbx[Len(sb) + k] = x[k]
    BY ONLY <2>1, ConcatIs
  <2> QED
    BY <1>1, <1>2, <1>6, <2>2
<1>8. Encode(f) = sbx \o e
  BY <1>4 DEF sb
<1> HIDE DEF sbx
<1>9. /\ Encode(f) \in Seq(Byte) /\ Len(Encode(f)) = n + 6
      /\ \A k \in 1..n + 5 : Encode(f)[k] = sbx[k]
      /\ Encode(f)[n + 6] = End
  <2>1. sbx \in Seq(Byte) /\ e \in Seq(Byte)
    BY <1>3, <1>7
  <2>2. /\ sbx \o e \in Seq(Byte) /\ Len(sbx \o e) = Len(sbx) + Len(e)
        /\ \A k \in 1..Len(sbx) : (sbx \o e)[k] = sbx[k]
        /\ \A k \in 1..Len(e) : (sbx \o e)[Len(sbx) + k] = e[k]
    BY ONLY <2>1, ConcatIs
  <2>3. Len(sbx) = n + 5 /\ n + 5 + 1 = n + 6
    BY <1>1, <1>7
  <2>4. (sbx \o e)[n + 5 + 1] = e[1]
    BY <1>3, <2>2, <2>3
  <2>5. Len(e) = 1 /\ e[1] = End
    BY <1>3
  <2> QED
    BY ONLY <1>8, <2>2, <2>3, <2>4, <2>5
<1>10. Encode(f)[1] = Start
  <2>1. 1 \in 1..n + 5 /\ 1 \in 1..1 + n
    BY <1>1
  <2>2. Encode(f)[1] = sbx[1]
    BY ONLY <1>9, <2>1
  <2>3. sbx[1] = sb[1]
    BY ONLY <1>7, <2>1
  <2>4. sb[1] = Start
    BY <1>6
  <2> QED
    BY ONLY <2>2, <2>3, <2>4
<1>11. \A k \in 1..n : Encode(f)[k + 1] = b[k]
  <2> TAKE k \in 1..n
  <2>1. 1 + k \in 1..1 + n /\ 1 + k \in 1..n + 5 /\ 1 + k = k + 1
    BY <1>1
  <2> QED
    BY <1>6, <1>7, <1>9, <2>1
<1>12. \A k \in 1..4 : Encode(f)[n + 1 + k] = x[k]
  <2> TAKE k \in 1..4
  <2>1. 1 + n + k \in 1..n + 5 /\ 1 + n + k = n + 1 + k
    BY <1>1
  <2> QED
    BY <1>7, <1>9, <2>1
<1>13. n + 6 = 18 + 2 * Len(f.info) /\ n + 1 = 13 + 2 * Len(f.info)
  BY <1>1, <1>5, FrameIs
<1> QED
  BY <1>5, <1>9, <1>10, <1>11, <1>12, <1>13 DEF b, x
-----------------------------------------------------------------------------
(* A body is parsed to the frame it was made of.                           *)

LEMMA SubSeqAt ==
    ASSUME NEW s \in Seq(Byte), NEW p \in Nat, NEW q \in Nat, 1 <= p, p <= q + 1, q <= Len(s)
    PROVE  /\ SubSeq(s, p, q) \in Seq(Byte) /\ Len(SubSeq(s, p, q)) = q - p + 1
           /\ \A k \in 1..q - p + 1 : SubSeq(s, p, q)[k] = s[p + k - 1]
<1>1. Len(s) \in Nat /\ \A k \in 1..Len(s) : s[k] \in Byte
  BY SeqIs
<1>2. p \in Int /\ q \in Int /\ \A k \in p..q : s[k] \in Byte
  BY <1>1
<1>3. /\ SubSeq(s, p, q) \in Seq(Byte)
      /\ Len(SubSeq(s, p, q)) = IF p <= q THEN q - p + 1 ELSE 0
      /\ \A k \in 1..q - p + 1 : SubSeq(s, p, q)[k] = s[p + k - 1]
  BY <1>2, SubSeqProperties
<1> QED
  BY <1>3

LEMMA PairField ==
    ASSUME NEW s \in Seq(Byte), NEW p \in Nat, NEW q \in Nat, 1 <= p, q = p + 1, q <= Len(s),
           IsHex(s[p]), IsHex(s[q])
    PROVE  /\ IsNumber(SubSeq(s, p, q))
           /\ Number(SubSeq(s, p, q)) = 16 * HexValue(s[p]) + HexValue(s[q])
<1> DEFINE t == SubSeq(s, p, q)
<1>1. /\ t \in Seq(Byte) /\ Len(t) = q - p + 1
      /\ \A k \in 1..q - p + 1 : t[k] = s[p + k - 1]
  BY SubSeqAt
<1> HIDE DEF t
<1>2. q - p + 1 = 2 /\ p + 1 - 1 = p /\ p + 2 - 1 = q
  OBVIOUS
<1>3. Len(t) = 2 /\ t[1] = s[p] /\ t[2] = s[q]
  BY <1>1, <1>2
<1>4. IsNumber(t) /\ Number(t) = 16 * HexValue(t[1]) + HexValue(t[2])
  BY <1>1, <1>3, NumberOf2
<1> QED
  BY <1>3, <1>4 DEF t

LEMMA HexStringIs ==
    ASSUME NEW s \in Seq(Byte)
    PROVE  IsHexString(HexOf(s)) /\ Bytes(HexOf(s)) = s
<1> DEFINE x == HexOf(s)
<1>1. /\ x \in Seq(Byte) /\ Len(x) = 2 * Len(s)
      /\ \A k \in 1..2 * Len(s) : x[k] \in Letter
      /\ \A k \in 1..Len(s) : 16 * HexValue(x[2 * k - 1]) + HexValue(x[2 * k]) = s[k]
  BY HexOfIs
<1> HIDE DEF x
<1>2. Len(s) \in Nat /\ DOMAIN x = 1..2 * Len(s) /\ s \in [1..Len(s) -> Byte]
  BY <1>1, SeqIs, LenProperties
<1>3. Len(x) % 2 = 0 /\ Len(x) \div 2 = Len(s)
  <2> DEFINE n == Len(s)
  <2>1. n \in Nat /\ Len(x) = 2 * n
    BY <1>1, <1>2
  <2> HIDE DEF n
  <2>2. (2 * n) % 2 = 0 /\ (2 * n) \div 2 = n
    BY <2>1
  <2> QED
    BY <2>1, <2>2 DEF n
<1>4. \A k \in DOMAIN x : IsHex(x[k])
  BY <1>1, <1>2, LetterIs
<1>5. IsHexString(x)
  BY <1>3, <1>4 DEF IsHexString
<1>6. Bytes(x) = [k \in 1..Len(s) |-> 16 * HexValue(x[2 * k - 1]) + HexValue(x[2 * k])]
  BY <1>3 DEF Bytes
<1>7. Bytes(x) = s
  BY <1>1, <1>2, <1>6
<1> QED
  BY <1>1, <1>2, <1>5, <1>7 DEF x

LEMMA BodyParses ==
    ASSUME NEW f \in Frames
    PROVE  /\ Accepts(Body(f)) /\ Content(Body(f)) = f /\ IsHexString(Body(f))
           /\ Number(SubSeq(Body(f), 9, 12)) = Field(f)
<1> DEFINE b == Body(f)
           m == 2 * Len(f.info)
           h == Header(f, Field(f))
           x == HexOf(f.info)
<1>1. /\ b \in Seq(Byte) /\ Len(b) = 12 + m /\ m \in Nat
      /\ \A k \in 1..12 : b[k] = h[k]
      /\ \A k \in 1..m : b[12 + k] = x[k]
      /\ \A k \in 1..12 + m : b[k] \in Letter
  BY BodyIs, FrameIs
<1>2. /\ h[1] = Hex2(Version)[1] /\ h[2] = Hex2(Version)[2]
      /\ h[3] = Hex2(f.address)[1] /\ h[4] = Hex2(f.address)[2]
      /\ h[5] = Hex2(Group)[1] /\ h[6] = Hex2(Group)[2]
      /\ h[7] = Hex2(f.cid2)[1] /\ h[8] = Hex2(f.cid2)[2]
      /\ \A k \in 1..4 : h[8 + k] = Hex4(Field(f))[k]
  BY FieldHeader
<1>3. /\ x \in Seq(Byte) /\ Len(x) = m
      /\ IsHexString(x) /\ Bytes(x) = f.info /\ m % 2 = 0
  <2>1. f.info \in Seq(Byte) /\ Len(f.info) \in Nat
    BY FrameIs
  <2>2. x \in Seq(Byte) /\ Len(x) = m /\ IsHexString(x) /\ Bytes(x) = f.info
    BY <2>1, HexOfIs, HexStringIs
  <2>3. m % 2 = 0
    <3>1. \A n \in Nat : (2 * n) % 2 = 0
      OBVIOUS
    <3> QED
      BY <2>1, <3>1
  <2> QED
    BY <2>2, <2>3
<1> HIDE DEF b, m, h, x
<1>4. \A p, q \in Nat : 1 <= p /\ q = p + 1 /\ q <= 12 + m =>
        /\ IsNumber(SubSeq(b, p, q))
        /\ Number(SubSeq(b, p, q)) = 16 * HexValue(b[p]) + HexValue(b[q])
  <2> SUFFICES ASSUME NEW p \in Nat, NEW q \in Nat, 1 <= p, q = p + 1, q <= 12 + m
               PROVE  /\ IsNumber(SubSeq(b, p, q))
                      /\ Number(SubSeq(b, p, q)) = 16 * HexValue(b[p]) + HexValue(b[q])
    OBVIOUS
  <2>1. p \in 1..12 + m /\ q \in 1..12 + m
    BY <1>1
  <2>2. IsHex(b[p]) /\ IsHex(b[q])
    BY <1>1, <2>1, LetterIs
  <2> QED
    BY <1>1, <2>2, PairField
<1>5. /\ b[1] = h[1] /\ b[2] = h[2] /\ b[3] = h[3] /\ b[4] = h[4]
      /\ b[5] = h[5] /\ b[6] = h[6] /\ b[7] = h[7] /\ b[8] = h[8]
  BY <1>1
<1>6. IsNumber(SubSeq(b, 1, 2)) /\ Number(SubSeq(b, 1, 2)) = Version
  <2>1. /\ IsNumber(SubSeq(b, 1, 2))
        /\ Number(SubSeq(b, 1, 2)) = 16 * HexValue(b[1]) + HexValue(b[2])
    <3>1. 1 \in Nat /\ 2 \in Nat /\ 1 <= 1 /\ 2 = 1 + 1 /\ 2 <= 12 + m
      BY <1>1
    <3> QED
      BY ONLY <1>4, <3>1
  <2>2. 16 * HexValue(b[1]) + HexValue(b[2]) = Version
    BY <1>2, <1>5, ConstantsAre, PairIs
  <2> QED
    BY <2>1, <2>2
<1>7. IsNumber(SubSeq(b, 3, 4)) /\ Number(SubSeq(b, 3, 4)) = f.address
  <2>1. /\ IsNumber(SubSeq(b, 3, 4))
        /\ Number(SubSeq(b, 3, 4)) = 16 * HexValue(b[3]) + HexValue(b[4])
    <3>1. 3 \in Nat /\ 4 \in Nat /\ 1 <= 3 /\ 4 = 3 + 1 /\ 4 <= 12 + m
      BY <1>1
    <3> QED
      BY ONLY <1>4, <3>1
  <2>2. 16 * HexValue(b[3]) + HexValue(b[4]) = f.address
    BY <1>2, <1>5, FrameIs, PairIs
  <2> QED
    BY <2>1, <2>2
<1>8. IsNumber(SubSeq(b, 5, 6)) /\ Number(SubSeq(b, 5, 6)) = Group
  <2>1. /\ IsNumber(SubSeq(b, 5, 6))
        /\ Number(SubSeq(b, 5, 6)) = 16 * HexValue(b[5]) + HexValue(b[6])
    <3>1. 5 \in Nat /\ 6 \in Nat /\ 1 <= 5 /\ 6 = 5 + 1 /\ 6 <= 12 + m
      BY <1>1
    <3> QED
      BY ONLY <1>4, <3>1
  <2>2. 16 * HexValue(b[5]) + HexValue(b[6]) = Group
    BY <1>2, <1>5, ConstantsAre, PairIs
  <2> QED
    BY <2>1, <2>2
<1>9. IsNumber(SubSeq(b, 7, 8)) /\ Number(SubSeq(b, 7, 8)) = f.cid2
  <2>1. /\ IsNumber(SubSeq(b, 7, 8))
        /\ Number(SubSeq(b, 7, 8)) = 16 * HexValue(b[7]) + HexValue(b[8])
    <3>1. 7 \in Nat /\ 8 \in Nat /\ 1 <= 7 /\ 8 = 7 + 1 /\ 8 <= 12 + m
      BY <1>1
    <3> QED
      BY ONLY <1>4, <3>1
  <2>2. 16 * HexValue(b[7]) + HexValue(b[8]) = f.cid2
    BY <1>2, <1>5, FrameIs, PairIs
  <2> QED
    BY <2>1, <2>2
<1>10. IsNumber(SubSeq(b, 9, 12)) /\ Number(SubSeq(b, 9, 12)) = Field(f)
  <2> DEFINE l == SubSeq(b, 9, 12)
             w == Hex4(Field(f))
  <2>1. Field(f) \in Nat /\ Field(f) < 65536
    BY FieldIs
  <2>2. w \in Seq(Byte) /\ Len(w) = 4 /\ IsNumber(w) /\ Number(w) = Field(f)
    BY <2>1, NumberOfHex4
  <2>3. /\ l \in Seq(Byte) /\ Len(l) = 12 - 9 + 1
        /\ \A k \in 1..12 - 9 + 1 : l[k] = b[9 + k - 1]
    BY <1>1, SubSeqAt
  <2> HIDE DEF l
  <2>4. \A k \in 1..4 : l[k] = w[k]
    <3> TAKE k \in 1..4
    <3>1. k \in 1..12 - 9 + 1 /\ 9 + k - 1 = 8 + k /\ 8 + k \in 1..12
      OBVIOUS
    <3> QED
      BY <1>1, <1>2, <2>3, <3>1
  <2> HIDE DEF w
  <2>5. l = w
    BY <2>2, <2>3, <2>4, SeqEqual
  <2> QED
    BY <2>2, <2>5 DEF l
<1>11. SubSeq(b, 13, Len(b)) = x
  <2> DEFINE l == SubSeq(b, 13, Len(b))
  <2>1. Len(b) \in Nat /\ 13 <= Len(b) + 1 /\ Len(b) <= Len(b)
    BY <1>1
  <2>2. /\ l \in Seq(Byte) /\ Len(l) = Len(b) - 13 + 1
        /\ \A k \in 1..Len(b) - 13 + 1 : l[k] = b[13 + k - 1]
    BY <1>1, <2>1, SubSeqAt
  <2> HIDE DEF l
  <2>3. Len(l) = m
    BY <1>1, <2>2
  <2>4. \A k \in 1..m : l[k] = x[k]
    <3> TAKE k \in 1..m
    <3>1. k \in 1..Len(b) - 13 + 1 /\ 13 + k - 1 = 12 + k
      <4>1. m \in Nat /\ Len(b) = 12 + m /\ k \in 1..m
        BY <1>1
      <4> QED
        BY ONLY <4>1
    <3>2. l[k] = b[12 + k]
      BY ONLY <2>2, <3>1
    <3> QED
      BY <1>1, <3>2
  <2>5. l = x
    BY <1>3, <2>2, <2>3, <2>4, SeqEqual
  <2> QED
    BY <2>5 DEF l
<1>12. ValidLength(Field(f), Len(x))
  <2>1. Field(f) % 4096 = m /\ Field(f) = LengthField(m)
    BY FieldIs DEF m
  <2> QED
    BY <1>3, <2>1 DEF ValidLength
<1>13. Accepts(b)
  BY <1>3, <1>6, <1>7, <1>8, <1>9, <1>10, <1>11, <1>12 DEF Accepts
<1>14. Content(b) = f
  <2>1. /\ Number(SubSeq(b, 3, 4)) = f.address /\ Number(SubSeq(b, 7, 8)) = f.cid2
        /\ Bytes(SubSeq(b, 13, Len(b))) = f.info
    BY <1>3, <1>7, <1>9, <1>11
  <2>2. Content(b) = [address |-> f.address, cid2 |-> f.cid2, info |-> f.info]
    BY <2>1 DEF Content
  <2> QED
    BY <2>2, FrameIs
<1>15. IsHexString(b)
  <2>1. DOMAIN b = 1..12 + m /\ Len(b) % 2 = 0
    BY <1>1, <1>3, SeqIs
  <2>2. \A k \in DOMAIN b : IsHex(b[k])
    BY <1>1, <2>1, LetterIs
  <2> QED
    BY <2>1, <2>2 DEF IsHexString
<1> QED
  BY <1>10, <1>13, <1>14, <1>15 DEF b
-----------------------------------------------------------------------------
(* What is decoded, and what is not.                                       *)

LEMMA WholeFrame ==
    ASSUME NEW f \in Frames
    PROVE  /\ Covered(Encode(f)) = Body(f) /\ Trailer(Encode(f)) = Hex4(Checksum(Body(f)))
           /\ Decode(Encode(f)) = f
           /\ PythonDecode(Encode(f)) = {IF Checksum(Body(f)) = 0 THEN Rejected ELSE f}
<1> DEFINE e == Encode(f)
           b == Body(f)
           m == 2 * Len(f.info)
           x == Hex4(Checksum(b))
<1>1. /\ e \in Seq(Byte) /\ Len(e) = 18 + m /\ m \in Nat /\ e[1] = Start /\ e[18 + m] = End
      /\ \A k \in 1..12 + m : e[k + 1] = b[k]
      /\ \A k \in 1..4 : e[13 + m + k] = x[k]
  BY EncodeIs, FrameIs
<1>2. b \in Seq(Byte) /\ Len(b) = 12 + m
  BY BodyIs
<1>3. /\ Accepts(b) /\ Content(b) = f /\ IsHexString(b)
  BY BodyParses
<1> HIDE DEF e, b, m
<1>4. /\ Checksum(b) \in Nat /\ Checksum(b) < 65536
      /\ PythonChecksum(b) = IF Checksum(b) = 0 THEN 65536 ELSE Checksum(b)
  BY <1>2, ChecksumIs
<1>5. x \in Seq(Byte) /\ Len(x) = 4 /\ IsNumber(x) /\ Number(x) = Checksum(b)
  BY <1>4, NumberOfHex4
<1> HIDE DEF x
<1>6. /\ Covered(e) \in Seq(Byte) /\ Len(Covered(e)) = 12 + m
      /\ \A k \in 1..12 + m : Covered(e)[k] = e[k + 1]
      /\ Trailer(e) \in Seq(Byte) /\ Len(Trailer(e)) = 4
      /\ \A k \in 1..4 : Trailer(e)[k] = e[13 + m + k]
  <2>1. Len(e) >= 6 /\ Len(e) - 6 = 12 + m /\ Len(e) - 5 = 13 + m
    BY <1>1
  <2>2. e \in Seq(Byte)
    BY <1>1
  <2>3. /\ Covered(e) \in Seq(Byte) /\ Len(Covered(e)) = Len(e) - 6
        /\ \A k \in 1..Len(e) - 6 : Covered(e)[k] = e[k + 1]
        /\ Trailer(e) \in Seq(Byte) /\ Len(Trailer(e)) = 4
        /\ \A k \in 1..4 : Trailer(e)[k] = e[Len(e) - 5 + k]
    BY ONLY <2>1, <2>2, CoveredIs
  <2> QED
    BY <2>1, <2>3
<1>7. Covered(e) = b
  <2>1. Len(Covered(e)) = Len(b) /\ \A k \in 1..Len(Covered(e)) : Covered(e)[k] = b[k]
    BY <1>1, <1>2, <1>6
  <2>2. Covered(e) \in Seq(Byte) /\ b \in Seq(Byte)
    BY <1>2, <1>6
  <2> QED
    BY ONLY <2>1, <2>2, SeqEqual
<1>8. Trailer(e) = x
  <2>1. Len(Trailer(e)) = Len(x) /\ \A k \in 1..Len(Trailer(e)) : Trailer(e)[k] = x[k]
    BY <1>1, <1>5, <1>6
  <2>2. Trailer(e) \in Seq(Byte) /\ x \in Seq(Byte)
    BY <1>5, <1>6
  <2> QED
    BY ONLY <2>1, <2>2, SeqEqual
<1>9. IsIntact(e)
  <2>1. Len(e) >= 18 /\ e[Len(e)] = End
    BY <1>1
  <2> QED
    BY <1>1, <1>5, <1>7, <1>8, <2>1 DEF IsIntact
<1>10. Decode(e) = f
  BY <1>3, <1>7, <1>9 DEF Decode
<1>11. PythonDecode(e) = {IF Checksum(b) = 0 THEN Rejected ELSE f}
  <2>1. Len(e) >= 18
    BY <1>1
  <2>2. Number(Trailer(e)) = PythonChecksum(Covered(e)) <=> Checksum(b) # 0
    BY <1>4, <1>5, <1>7, <1>8
  <2>3. PythonContent(Covered(e)) = f
    BY <1>3, <1>7 DEF PythonContent
  <2> QED
    BY <1>5, <1>8, <2>1, <2>2, <2>3 DEF PythonDecode
<1> QED
  BY <1>7, <1>8, <1>10, <1>11 DEF e, b, x

\* Only the checksum has changed.
LEMMA SameBody ==
    ASSUME NEW f \in Frames, NEW raw, Covered(raw) = Body(f)
    PROVE  Decode(raw) \in {f, Rejected} /\ PythonDecode(raw) \subseteq {f, Rejected}
<1>1. Content(Covered(raw)) = f /\ IsHexString(Covered(raw))
  BY BodyParses
<1> QED
  BY <1>1 DEF Decode, PythonDecode, PythonContent

\* The checksum is that of b, and another sum has come.
LEMMA WrongSum ==
    ASSUME NEW raw \in Seq(Byte), NEW b \in Seq(Byte), Len(raw) >= 6,
           Trailer(raw) = Hex4(Checksum(b)),
           Sum(Covered(raw)) # Sum(b), Sum(b) < Sum(Covered(raw)) + 65536,
           Sum(Covered(raw)) < Sum(b) + 65536
    PROVE  Decode(raw) = Rejected /\ PythonDecode(raw) = {Rejected}
<1> DEFINE c == Covered(raw)
<1>1. c \in Seq(Byte)
  BY CoveredIs
<1>2. Sum(c) \in Nat /\ Sum(b) \in Nat
  BY <1>1, SumIs
<1>3. /\ Checksum(b) \in Nat /\ Checksum(b) < 65536 /\ Checksum(c) \in Nat
      /\ PythonChecksum(c) = IF Checksum(c) = 0 THEN 65536 ELSE Checksum(c)
  BY <1>1, ChecksumIs
<1>4. IsNumber(Trailer(raw)) /\ Number(Trailer(raw)) = Checksum(b)
  BY <1>3, NumberOfHex4
<1>5. Checksum(c) # Checksum(b)
  BY <1>1, <1>2, ChecksumDiffers
<1>6. Number(Trailer(raw)) # Checksum(c) /\ Number(Trailer(raw)) # PythonChecksum(c)
  BY <1>3, <1>4, <1>5
<1> QED
  BY <1>4, <1>6 DEF Decode, IsIntact, PythonDecode

\* The header is that of f, and another number of characters has come.
LEMMA WrongLength ==
    ASSUME NEW f \in Frames, NEW raw \in Seq(Byte), Len(raw) # 18 + 2 * Len(f.info),
           \A k \in 1..12 : Len(raw) >= 18 => raw[k + 1] = Body(f)[k]
    PROVE  Decode(raw) = Rejected
<1> SUFFICES ASSUME Len(raw) >= 18 PROVE ~Accepts(Covered(raw))
  BY DEF Decode, IsIntact
<1> DEFINE c == Covered(raw)
           b == Body(f)
           n == Len(raw)
<1>1. n \in Nat /\ n >= 18
  BY LenProperties
<1>2. c \in Seq(Byte) /\ Len(c) = n - 6 /\ \A k \in 1..n - 6 : c[k] = raw[k + 1]
  <2>1. Len(raw) >= 6
    BY <1>1
  <2> QED
    BY <2>1, CoveredIs
<1>3. b \in Seq(Byte) /\ Len(b) = 12 + 2 * Len(f.info) /\ Len(f.info) \in Nat
  BY BodyIs, FrameIs
<1>4. Number(SubSeq(b, 9, 12)) = Field(f)
  BY BodyParses
<1>5. \A k \in 1..12 : raw[k + 1] = b[k]
  BY <1>1
<1>6. n # 18 + 2 * Len(f.info)
  OBVIOUS
<1> HIDE DEF b, c, n
<1>7. SubSeq(c, 9, 12) = SubSeq(b, 9, 12)
  <2>1. /\ SubSeq(c, 9, 12) \in Seq(Byte) /\ Len(SubSeq(c, 9, 12)) = 12 - 9 + 1
        /\ \A k \in 1..12 - 9 + 1 : SubSeq(c, 9, 12)[k] = c[9 + k - 1]
    <3>1. c \in Seq(Byte) /\ 12 <= Len(c)
      BY <1>1, <1>2
    <3>2. 9 \in Nat /\ 12 \in Nat /\ 1 <= 9 /\ 9 <= 12 + 1
      OBVIOUS
    <3> QED
      BY ONLY <3>1, <3>2, SubSeqAt
  <2>2. /\ SubSeq(b, 9, 12) \in Seq(Byte) /\ Len(SubSeq(b, 9, 12)) = 12 - 9 + 1
        /\ \A k \in 1..12 - 9 + 1 : SubSeq(b, 9, 12)[k] = b[9 + k - 1]
    <3>1. b \in Seq(Byte) /\ 12 <= Len(b)
      BY <1>3
    <3>2. 9 \in Nat /\ 12 \in Nat /\ 1 <= 9 /\ 9 <= 12 + 1
      OBVIOUS
    <3> QED
      BY ONLY <3>1, <3>2, SubSeqAt
  <2>3. \A k \in 1..12 - 9 + 1 : c[9 + k - 1] = b[9 + k - 1]
    <3> TAKE k \in 1..12 - 9 + 1
    <3>1. 9 + k - 1 \in 1..12 /\ 9 + k - 1 \in 1..n - 6
      BY <1>1
    <3> QED
      BY <1>2, <1>5, <3>1
  <2>4. \A k \in 1..12 - 9 + 1 : SubSeq(c, 9, 12)[k] = SubSeq(b, 9, 12)[k]
    BY <2>1, <2>2, <2>3
  <2> QED
    BY ONLY <2>1, <2>2, <2>4, SeqEqual
<1>8. Len(SubSeq(c, 13, Len(c))) = n - 18
  <2>1. Len(c) \in Nat /\ 13 <= Len(c) + 1 /\ Len(c) <= Len(c)
    BY <1>1, <1>2
  <2>2. Len(SubSeq(c, 13, Len(c))) = Len(c) - 13 + 1
    BY <1>2, <2>1, SubSeqAt
  <2> QED
    BY <1>1, <1>2, <2>2
<1>9. Field(f) % 4096 = 2 * Len(f.info)
  BY FieldIs
<1>10. ~ValidLength(Number(SubSeq(c, 9, 12)), Len(SubSeq(c, 13, Len(c))))
  <2>1. Number(SubSeq(c, 9, 12)) = Field(f)
    BY <1>4, <1>7
  <2>2. 2 * Len(f.info) # n - 18
    BY <1>1, <1>3, <1>6
  <2> QED
    BY <1>8, <1>9, <2>1, <2>2 DEF ValidLength
<1> QED
  BY <1>10 DEF Accepts, c

\* A character 0 is in a field or in the info, and no hex digit.
LEMMA ZeroNoNumber ==
    ASSUME NEW s \in Seq(Byte), NEW k \in 1..Len(s), s[k] = 0
    PROVE  ~IsNumber(s)
<1>1. ~IsHex(0)
  BY DEF IsHex
<1>2. Len(s) \in Nat /\ DOMAIN s = 1..Len(s) /\ s # <<>> /\ Head(s) = s[1]
  BY SeqIs
<1>3. CASE Head(s) = 43
  <2>1. /\ Digits(s) = Tail(s) /\ Tail(s) \in Seq(Byte) /\ Len(Tail(s)) = Len(s) - 1
        /\ \A r \in 1..Len(Tail(s)) : Tail(s)[r] = s[r + 1]
    BY <1>2, <1>3, HeadTailProperties DEF Digits
  <2>2. k - 1 \in 1..Len(Tail(s)) /\ k - 1 + 1 = k
    BY <1>2, <1>3, <2>1
  <2>3. k - 1 \in DOMAIN Tail(s) /\ Tail(s)[k - 1] = 0
    BY <2>1, <2>2, SeqIs
  <2> QED
    BY <1>1, <2>1, <2>3 DEF IsNumber
<1>4. CASE Head(s) # 43
  BY <1>1, <1>2, <1>4 DEF IsNumber, Digits
<1> QED
  BY <1>3, <1>4

LEMMA ZeroRejected ==
    ASSUME NEW raw \in Seq(Byte), NEW k \in 2..Len(raw) - 5, raw[k] = 0
    PROVE  Decode(raw) = Rejected
<1> SUFFICES ASSUME Len(raw) >= 18 PROVE ~Accepts(Covered(raw))
  BY DEF Decode, IsIntact
<1> DEFINE c == Covered(raw)
           n == Len(raw)
<1>1. n \in Nat /\ n >= 18 /\ k \in Nat /\ 2 <= k /\ k <= n - 5
  BY LenProperties
<1>2. c \in Seq(Byte) /\ Len(c) = n - 6 /\ \A r \in 1..n - 6 : c[r] = raw[r + 1]
  <2>1. Len(raw) >= 6
    BY <1>1
  <2> QED
    BY <2>1, CoveredIs
<1> HIDE DEF n, c
<1>3. k - 1 \in 1..n - 6 /\ c[k - 1] = 0
  <2>1. k - 1 \in 1..n - 6 /\ k - 1 + 1 = k
    BY <1>1
  <2> QED
    BY <1>2, <2>1
<1>4. ASSUME NEW p \in Nat, NEW q \in Nat, 1 <= p, p <= q, q <= n - 6, p <= k - 1, k - 1 <= q
      PROVE  ~IsNumber(SubSeq(c, p, q))
  <2> DEFINE t == SubSeq(c, p, q)
  <2>0. c \in Seq(Byte) /\ 1 <= p /\ p <= q + 1 /\ q <= Len(c)
    BY <1>2, <1>4
  <2>1. /\ t \in Seq(Byte) /\ Len(t) = q - p + 1
        /\ \A r \in 1..q - p + 1 : t[r] = c[p + r - 1]
    BY ONLY <2>0, SubSeqAt, p \in Nat, q \in Nat
  <2> HIDE DEF t
  <2>2. k - p \in 1..q - p + 1 /\ p + (k - p) - 1 = k - 1
    BY <1>1, <1>4
  <2>3. k - p \in 1..Len(t) /\ t[k - p] = 0
    BY <1>3, <2>1, <2>2
  <2>4. ~IsNumber(t)
    BY <2>1, <2>3, ZeroNoNumber
  <2> QED
    BY <2>4 DEF t
<1>5. CASE k - 1 <= 2
  BY <1>1, <1>3, <1>4, <1>5 DEF Accepts, c
<1>6. CASE 2 < k - 1 /\ k - 1 <= 4
  BY <1>1, <1>3, <1>4, <1>6 DEF Accepts, c
<1>7. CASE 4 < k - 1 /\ k - 1 <= 6
  BY <1>1, <1>3, <1>4, <1>7 DEF Accepts, c
<1>8. CASE 6 < k - 1 /\ k - 1 <= 8
  BY <1>1, <1>3, <1>4, <1>8 DEF Accepts, c
<1>9. CASE 8 < k - 1 /\ k - 1 <= 12
  BY <1>1, <1>3, <1>4, <1>9 DEF Accepts, c
<1>10. CASE 12 < k - 1
  <2> DEFINE t == SubSeq(c, 13, Len(c))
  <2>1. Len(c) \in Nat /\ 13 <= Len(c) + 1 /\ Len(c) <= Len(c) /\ Len(c) - 13 + 1 = n - 18
    BY <1>1, <1>2
  <2>2. /\ t \in Seq(Byte) /\ Len(t) = Len(c) - 13 + 1
        /\ \A r \in 1..Len(c) - 13 + 1 : t[r] = c[13 + r - 1]
    BY <1>2, <2>1, SubSeqAt
  <2> HIDE DEF t
  <2>3. k - 13 \in 1..Len(c) - 13 + 1 /\ 13 + (k - 13) - 1 = k - 1
    BY <1>1, <1>10, <2>1
  <2>4. k - 13 \in DOMAIN t /\ t[k - 13] = 0
    <3>1. k - 13 \in 1..Len(t) /\ t[k - 13] = c[13 + (k - 13) - 1]
      BY ONLY <2>2, <2>3
    <3>2. DOMAIN t = 1..Len(t)
      BY <2>2, SeqIs
    <3> QED
      BY ONLY <1>3, <2>3, <3>1, <3>2
  <2>5. ~IsHexString(t)
    <3>1. ~IsHex(0)
      BY DEF IsHex
    <3> QED
      BY <2>4, <3>1 DEF IsHexString
  <2> QED
    BY <2>5 DEF Accepts, c, t
<1> QED
  BY <1>1, <1>5, <1>6, <1>7, <1>8, <1>9, <1>10 DEF c

\* fromhex stumbles over a character that is neither a digit nor blank.
LEMMA PythonForeign ==
    ASSUME NEW raw \in Seq(Byte), NEW k \in 2..Len(raw) - 5,
           ~IsHex(raw[k]), raw[k] \notin Blanks
    PROVE  PythonDecode(raw) = {Rejected}
<1> DEFINE c == Covered(raw)
<1>1. Len(raw) \in Nat /\ Len(raw) >= 6 /\ k - 1 \in 1..Len(raw) - 6 /\ k - 1 + 1 = k
  BY LenProperties
<1>2. /\ c \in Seq(Byte) /\ Len(c) = Len(raw) - 6
      /\ \A r \in 1..Len(raw) - 6 : c[r] = raw[r + 1]
  BY <1>1, CoveredIs
<1> HIDE DEF c
<1>3. k - 1 \in DOMAIN c /\ c[k - 1] = raw[k]
  BY <1>1, <1>2, SeqIs
<1>4. ~IsHexString(c) /\ ~IsLoose(c)
  BY <1>3 DEF IsHexString, IsLoose
<1> QED
  BY <1>4 DEF PythonDecode, PythonContent, c

\* fromhex wants an even number of digits.
LEMMA PythonOdd ==
    ASSUME NEW raw \in Seq(Byte), Len(raw) >= 6, Len(raw) % 2 = 1,
           \A k \in 2..Len(raw) - 5 : raw[k] \in Letter
    PROVE  PythonDecode(raw) = {Rejected}
<1> DEFINE c == Covered(raw)
           n == Len(raw)
<1>1. n \in Nat /\ n >= 6 /\ n % 2 = 1
  BY LenProperties
<1>2. c \in Seq(Byte) /\ Len(c) = n - 6 /\ \A r \in 1..n - 6 : c[r] = raw[r + 1]
  BY CoveredIs
<1>3. \A k \in 2..n - 5 : raw[k] \in Letter
  OBVIOUS
<1> HIDE DEF c, n
<1>4. \A k \in DOMAIN c : c[k] \in Letter
  <2> TAKE k \in DOMAIN c
  <2>1. k \in 1..n - 6
    BY <1>2, SeqIs
  <2>2. k + 1 \in 2..n - 5
    BY <1>1, <2>1
  <2> QED
    BY <1>2, <1>3, <2>1, <2>2
<1>5. ~IsHexString(c)
  <2>1. (n - 6) % 2 = 1
    BY <1>1
  <2> QED
    BY <1>2, <2>1 DEF IsHexString
<1>6. ~IsLoose(c)
  BY <1>4, LetterIs DEF IsLoose
<1> QED
  BY <1>5, <1>6 DEF PythonDecode, PythonContent, c
-----------------------------------------------------------------------------
(* A single fault in what the checksum covers changes the sum.             *)

Width(f) == 18 + 2 * Len(f.info)

LEMMA FrameHas ==
    ASSUME NEW f \in Frames
    PROVE  /\ Encode(f) \in Seq(Byte) /\ Len(Encode(f)) = Width(f)
           /\ Width(f) \in Nat /\ Width(f) >= 18 /\ Width(f) % 2 = 0
           /\ Encode(f)[1] = Start /\ Encode(f)[Width(f)] = End
           /\ \A k \in 2..Width(f) - 1 : Encode(f)[k] \in Letter
           /\ Body(f) \in Seq(Byte) /\ Len(Body(f)) = Width(f) - 6
           /\ \A k \in 2..Width(f) - 5 : Encode(f)[k] = Body(f)[k - 1]
           /\ \A k \in 1..Width(f) - 6 : Body(f)[k] = Encode(f)[k + 1]
<1> DEFINE e == Encode(f)
           b == Body(f)
           m == 2 * Len(f.info)
           x == Hex4(Checksum(b))
<1>1. /\ e \in Seq(Byte) /\ Len(e) = 18 + m /\ m \in Nat /\ e[1] = Start /\ e[18 + m] = End
      /\ \A k \in 1..12 + m : e[k + 1] = b[k]
      /\ \A k \in 1..4 : e[13 + m + k] = x[k]
  BY EncodeIs, FrameIs
<1>2. /\ b \in Seq(Byte) /\ Len(b) = 12 + m
      /\ \A k \in 1..12 + m : b[k] \in Letter
  BY BodyIs
<1>3. \A k \in 1..4 : x[k] \in Letter
  <2> HIDE DEF b
  <2>1. Checksum(b) \in Nat /\ Checksum(b) < 65536
    BY <1>2, ChecksumIs
  <2> QED
    BY <2>1, NumberOfHex4 DEF Letter
<1>4. m % 2 = 0 /\ (18 + m) % 2 = 0
  <2>1. \A n \in Nat : (2 * n) % 2 = 0
    OBVIOUS
  <2>2. Len(f.info) \in Nat
    BY FrameIs
  <2>3. m \in Nat
    BY <2>2
  <2>4. m % 2 = 0
    BY <2>1, <2>2
  <2> HIDE DEF m
  <2> QED
    BY <2>3, <2>4
<1>5. Width(f) = 18 + m
  BY DEF Width
<1> HIDE DEF e, b, m, x
<1>6. \A k \in 2..12 + m + 1 : e[k] = b[k - 1]
  <2> TAKE k \in 2..12 + m + 1
  <2>1. k - 1 \in 1..12 + m /\ k - 1 + 1 = k
    BY <1>1
  <2> QED
    BY <1>1, <2>1
<1>7. ASSUME NEW k \in 2..17 + m PROVE e[k] \in Letter
  <2>1. CASE k <= 13 + m
    <3>1. k \in 2..12 + m + 1 /\ k - 1 \in 1..12 + m
      BY <1>1, <2>1
    <3> QED
      BY <1>2, <1>6, <3>1
  <2>2. CASE ~(k <= 13 + m)
    <3>1. k - 13 - m \in 1..4 /\ 13 + m + (k - 13 - m) = k
      <4>1. m \in Nat
        BY <1>1
      <4> QED
        BY <2>2, <4>1
    <3> QED
      BY <1>1, <1>3, <3>1
  <2> QED
    BY <2>1, <2>2
<1>8. /\ 18 + m \in Nat /\ 18 + m >= 18 /\ 18 + m - 1 = 17 + m /\ 18 + m - 6 = 12 + m
      /\ 18 + m - 5 = 12 + m + 1
  BY <1>1
<1> QED
  BY <1>1, <1>2, <1>4, <1>5, <1>6, <1>7, <1>8 DEF e, b

LEMMA SameTrailer ==
    ASSUME NEW f \in Frames, NEW raw \in Seq(Byte), Len(raw) >= 6,
           \A k \in 1..4 : raw[Len(raw) - 5 + k] = Encode(f)[Width(f) - 5 + k]
    PROVE  Trailer(raw) = Hex4(Checksum(Body(f)))
<1> DEFINE e == Encode(f)
<1>1. e \in Seq(Byte) /\ Len(e) = Width(f) /\ Len(e) >= 6
  BY FrameHas
<1>2. Trailer(e) = Hex4(Checksum(Body(f)))
  BY WholeFrame
<1>3. \A k \in 1..4 : raw[Len(raw) - 5 + k] = e[Len(e) - 5 + k]
  BY <1>1
<1> HIDE DEF e
<1>4. /\ Trailer(e) \in Seq(Byte) /\ Len(Trailer(e)) = 4
      /\ \A k \in 1..4 : Trailer(e)[k] = e[Len(e) - 5 + k]
  BY <1>1, CoveredIs
<1>5. /\ Trailer(raw) \in Seq(Byte) /\ Len(Trailer(raw)) = 4
      /\ \A k \in 1..4 : Trailer(raw)[k] = raw[Len(raw) - 5 + k]
  BY CoveredIs
<1>6. Len(Trailer(raw)) = Len(Trailer(e))
  BY <1>4, <1>5
<1>7. \A k \in 1..Len(Trailer(raw)) : Trailer(raw)[k] = Trailer(e)[k]
  <2>1. \A k \in 1..4 : Trailer(raw)[k] = Trailer(e)[k]
    BY ONLY <1>3, <1>4, <1>5
  <2> QED
    BY ONLY <1>5, <2>1
<1>8. Trailer(raw) = Trailer(e)
  <2>1. Trailer(raw) \in Seq(Byte) /\ Trailer(e) \in Seq(Byte)
    BY <1>4, <1>5
  <2> QED
    BY ONLY <1>6, <1>7, <2>1, SeqEqual
<1> QED
  BY <1>2, <1>8

LEMMA OneChanged ==
    ASSUME NEW f \in Frames, NEW raw \in Seq(Byte), Len(raw) = Width(f),
           NEW k \in 2..Width(f) - 5, raw[k] # Encode(f)[k],
           \A r \in 1..Width(f) : r # k => raw[r] = Encode(f)[r]
    PROVE  Decode(raw) = Rejected /\ PythonDecode(raw) = {Rejected}
<1> DEFINE e == Encode(f)
           b == Body(f)
           c == Covered(raw)
           n == Width(f)
<1>1. /\ n \in Nat /\ n >= 18 /\ b \in Seq(Byte) /\ Len(b) = n - 6
      /\ \A r \in 1..n - 6 : b[r] = e[r + 1]
  BY FrameHas
<1>2. Len(raw) = n /\ raw[k] # e[k] /\ k \in 2..n - 5 /\ \A r \in 1..n : r # k => raw[r] = e[r]
  OBVIOUS
<1>3. c \in Seq(Byte) /\ Len(c) = Len(raw) - 6 /\ \A r \in 1..Len(raw) - 6 : c[r] = raw[r + 1]
  <2>1. Len(raw) >= 6
    BY <1>1
  <2> QED
    BY <2>1, CoveredIs
<1>4. Trailer(raw) = Hex4(Checksum(b))
  <2>1. \A r \in 1..4 : raw[n - 5 + r] = e[n - 5 + r]
    <3> HIDE DEF n, e
    <3> TAKE r \in 1..4
    <3>1. n - 5 + r \in 1..n /\ n - 5 + r # k
      BY <1>1, <1>2
    <3> QED
      BY <1>2, <3>1
  <2>2. Len(raw) >= 6
    BY <1>1
  <2> QED
    BY <2>1, <2>2, SameTrailer
<1> HIDE DEF e, b, c, n
<1>5. k - 1 \in 1..n - 6 /\ k - 1 + 1 = k
  BY <1>1, <1>2
<1>6. c[k - 1] # b[k - 1]
  BY <1>1, <1>2, <1>3, <1>5
<1>7. \A r \in 1..Len(b) : r # k - 1 => b[r] = c[r]
  <2> SUFFICES ASSUME NEW r \in 1..n - 6, r # k - 1 PROVE b[r] = c[r]
    BY <1>1
  <2>1. r + 1 \in 1..n /\ r + 1 # k
    BY <1>1, <1>2
  <2> QED
    BY <1>1, <1>2, <1>3, <2>1
<1>8. Sum(b) - b[k - 1] = Sum(c) - c[k - 1]
  <2>1. Len(b) = Len(c) /\ k - 1 \in 1..Len(b)
    BY <1>1, <1>2, <1>3, <1>5
  <2> QED
    BY <1>1, <1>3, <1>7, <2>1, SumChanged
<1>9. /\ b[k - 1] \in Nat /\ b[k - 1] <= 255 /\ c[k - 1] \in Nat /\ c[k - 1] <= 255
      /\ Sum(b) \in Nat /\ Sum(c) \in Nat
  <2>1. k - 1 \in 1..Len(b) /\ k - 1 \in 1..Len(c)
    BY <1>1, <1>2, <1>3, <1>5
  <2>2. b \in Seq(Byte) /\ c \in Seq(Byte)
    BY <1>1, <1>3
  <2>3. b[k - 1] \in Byte /\ c[k - 1] \in Byte
    BY ONLY <2>1, <2>2, SeqIs
  <2> QED
    BY <2>2, <2>3, ByteIs, SumIs
<1>10. Sum(c) # Sum(b) /\ Sum(b) < Sum(c) + 65536 /\ Sum(c) < Sum(b) + 65536
  <2> DEFINE x == b[k - 1]
             y == c[k - 1]
             u == Sum(b)
             v == Sum(c)
  <2>1. x \in Nat /\ x <= 255 /\ y \in Nat /\ y <= 255 /\ u \in Nat /\ v \in Nat
    BY <1>9
  <2>2. x # y /\ u - x = v - y
    BY <1>6, <1>8
  <2> HIDE DEF x, y, u, v
  <2>3. v # u /\ u < v + 65536 /\ v < u + 65536
    BY ONLY <2>1, <2>2
  <2> QED
    BY <2>3 DEF u, v
<1>11. Len(raw) >= 6
  BY <1>1, <1>2
<1> QED
  BY <1>1, <1>4, <1>10, <1>11, WrongSum DEF c

\* The first of the characters is the start, which the checksum does not cover.
LEMMA OneLost ==
    ASSUME NEW f \in Frames, NEW raw \in Seq(Byte), Len(raw) = Width(f) - 1,
           NEW k \in 1..Width(f) - 5,
           \A r \in 1..Width(f) - 1 :
              raw[r] = IF r < k THEN Encode(f)[r] ELSE Encode(f)[r + 1]
    PROVE  Decode(raw) = Rejected /\ PythonDecode(raw) = {Rejected}
<1> DEFINE e == Encode(f)
           b == Body(f)
           c == Covered(raw)
           n == Width(f)
           p == IF k = 1 THEN 1 ELSE k - 1
<1>1. /\ n \in Nat /\ n >= 18 /\ b \in Seq(Byte) /\ Len(b) = n - 6
      /\ \A r \in 1..n - 6 : b[r] = e[r + 1]
      /\ \A r \in 2..n - 1 : e[r] \in Letter
  BY FrameHas
<1>2. /\ Len(raw) = n - 1 /\ k \in 1..n - 5
      /\ \A r \in 1..n - 1 : raw[r] = IF r < k THEN e[r] ELSE e[r + 1]
  OBVIOUS
<1>3. c \in Seq(Byte) /\ Len(c) = Len(raw) - 6 /\ \A r \in 1..Len(raw) - 6 : c[r] = raw[r + 1]
  <2>1. Len(raw) >= 6
    BY <1>1
  <2> QED
    BY <2>1, CoveredIs
<1>4. Trailer(raw) = Hex4(Checksum(b))
  <2>1. \A r \in 1..4 : raw[Len(raw) - 5 + r] = e[n - 5 + r]
    <3> HIDE DEF n, e
    <3> TAKE r \in 1..4
    <3>1. /\ Len(raw) - 5 + r \in 1..n - 1 /\ ~(Len(raw) - 5 + r < k)
          /\ Len(raw) - 5 + r + 1 = n - 5 + r
      <4>1. n \in Nat /\ n >= 18 /\ Len(raw) = n - 1 /\ k \in 1..n - 5 /\ r \in 1..4
        BY <1>1, <1>2
      <4> QED
        BY ONLY <4>1
    <3> QED
      BY <1>2, <3>1
  <2>2. Len(raw) >= 6
    BY <1>1
  <2> QED
    BY <2>1, <2>2, SameTrailer
<1> HIDE DEF e, b, c, n
<1>5. p \in 1..n - 6 /\ p \in Nat /\ (k = 1 => p = 1) /\ (k # 1 => p = k - 1)
  BY <1>1, <1>2
<1> HIDE DEF p
<1>6. \A r \in 1..Len(c) : c[r] = IF r < p THEN b[r] ELSE b[r + 1]
  <2>0. Len(c) = n - 7
    <3>1. n \in Nat /\ Len(raw) = n - 1 /\ Len(c) = Len(raw) - 6
      BY <1>1, <1>2, <1>3
    <3> QED
      BY ONLY <3>1
  <2>1. \A r \in 1..n - 7 : c[r] = IF r < p THEN b[r] ELSE b[r + 1]
    <3> TAKE r \in 1..n - 7
    <3>1. /\ r + 1 \in 1..n - 1 /\ r \in 1..Len(raw) - 6
          /\ r \in 1..n - 6 /\ r + 1 \in 1..n - 6
      BY <1>1, <1>2
    <3>2. c[r] = IF r + 1 < k THEN e[r + 1] ELSE e[r + 1 + 1]
      BY <1>2, <1>3, <3>1
    <3>3. b[r] = e[r + 1] /\ b[r + 1] = e[r + 1 + 1]
      BY <1>1, <3>1
    <3>4. r + 1 < k <=> r < p
      BY <1>2, <1>5, <3>1
    <3> QED
      BY <3>2, <3>3, <3>4
  <2> QED
    BY ONLY <2>0, <2>1
<1>7. Sum(b) = Sum(c) + b[p]
  <2>1. Len(b) = Len(c) + 1 /\ p \in 1..Len(b)
    <3>1. /\ n \in Nat /\ Len(b) = n - 6 /\ Len(raw) = n - 1 /\ Len(c) = Len(raw) - 6
          /\ p \in 1..n - 6
      BY <1>1, <1>2, <1>3, <1>5
    <3> QED
      BY ONLY <3>1
  <2> QED
    BY <1>1, <1>3, <1>6, <2>1, SumWithout
<1>8. /\ b[p] \in Nat /\ 0 < b[p] /\ b[p] <= 255 /\ Sum(b) \in Nat /\ Sum(c) \in Nat
  <2>1. b[p] \in Letter
    <3>1. p + 1 \in 2..n - 1
      BY <1>1, <1>5
    <3> QED
      BY <1>1, <1>5, <3>1
  <2>2. b[p] \in Nat /\ 0 < b[p] /\ b[p] <= 255
    BY <2>1, LetterIs, ByteIs
  <2> QED
    BY <1>1, <1>3, <2>2, SumIs
<1>9. Sum(c) # Sum(b) /\ Sum(b) < Sum(c) + 65536 /\ Sum(c) < Sum(b) + 65536
  BY ONLY <1>7, <1>8
<1>10. Len(raw) >= 6
  BY <1>1, <1>2
<1> QED
  BY <1>1, <1>4, <1>9, <1>10, WrongSum DEF c

LEMMA OneAdded ==
    ASSUME NEW f \in Frames, NEW raw \in Seq(Byte), Len(raw) = Width(f) + 1,
           NEW k \in 1..Width(f) - 4, NEW x \in Byte, k = 1 \/ x # 0,
           \A r \in 1..Width(f) + 1 :
              raw[r] = IF r < k THEN Encode(f)[r] ELSE IF r = k THEN x ELSE Encode(f)[r - 1]
    PROVE  Decode(raw) = Rejected /\ PythonDecode(raw) = {Rejected}
<1> DEFINE e == Encode(f)
           b == Body(f)
           c == Covered(raw)
           n == Width(f)
           p == IF k = 1 THEN 1 ELSE k - 1
<1>1. /\ n \in Nat /\ n >= 18 /\ b \in Seq(Byte) /\ Len(b) = n - 6 /\ e[1] = Start
      /\ \A r \in 1..n - 6 : b[r] = e[r + 1]
  BY FrameHas
<1>2. /\ Len(raw) = n + 1 /\ k \in 1..n - 4 /\ (k = 1 \/ x # 0)
      /\ \A r \in 1..n + 1 : raw[r] = IF r < k THEN e[r] ELSE IF r = k THEN x ELSE e[r - 1]
  OBVIOUS
<1>3. c \in Seq(Byte) /\ Len(c) = Len(raw) - 6 /\ \A r \in 1..Len(raw) - 6 : c[r] = raw[r + 1]
  <2>1. Len(raw) >= 6
    BY <1>1
  <2> QED
    BY <2>1, CoveredIs
<1>4. Trailer(raw) = Hex4(Checksum(b))
  <2>1. \A r \in 1..4 : raw[Len(raw) - 5 + r] = e[n - 5 + r]
    <3> HIDE DEF n, e
    <3> TAKE r \in 1..4
    <3>1. /\ Len(raw) - 5 + r \in 1..n + 1 /\ ~(Len(raw) - 5 + r < k) /\ Len(raw) - 5 + r # k
          /\ Len(raw) - 5 + r - 1 = n - 5 + r
      <4>1. n \in Nat /\ n >= 18 /\ Len(raw) = n + 1 /\ k \in 1..n - 4 /\ r \in 1..4
        BY <1>1, <1>2
      <4> QED
        BY ONLY <4>1
    <3> QED
      BY <1>2, <3>1
  <2>2. Len(raw) >= 6
    BY <1>1
  <2> QED
    BY <2>1, <2>2, SameTrailer
<1> HIDE DEF e, b, c, n
<1>5. p \in 1..n - 5 /\ p \in Nat /\ (k = 1 => p = 1) /\ (k # 1 => p = k - 1)
  BY <1>1, <1>2
<1> HIDE DEF p
<1>6. \A r \in 1..Len(b) : b[r] = IF r < p THEN c[r] ELSE c[r + 1]
  <2> SUFFICES ASSUME NEW r \in 1..n - 6 PROVE b[r] = IF r < p THEN c[r] ELSE c[r + 1]
    BY <1>1
  <2>1. /\ r + 1 \in 1..n + 1 /\ r + 2 \in 1..n + 1
        /\ r \in 1..Len(raw) - 6 /\ r + 1 \in 1..Len(raw) - 6 /\ r + 1 + 1 = r + 2
        /\ r + 2 - 1 = r + 1
    <3>1. n \in Nat /\ n >= 18 /\ Len(raw) = n + 1 /\ r \in 1..n - 6
      BY <1>1, <1>2
    <3> QED
      BY ONLY <3>1
  <2>2. b[r] = e[r + 1] /\ c[r] = raw[r + 1] /\ c[r + 1] = raw[r + 2]
    BY <1>1, <1>3, <2>1
  <2>3. CASE r < p
    <3>1. r + 1 < k
      BY <1>2, <1>5, <2>1, <2>3
    <3> QED
      BY <1>2, <2>1, <2>2, <2>3, <3>1
  <2>4. CASE ~(r < p)
    <3>1. ~(r + 2 < k) /\ r + 2 # k
      BY <1>2, <1>5, <2>1, <2>4
    <3> QED
      BY <1>2, <2>1, <2>2, <2>4, <3>1
  <2> QED
    BY <2>3, <2>4
<1>7. Sum(c) = Sum(b) + c[p]
  <2>1. Len(c) = Len(b) + 1 /\ p \in 1..Len(c)
    BY <1>1, <1>2, <1>3, <1>5
  <2> QED
    BY <1>1, <1>3, <1>6, <2>1, SumWithout
<1>8. c[p] # 0
  <2>1. p \in 1..Len(raw) - 6 /\ p + 1 \in 1..n + 1
    BY <1>1, <1>2, <1>5
  <2>2. c[p] = raw[p + 1]
    BY <1>3, <2>1
  <2>3. CASE k = 1
    <3>1. p + 1 = 2 /\ ~(2 < k) /\ 2 # k /\ 2 - 1 = 1
      BY <1>5, <2>3
    <3>2. raw[p + 1] = e[1]
      BY <1>2, <2>1, <3>1
    <3> QED
      BY <1>1, <2>2, <3>2 DEF Start
  <2>4. CASE k # 1
    <3>1. p + 1 = k
      BY <1>2, <1>5, <2>4
    <3> QED
      BY <1>2, <2>1, <2>2, <2>4, <3>1
  <2> QED
    BY <2>3, <2>4
<1>9. c[p] \in Nat /\ c[p] <= 255 /\ Sum(b) \in Nat /\ Sum(c) \in Nat
  <2>1. p \in 1..Len(c)
    BY <1>1, <1>2, <1>3, <1>5
  <2> QED
    BY <1>1, <1>3, <2>1, SeqIs, SumIs
<1>10. Sum(c) # Sum(b) /\ Sum(b) < Sum(c) + 65536 /\ Sum(c) < Sum(b) + 65536
  BY <1>7, <1>8, <1>9
<1>11. Len(raw) >= 6
  BY <1>1, <1>2
<1> QED
  BY <1>1, <1>4, <1>10, <1>11, WrongSum DEF c
-----------------------------------------------------------------------------
(* What is read of a line.                                                 *)

\* The places of a character
Places(s, c) == {k \in 1..Len(s) : s[k] = c}

LEMMA UpToEndIsSubSeq ==
    ASSUME NEW s, Places(s, End) # {}
    PROVE  UpToEnd(s) = SubSeq(s, 1, Min(Places(s, End)))
  BY DEF UpToEnd, SelectInSeq, Places

LEMMA RawIsUpToEnd ==
    ASSUME NEW s, NEW p, Places(s, Start) # {}, Min(Places(s, Start)) = p, p # 0
    PROVE  Raw(s) = UpToEnd(SubSeq(s, p, Len(s)))
  BY DEF Raw, SelectInSeq, Places

LEMMA FirstIs ==
    ASSUME NEW s \in Seq(Byte), NEW c, NEW n \in 1..Len(s), s[n] = c,
           \A k \in 1..n - 1 : s[k] # c
    PROVE  Places(s, c) # {} /\ Min(Places(s, c)) = n
<1> DEFINE I == Places(s, c)
<1>1. Len(s) \in Nat /\ n \in Nat
  BY LenProperties
<1>2. n \in I /\ \A k \in I : n <= k /\ k \in Nat
  BY <1>1 DEF Places
<1> HIDE DEF I
<1>3. \A x \in I : (\A y \in I : x <= y) => x = n
  BY <1>1, <1>2
<1>4. Min(I) = n
  BY <1>2, <1>3 DEF Min
<1> QED
  BY <1>2, <1>4 DEF I

LEMMA UpToEndIs ==
    ASSUME NEW s \in Seq(Byte), NEW n \in 1..Len(s), s[n] = End,
           \A k \in 1..n - 1 : s[k] # End
    PROVE  /\ UpToEnd(s) \in Seq(Byte) /\ Len(UpToEnd(s)) = n
           /\ \A k \in 1..n : UpToEnd(s)[k] = s[k]
<1>1. Len(s) \in Nat /\ n \in Nat /\ 1 <= n /\ n <= Len(s)
  BY LenProperties
<1>2. UpToEnd(s) = SubSeq(s, 1, n)
  BY FirstIs, UpToEndIsSubSeq
<1>3. /\ SubSeq(s, 1, n) \in Seq(Byte) /\ Len(SubSeq(s, 1, n)) = n - 1 + 1
      /\ \A k \in 1..n - 1 + 1 : SubSeq(s, 1, n)[k] = s[1 + k - 1]
  <2>1. 1 \in Nat /\ 1 <= 1 /\ 1 <= n + 1
    BY <1>1
  <2> QED
    BY <1>1, <2>1, SubSeqAt
<1>4. \A k \in 1..n : k \in 1..n - 1 + 1 /\ 1 + k - 1 = k
  BY <1>1
<1> QED
  BY <1>1, <1>2, <1>3, <1>4

LEMMA RawIs ==
    ASSUME NEW s \in Seq(Byte), NEW p \in 1..Len(s), s[p] = Start,
           \A k \in 1..p - 1 : s[k] # Start,
           NEW n \in p..Len(s), s[n] = End, \A k \in p..n - 1 : s[k] # End
    PROVE  /\ Raw(s) \in Seq(Byte) /\ Len(Raw(s)) = n - p + 1
           /\ \A k \in 1..n - p + 1 : Raw(s)[k] = s[p + k - 1]
<1> DEFINE t == SubSeq(s, p, Len(s))
<1>1. Len(s) \in Nat /\ n \in Nat /\ p \in Nat /\ 1 <= p /\ p <= n /\ n <= Len(s)
  BY LenProperties
<1>2. Raw(s) = UpToEnd(t)
  <2>1. Places(s, Start) # {} /\ Min(Places(s, Start)) = p
    BY FirstIs
  <2>2. p # 0
    BY <1>1
  <2> QED
    BY <2>1, <2>2, RawIsUpToEnd
<1>3. /\ t \in Seq(Byte) /\ Len(t) = Len(s) - p + 1
      /\ \A k \in 1..Len(s) - p + 1 : t[k] = s[p + k - 1]
  <2>1. p <= Len(s) + 1 /\ Len(s) <= Len(s)
    BY <1>1
  <2> QED
    BY <1>1, <2>1, SubSeqAt
<1> HIDE DEF t
<1>4. n - p + 1 \in 1..Len(t) /\ n - p + 1 \in 1..Len(s) - p + 1 /\ p + (n - p + 1) - 1 = n
  BY <1>1, <1>3
<1>5. t[n - p + 1] = End
  BY <1>3, <1>4
<1>6. \A k \in 1..(n - p + 1) - 1 : t[k] # End
  <2> TAKE k \in 1..(n - p + 1) - 1
  <2>1. k \in 1..Len(s) - p + 1 /\ p + k - 1 \in p..n - 1
    BY <1>1
  <2> QED
    BY <1>3, <2>1
<1>7. /\ UpToEnd(t) \in Seq(Byte) /\ Len(UpToEnd(t)) = n - p + 1
      /\ \A k \in 1..n - p + 1 : UpToEnd(t)[k] = t[k]
  BY <1>3, <1>4, <1>5, <1>6, UpToEndIs
<1>8. \A k \in 1..n - p + 1 : k \in 1..Len(s) - p + 1
  BY <1>1
<1> QED
  BY <1>2, <1>3, <1>7, <1>8

\* Nothing is skipped in front of a start character.
LEMMA RawFromStart ==
    ASSUME NEW s \in Seq(Byte), Len(s) > 0, s[1] = Start
    PROVE  Raw(s) = UpToEnd(s)
<1>1. Len(s) \in Nat /\ 1 \in 1..Len(s) /\ \A k \in 1..1 - 1 : s[k] # Start
  BY LenProperties
<1>2. Places(s, Start) # {} /\ Min(Places(s, Start)) = 1
  BY <1>1, FirstIs
<1>3. SubSeq(s, 1, Len(s)) = s
  BY SubSeqFull
<1> QED
  <2>1. Raw(s) = UpToEnd(SubSeq(s, 1, Len(s)))
    BY <1>2, RawIsUpToEnd
  <2> QED
    BY <1>3, <2>1

\* A frame at the beginning of the line is read as it is.
LEMMA UpToEndWhole ==
    ASSUME NEW f \in Frames, NEW s \in Seq(Byte), Len(s) >= Width(f),
           \A k \in 1..Width(f) : s[k] = Encode(f)[k]
    PROVE  UpToEnd(s) = Encode(f) /\ Raw(s) = Encode(f)
<1> DEFINE e == Encode(f)
           n == Width(f)
<1>1. /\ e \in Seq(Byte) /\ Len(e) = n /\ n \in Nat /\ n >= 18
      /\ e[1] = Start /\ e[n] = End /\ \A k \in 2..n - 1 : e[k] \in Letter
  BY FrameHas
<1>2. Len(s) \in Nat /\ Len(s) >= n /\ \A k \in 1..n : s[k] = e[k]
  BY LenProperties
<1> HIDE DEF e, n
<1>3. n \in 1..Len(s) /\ s[n] = End /\ s[1] = Start
  BY <1>1, <1>2
<1>4. \A k \in 1..n - 1 : s[k] # End
  <2> TAKE k \in 1..n - 1
  <2>1. CASE k = 1
    BY <1>3, <2>1 DEF Start, End
  <2>2. CASE k # 1
    <3>1. k \in 2..n - 1 /\ k \in 1..n
      BY <1>1, <2>2
    <3> QED
      BY <1>1, <1>2, <3>1, LetterIs
  <2> QED
    BY <2>1, <2>2
<1>5. /\ UpToEnd(s) \in Seq(Byte) /\ Len(UpToEnd(s)) = n
      /\ \A k \in 1..n : UpToEnd(s)[k] = s[k]
  BY <1>3, <1>4, UpToEndIs
<1>6. UpToEnd(s) = e
  <2>1. Len(UpToEnd(s)) = Len(e) /\ \A k \in 1..Len(UpToEnd(s)) : UpToEnd(s)[k] = e[k]
    BY <1>1, <1>2, <1>5
  <2> QED
    BY <1>1, <1>5, <2>1, SeqEqual
<1>7. Raw(s) = UpToEnd(s)
  <2>1. Len(s) > 0
    BY <1>1, <1>2
  <2> QED
    BY <1>3, <2>1, RawFromStart
<1> QED
  BY <1>6, <1>7 DEF e

LEMMA ReadTo ==
    ASSUME NEW t \in Seq(Byte), NEW n \in 2..Len(t), t[1] = Start, t[n] = End,
           \A k \in 2..n - 1 : t[k] # End
    PROVE  /\ Raw(t) = UpToEnd(t)
           /\ UpToEnd(t) \in Seq(Byte) /\ Len(UpToEnd(t)) = n
           /\ \A k \in 1..n : UpToEnd(t)[k] = t[k]
<1>1. Len(t) \in Nat /\ Len(t) > 0 /\ n \in 1..Len(t) /\ n \in Nat
  BY LenProperties
<1>2. \A k \in 1..n - 1 : t[k] # End
  <2> TAKE k \in 1..n - 1
  <2>1. CASE k = 1
    BY <2>1 DEF Start, End
  <2>2. CASE k # 1
    <3>1. k \in 2..n - 1
      BY <1>1, <2>2
    <3> QED
      BY <3>1
  <2> QED
    BY <2>1, <2>2
<1> QED
  BY <1>1, <1>2, UpToEndIs, RawFromStart

LEMMA CoveredSame ==
    ASSUME NEW f \in Frames, NEW raw \in Seq(Byte), Len(raw) = Width(f),
           \A k \in 2..Width(f) - 5 : raw[k] = Encode(f)[k]
    PROVE  Covered(raw) = Body(f)
<1> DEFINE n == Width(f)
           b == Body(f)
           c == Covered(raw)
<1>1. /\ n \in Nat /\ n >= 18 /\ b \in Seq(Byte) /\ Len(b) = n - 6
      /\ \A k \in 1..n - 6 : b[k] = Encode(f)[k + 1]
  BY FrameHas
<1>2. c \in Seq(Byte) /\ Len(c) = Len(raw) - 6 /\ \A k \in 1..Len(raw) - 6 : c[k] = raw[k + 1]
  <2>1. Len(raw) >= 6
    BY <1>1
  <2> QED
    BY <2>1, CoveredIs
<1>3. Len(raw) = n /\ \A k \in 2..n - 5 : raw[k] = Encode(f)[k]
  OBVIOUS
<1> HIDE DEF n, b, c
<1>4. Len(c) = Len(b)
  BY <1>1, <1>2, <1>3
<1>5. \A k \in 1..Len(c) : c[k] = b[k]
  <2> SUFFICES ASSUME NEW k \in 1..n - 6 PROVE c[k] = b[k]
    BY <1>2, <1>3
  <2>1. k + 1 \in 2..n - 5
    BY <1>1
  <2> QED
    BY <1>1, <1>2, <1>3, <2>1
<1>6. c = b
  BY <1>1, <1>2, <1>4, <1>5, SeqEqual
<1> QED
  BY <1>6 DEF b, c

\* The two frames on the line
Both(f, g) == Encode(f) \o Encode(g)

LEMMA BothAre ==
    ASSUME NEW f \in Frames, NEW g \in Frames
    PROVE  /\ Both(f, g) \in Seq(Byte) /\ Len(Both(f, g)) = Width(f) + Width(g)
           /\ \A k \in 1..Width(f) : Both(f, g)[k] = Encode(f)[k]
           /\ \A k \in 1..Width(g) : Both(f, g)[Width(f) + k] = Encode(g)[k]
<1> DEFINE s == Encode(f)
           t == Encode(g)
<1>1. s \in Seq(Byte) /\ t \in Seq(Byte)
  BY FrameHas
<1>2. Len(s) = Width(f) /\ Len(t) = Width(g)
  BY FrameHas
<1>3. Both(f, g) = s \o t
  BY DEF Both
<1> HIDE DEF s, t
<1>4. /\ s \o t \in Seq(Byte) /\ Len(s \o t) = Len(s) + Len(t)
      /\ \A k \in 1..Len(s) : (s \o t)[k] = s[k]
      /\ \A k \in 1..Len(t) : (s \o t)[Len(s) + k] = t[k]
  BY <1>1, ConcatIs
<1> QED
  BY <1>2, <1>3, <1>4 DEF s, t

\* What is in front of a start character is skipped.
LEMMA FrameRead ==
    ASSUME NEW g \in Frames, NEW t \in Seq(Byte), NEW q \in Nat, Len(t) >= q + Width(g),
           \A k \in 1..q : t[k] # Start,
           \A k \in 1..Width(g) : t[q + k] = Encode(g)[k]
    PROVE  Decode(Raw(t)) = g
<1> DEFINE e == Encode(g)
           n == Width(g)
<1>1. /\ e \in Seq(Byte) /\ Len(e) = n /\ n \in Nat /\ n >= 18
      /\ e[1] = Start /\ e[n] = End /\ \A k \in 2..n - 1 : e[k] \in Letter
  BY FrameHas
<1>2. Len(t) \in Nat /\ Len(t) >= q + n /\ \A k \in 1..n : t[q + k] = e[k]
  BY LenProperties
<1>3. Decode(e) = g
  BY WholeFrame
<1> HIDE DEF e, n
<1>4. /\ q + 1 \in 1..Len(t) /\ q + n \in q + 1..Len(t) /\ t[q + 1] = Start /\ t[q + n] = End
      /\ q + n - (q + 1) + 1 = n
  <2>1. 1 \in 1..n /\ n \in 1..n
    BY <1>1
  <2> QED
    BY <1>1, <1>2, <2>1
<1>5. \A k \in 1..(q + 1) - 1 : t[k] # Start
  OBVIOUS
<1>6. \A k \in q + 1..(q + n) - 1 : t[k] # End
  <2> TAKE k \in q + 1..(q + n) - 1
  <2>1. k - q \in 1..n /\ q + (k - q) = k /\ (k - q # 1 => k - q \in 2..n - 1)
    BY <1>1
  <2>2. t[k] = e[k - q]
    BY <1>2, <2>1
  <2>3. e[k - q] # End
    <3>1. CASE k - q = 1
      BY <1>1, <3>1 DEF Start, End
    <3>2. CASE k - q # 1
      BY <1>1, <2>1, <3>2, LetterIs
    <3> QED
      BY <3>1, <3>2
  <2> QED
    BY <2>2, <2>3
<1>7. /\ Raw(t) \in Seq(Byte) /\ Len(Raw(t)) = (q + n) - (q + 1) + 1
      /\ \A k \in 1..(q + n) - (q + 1) + 1 : Raw(t)[k] = t[(q + 1) + k - 1]
  BY <1>4, <1>5, <1>6, RawIs
<1>8. \A k \in 1..n : Raw(t)[k] = e[k]
  <2> TAKE k \in 1..n
  <2>1. (q + 1) + k - 1 = q + k /\ k \in 1..(q + n) - (q + 1) + 1
    BY <1>1
  <2> QED
    BY <1>2, <1>7, <2>1
<1>9. Raw(t) = e
  <2>1. Len(Raw(t)) = Len(e) /\ \A k \in 1..Len(Raw(t)) : Raw(t)[k] = e[k]
    BY <1>1, <1>4, <1>7, <1>8
  <2> QED
    BY <1>1, <1>7, <2>1, SeqEqual
<1> QED
  BY <1>3, <1>9

\* What is read up to its n-th character begins like the frame of f and has
\* another length.
LEMMA OtherLength ==
    ASSUME NEW f \in Frames, NEW t \in Seq(Byte), NEW n \in 2..Len(t), n # Width(f),
           t[1] = Start, t[n] = End, \A k \in 2..n - 1 : t[k] # End,
           \A k \in 2..13 : k < n => t[k] = Encode(f)[k]
    PROVE  Decode(Raw(t)) = Rejected
<1> DEFINE raw == UpToEnd(t)
<1>1. /\ Raw(t) = raw /\ raw \in Seq(Byte) /\ Len(raw) = n
      /\ \A k \in 1..n : raw[k] = t[k]
  BY ReadTo
<1> HIDE DEF raw
<1>2. /\ Width(f) \in Nat /\ Width(f) >= 18
      /\ \A k \in 2..Width(f) - 5 : Encode(f)[k] = Body(f)[k - 1]
  BY FrameHas
<1>3. ASSUME NEW k \in 1..12, Len(raw) >= 18 PROVE raw[k + 1] = Body(f)[k]
  <2>1. /\ k + 1 \in 2..13 /\ k + 1 \in 2..Width(f) - 5 /\ k + 1 < n
        /\ k + 1 \in 1..n /\ k + 1 - 1 = k
    <3>1. n \in Nat /\ n >= 18 /\ Width(f) \in Nat /\ Width(f) >= 18 /\ k \in 1..12
      BY <1>1, <1>2, <1>3
    <3> QED
      BY ONLY <3>1
  <2>2. raw[k + 1] = t[k + 1]
    BY <1>1, <2>1
  <2>3. t[k + 1] = Encode(f)[k + 1]
    BY <2>1
  <2>4. Encode(f)[k + 1] = Body(f)[k]
    BY <1>2, <2>1
  <2> QED
    BY <2>2, <2>3, <2>4
<1>4. Len(raw) # 18 + 2 * Len(f.info)
  BY <1>1 DEF Width
<1> QED
  BY <1>1, <1>3, <1>4, WrongLength
-----------------------------------------------------------------------------
(* One fault on the line.                                                  *)

LEMMA BothHas ==
    ASSUME NEW f \in Frames, NEW g \in Frames
    PROVE  /\ Both(f, g)[1] = Start /\ Both(f, g)[Width(f)] = End
           /\ \A r \in 1..Width(f) : Both(f, g)[r] = Encode(f)[r]
           /\ \A r \in 2..Width(f) - 1 : Both(f, g)[r] \in Letter
           /\ \A r \in 1..Width(g) : Both(f, g)[Width(f) + r] = Encode(g)[r]
           /\ Both(f, g)[Width(f) + 1] = Start /\ Both(f, g)[Width(f) + Width(g)] = End
           /\ \A r \in Width(f) + 2..Width(f) + Width(g) - 1 : Both(f, g)[r] \in Letter
           /\ \A r \in 1..Width(f) - 1 : Both(f, g)[r] # End
           /\ \A r \in Width(f) + 1..Width(f) + Width(g) - 1 : Both(f, g)[r] # End
           /\ \A r \in 2..Width(f) : Both(f, g)[r] # Start
<1> DEFINE l == Both(f, g)
           d == Encode(f)
           e == Encode(g)
           m == Width(f)
           n == Width(g)
<1>1. /\ m \in Nat /\ m >= 18 /\ d[1] = Start /\ d[m] = End
      /\ \A k \in 2..m - 1 : d[k] \in Letter
  BY FrameHas
<1>2. /\ n \in Nat /\ n >= 18 /\ e[1] = Start /\ e[n] = End
      /\ \A k \in 2..n - 1 : e[k] \in Letter
  BY FrameHas
<1>3. (\A k \in 1..m : l[k] = d[k]) /\ (\A k \in 1..n : l[m + k] = e[k])
  BY BothAre
<1> HIDE DEF l, d, e, m, n
<1>4. l[1] = Start /\ l[m] = End
  BY <1>1, <1>3
<1>5. \A r \in 2..m - 1 : l[r] \in Letter
  BY <1>1, <1>3
<1>6. l[m + 1] = Start /\ l[m + n] = End
  <2>1. 1 \in 1..n /\ n \in 1..n
    BY <1>2
  <2> QED
    BY <1>2, <1>3, <2>1
<1>7. \A r \in m + 2..m + n - 1 : l[r] \in Letter
  <2> TAKE r \in m + 2..m + n - 1
  <2>1. r - m \in 2..n - 1 /\ r - m \in 1..n /\ m + (r - m) = r
    BY <1>1, <1>2
  <2> QED
    BY <1>2, <1>3, <2>1
<1>8. Start # End
  BY DEF Start, End
<1>9. \A r \in 1..m - 1 : l[r] # End
  <2> TAKE r \in 1..m - 1
  <2>1. CASE r = 1
    BY <1>4, <1>8, <2>1
  <2>2. CASE r # 1
    <3>1. r \in 2..m - 1
      BY <1>1, <2>2
    <3> QED
      BY <1>5, <3>1, LetterIs
  <2> QED
    BY <2>1, <2>2
<1>10. \A r \in m + 1..m + n - 1 : l[r] # End
  <2> TAKE r \in m + 1..m + n - 1
  <2>1. CASE r = m + 1
    BY <1>6, <1>8, <2>1
  <2>2. CASE r # m + 1
    <3>1. r \in m + 2..m + n - 1
      BY <1>1, <1>2, <2>2
    <3> QED
      BY <1>7, <3>1, LetterIs
  <2> QED
    BY <2>1, <2>2
<1>11. \A r \in 2..m : l[r] # Start
  <2> TAKE r \in 2..m
  <2>1. CASE r = m
    BY <1>4, <1>8, <2>1
  <2>2. CASE r # m
    <3>1. r \in 2..m - 1
      BY <1>1, <2>2
    <3> QED
      BY <1>5, <3>1, LetterIs
  <2> QED
    BY <2>1, <2>2
<1> QED
  BY <1>3, <1>4, <1>5, <1>6, <1>7, <1>9, <1>10, <1>11 DEF l, d, e, m, n

LEMMA StartIsForeign == ~IsHex(Start) /\ Start \notin Blanks
  BY DEF Start, IsHex, Blanks

LEMMA ChangeNoticed ==
    ASSUME NEW f \in Frames, NEW g \in Frames, NEW k \in 1..Width(f), NEW c \in Byte,
           c # Both(f, g)[k], NEW t \in Seq(Byte), Len(t) = Width(f) + Width(g),
           \A r \in 1..Len(t) : t[r] = IF r = k THEN c ELSE Both(f, g)[r]
    PROVE  /\ Decode(Raw(t)) \in {f, g, Rejected}
           /\ c # End => PythonDecode(UpToEnd(t)) \subseteq {f, Rejected}
<1> DEFINE l == Both(f, g)
           m == Width(f)
           n == Width(g)
           e == Encode(f)
<1>1. m \in Nat /\ m >= 18 /\ n \in Nat /\ n >= 18
  BY FrameHas
<1>2. /\ l[1] = Start /\ l[m] = End /\ l[m + 1] = Start /\ l[m + n] = End
      /\ \A r \in 1..m - 1 : l[r] # End
      /\ \A r \in m + 1..m + n - 1 : l[r] # End
      /\ \A r \in 2..m : l[r] # Start
      /\ \A r \in 1..m : l[r] = e[r]
      /\ \A r \in 1..n : l[m + r] = Encode(g)[r]
  BY BothHas
<1>3. /\ k \in 1..m /\ c # l[k] /\ Len(t) = m + n
      /\ \A r \in 1..m + n : t[r] = IF r = k THEN c ELSE l[r]
  OBVIOUS
<1> HIDE DEF l, m, n, e
<1>4. \A r \in 1..m + n : r # k => t[r] = l[r]
  BY <1>3
<1>5. t[k] = c
  BY <1>1, <1>3
<1>6. CASE k = 1
  <2>1. Decode(Raw(t)) = g
    <3>1. \A r \in 1..m : t[r] # Start
      <4> TAKE r \in 1..m
      <4>1. r \in 1..m + n /\ (r # 1 => r \in 2..m)
        BY <1>1
      <4> QED
        BY <1>2, <1>3, <1>4, <1>5, <1>6, <4>1
    <3>2. \A r \in 1..n : t[m + r] = Encode(g)[r]
      <4> TAKE r \in 1..n
      <4>1. m + r \in 1..m + n /\ m + r # k
        BY <1>1, <1>6
      <4> QED
        BY <1>2, <1>4, <4>1
    <3>3. m \in Nat /\ Len(t) >= m + n
      BY <1>1, <1>3
    <3> QED
      BY <3>1, <3>2, <3>3, FrameRead DEF n
  <2>2. ASSUME c # End PROVE PythonDecode(UpToEnd(t)) \subseteq {f, Rejected}
    <3>1. m \in 1..Len(t) /\ t[m] = End
      <4>1. m \in 1..m + n /\ m # k
        BY <1>1, <1>6
      <4> QED
        BY <1>2, <1>3, <1>4, <4>1
    <3>2. \A r \in 1..m - 1 : t[r] # End
      <4> TAKE r \in 1..m - 1
      <4>1. r \in 1..m + n
        BY <1>1
      <4> QED
        BY <1>2, <1>4, <1>5, <2>2, <4>1
    <3>3. /\ UpToEnd(t) \in Seq(Byte) /\ Len(UpToEnd(t)) = m
          /\ \A r \in 1..m : UpToEnd(t)[r] = t[r]
      BY <3>1, <3>2, UpToEndIs
    <3>4. \A r \in 2..m - 5 : UpToEnd(t)[r] = e[r]
      <4> TAKE r \in 2..m - 5
      <4>1. r \in 1..m /\ r \in 1..m + n /\ r # k
        BY <1>1, <1>6
      <4> QED
        BY <1>2, <1>4, <3>3, <4>1
    <3>5. Covered(UpToEnd(t)) = Body(f)
      BY <3>3, <3>4, CoveredSame DEF m, e
    <3> QED
      BY <3>5, SameBody
  <2> QED
    BY <2>1, <2>2
<1>7. CASE k # 1 /\ c = End
  <2>1. k # m /\ k \in 2..m - 1 /\ k \in 2..Len(t) /\ 1 \in 1..m + n
    BY <1>1, <1>2, <1>3, <1>7
  <2>2. t[1] = Start /\ t[k] = End
    BY <1>2, <1>4, <1>5, <1>7, <2>1
  <2>3. \A r \in 2..k - 1 : t[r] # End
    <3> TAKE r \in 2..k - 1
    <3>1. r \in 1..m + n /\ r # k /\ r \in 1..m - 1
      BY <1>1, <2>1
    <3> QED
      BY <1>2, <1>4, <3>1
  <2>4. \A r \in 2..13 : r < k => t[r] = e[r]
    <3> SUFFICES ASSUME NEW r \in 2..13, r < k PROVE t[r] = e[r]
      OBVIOUS
    <3>1. r \in 1..m + n /\ r # k /\ r \in 1..m
      BY <1>1, <2>1
    <3> QED
      BY <1>2, <1>4, <3>1
  <2>5. Decode(Raw(t)) = Rejected
    BY <2>1, <2>2, <2>3, <2>4, OtherLength DEF m, e
  <2> QED
    BY <1>7, <2>5
<1>8. CASE k # 1 /\ k # m /\ c # End
  <2>1. k \in 2..m - 1 /\ m \in 2..Len(t) /\ 1 \in 1..m + n /\ m \in 1..m + n
    BY <1>1, <1>3, <1>8
  <2>2. t[1] = Start /\ t[m] = End
    BY <1>2, <1>4, <1>8, <2>1
  <2>3. \A r \in 2..m - 1 : t[r] # End
    <3> TAKE r \in 2..m - 1
    <3>1. r \in 1..m + n /\ r \in 1..m - 1
      BY <1>1
    <3> QED
      BY <1>2, <1>4, <1>5, <1>8, <3>1
  <2> DEFINE raw == UpToEnd(t)
  <2>4. /\ Raw(t) = raw /\ raw \in Seq(Byte) /\ Len(raw) = m
        /\ \A r \in 1..m : raw[r] = t[r]
    BY <2>1, <2>2, <2>3, ReadTo
  <2> HIDE DEF raw
  <2>5. \A r \in 1..m : r # k => raw[r] = e[r]
    <3> SUFFICES ASSUME NEW r \in 1..m, r # k PROVE raw[r] = e[r]
      OBVIOUS
    <3>1. r \in 1..m + n
      BY <1>1
    <3> QED
      BY <1>2, <1>4, <2>4, <3>1
  <2>6. raw[k] # e[k]
    BY <1>2, <1>3, <1>5, <2>4
  <2>7. CASE k <= m - 5
    <3>1. k \in 2..m - 5
      BY <1>1, <2>1, <2>7
    <3>2. Decode(raw) = Rejected /\ PythonDecode(raw) = {Rejected}
      BY <2>4, <2>5, <2>6, <3>1, OneChanged DEF m, e
    <3> QED
      BY <2>4, <3>2 DEF raw
  <2>8. CASE ~(k <= m - 5)
    <3>1. \A r \in 2..m - 5 : raw[r] = e[r]
      <4> TAKE r \in 2..m - 5
      <4>1. r \in 1..m /\ r # k
        BY <1>1, <2>1, <2>8
      <4> QED
        BY <2>5, <4>1
    <3>2. Covered(raw) = Body(f)
      BY <2>4, <3>1, CoveredSame DEF m, e
    <3>3. Decode(raw) \in {f, Rejected} /\ PythonDecode(raw) \subseteq {f, Rejected}
      BY <3>2, SameBody
    <3> QED
      BY <2>4, <3>3 DEF raw
  <2> QED
    BY <2>7, <2>8
<1>9. CASE k = m /\ c # End
  <2>1. m + n \in 2..Len(t) /\ 1 \in 1..m + n /\ 1 # k /\ m + n # k /\ m + n \in 1..m + n
    BY <1>1, <1>3, <1>9
  <2>2. t[1] = Start /\ t[m + n] = End
    BY <1>2, <1>4, <2>1
  <2>3. \A r \in 2..(m + n) - 1 : t[r] # End
    <3> TAKE r \in 2..(m + n) - 1
    <3>1. /\ r \in 1..m + n
          /\ (r # k => r \in 1..m - 1 \/ r \in m + 1..m + n - 1)
      BY <1>1, <1>9
    <3> QED
      BY <1>2, <1>4, <1>5, <1>9, <3>1
  <2>4. \A r \in 2..13 : r < m + n => t[r] = e[r]
    <3> TAKE r \in 2..13
    <3>1. r \in 1..m + n /\ r # k /\ r \in 1..m
      <4>1. m \in Nat /\ m >= 18 /\ n \in Nat /\ k = m /\ r \in 2..13
        BY <1>1, <1>9
      <4> QED
        BY ONLY <4>1
    <3> QED
      BY <1>2, <1>4, <3>1
  <2>5. Decode(Raw(t)) = Rejected
    <3>1. m + n # m
      BY <1>1
    <3> QED
      BY <2>1, <2>2, <2>3, <2>4, <3>1, OtherLength DEF m, e
  <2> DEFINE raw == UpToEnd(t)
  <2>6. raw \in Seq(Byte) /\ Len(raw) = m + n /\ \A r \in 1..m + n : raw[r] = t[r]
    BY <2>1, <2>2, <2>3, ReadTo
  <2> HIDE DEF raw
  <2>7. m + 1 \in 2..Len(raw) - 5 /\ raw[m + 1] = Start
    <3>1. m + 1 \in 2..Len(raw) - 5 /\ m + 1 \in 1..m + n /\ m + 1 # k
      BY <1>1, <1>9, <2>6
    <3> QED
      BY <1>2, <1>4, <2>6, <3>1
  <2>8. PythonDecode(raw) = {Rejected}
    BY <2>6, <2>7, StartIsForeign, PythonForeign
  <2> QED
    BY <2>5, <2>8 DEF raw
<1> QED
  BY <1>6, <1>7, <1>8, <1>9

LEMMA LossNoticed ==
    ASSUME NEW f \in Frames, NEW g \in Frames, NEW k \in 1..Width(f),
           NEW t \in Seq(Byte), Len(t) = Width(f) + Width(g) - 1,
           \A r \in 1..Len(t) : t[r] = IF r < k THEN Both(f, g)[r] ELSE Both(f, g)[r + 1]
    PROVE  /\ Decode(Raw(t)) \in {g, Rejected}
           /\ PythonDecode(UpToEnd(t)) = {Rejected}
<1> DEFINE l == Both(f, g)
           m == Width(f)
           n == Width(g)
           e == Encode(f)
<1>1. /\ m \in Nat /\ m >= 18 /\ n \in Nat /\ n >= 18 /\ m % 2 = 0
      /\ \A r \in 2..m - 1 : e[r] \in Letter
  BY FrameHas
<1>2. /\ l[1] = Start /\ l[m] = End /\ l[m + 1] = Start /\ l[m + n] = End
      /\ \A r \in 1..m - 1 : l[r] # End
      /\ \A r \in m + 1..m + n - 1 : l[r] # End
      /\ \A r \in 2..m : l[r] # Start
      /\ \A r \in 1..m : l[r] = e[r]
      /\ \A r \in 1..n : l[m + r] = Encode(g)[r]
  BY BothHas
<1>3. /\ k \in 1..m /\ Len(t) = m + n - 1
      /\ \A r \in 1..m + n - 1 : t[r] = IF r < k THEN l[r] ELSE l[r + 1]
  OBVIOUS
<1> HIDE DEF l, m, n, e
<1>4. \A r \in 1..m + n - 1 : r < k => t[r] = l[r]
  BY <1>3
<1>5. \A r \in 1..m + n - 1 : ~(r < k) => t[r] = l[r + 1]
  BY <1>3
<1>6. CASE k = 1
  <2>1. Decode(Raw(t)) = g
    <3>1. \A r \in 1..m - 1 : t[r] # Start
      <4> TAKE r \in 1..m - 1
      <4>1. r \in 1..m + n - 1 /\ ~(r < k) /\ r + 1 \in 2..m
        BY <1>1, <1>6
      <4> QED
        BY <1>2, <1>5, <4>1
    <3>2. \A r \in 1..n : t[(m - 1) + r] = Encode(g)[r]
      <4> TAKE r \in 1..n
      <4>1. (m - 1) + r \in 1..m + n - 1 /\ ~((m - 1) + r < k) /\ (m - 1) + r + 1 = m + r
        BY <1>1, <1>6
      <4> QED
        BY <1>2, <1>5, <4>1
    <3>3. m - 1 \in Nat /\ Len(t) >= (m - 1) + n
      BY <1>1, <1>3
    <3> QED
      BY <3>1, <3>2, <3>3, FrameRead DEF n
  <2>2. PythonDecode(UpToEnd(t)) = {Rejected}
    <3>1. m - 1 \in 1..Len(t) /\ t[m - 1] = End
      <4>1. m - 1 \in 1..m + n - 1 /\ ~(m - 1 < k) /\ m - 1 + 1 = m
        BY <1>1, <1>6
      <4> QED
        BY <1>2, <1>3, <1>5, <4>1
    <3>2. \A r \in 1..(m - 1) - 1 : t[r] # End
      <4> TAKE r \in 1..(m - 1) - 1
      <4>1. r \in 1..m + n - 1 /\ ~(r < k) /\ r + 1 \in 1..m - 1
        BY <1>1, <1>6
      <4> QED
        BY <1>2, <1>5, <4>1
    <3> DEFINE raw == UpToEnd(t)
    <3>3. raw \in Seq(Byte) /\ Len(raw) = m - 1 /\ \A r \in 1..m - 1 : raw[r] = t[r]
      BY <3>1, <3>2, UpToEndIs
    <3> HIDE DEF raw
    <3>4. \A r \in 1..m - 1 : raw[r] = IF r < 1 THEN e[r] ELSE e[r + 1]
      <4> TAKE r \in 1..m - 1
      <4>1. r \in 1..m + n - 1 /\ ~(r < k) /\ ~(r < 1) /\ r + 1 \in 1..m
        BY <1>1, <1>6
      <4> QED
        BY <1>2, <1>5, <3>3, <4>1
    <3>5. 1 \in 1..m - 5
      BY <1>1
    <3>6. PythonDecode(raw) = {Rejected}
      BY <3>3, <3>4, <3>5, OneLost DEF m, e
    <3> QED
      BY <3>6 DEF raw
  <2> QED
    BY <2>1, <2>2
<1>7. CASE k # 1 /\ k # m
  <2>1. /\ k \in 2..m - 1 /\ m - 1 \in 2..Len(t) /\ 1 \in 1..m + n - 1 /\ 1 < k
        /\ m - 1 \in 1..m + n - 1 /\ ~(m - 1 < k) /\ m - 1 + 1 = m
    BY <1>1, <1>3, <1>7
  <2>2. t[1] = Start /\ t[m - 1] = End
    BY <1>2, <1>4, <1>5, <2>1
  <2>3. \A r \in 2..(m - 1) - 1 : t[r] # End
    <3> TAKE r \in 2..(m - 1) - 1
    <3>1. r \in 1..m + n - 1 /\ r \in 1..m - 1 /\ r + 1 \in 1..m - 1
      BY <1>1
    <3> QED
      BY <1>2, <1>4, <1>5, <3>1
  <2> DEFINE raw == UpToEnd(t)
  <2>4. /\ Raw(t) = raw /\ raw \in Seq(Byte) /\ Len(raw) = m - 1
        /\ \A r \in 1..m - 1 : raw[r] = t[r]
    BY <2>1, <2>2, <2>3, ReadTo
  <2> HIDE DEF raw
  <2>5. \A r \in 1..m - 1 : raw[r] = IF r < k THEN e[r] ELSE e[r + 1]
    <3> TAKE r \in 1..m - 1
    <3>1. r \in 1..m + n - 1 /\ r \in 1..m /\ r + 1 \in 1..m
      BY <1>1
    <3> QED
      BY <1>2, <1>3, <2>4, <3>1
  <2>6. CASE k <= m - 5
    <3>1. k \in 1..m - 5
      BY <1>1, <2>1, <2>6
    <3>2. Decode(raw) = Rejected /\ PythonDecode(raw) = {Rejected}
      BY <2>4, <2>5, <3>1, OneLost DEF m, e
    <3> QED
      BY <2>4, <3>2 DEF raw
  <2>7. CASE ~(k <= m - 5)
    <3>1. Decode(Raw(t)) = Rejected
      <4>1. \A r \in 2..13 : r < m - 1 => t[r] = e[r]
        <5> SUFFICES ASSUME NEW r \in 2..13 PROVE t[r] = e[r]
          OBVIOUS
        <5>1. r \in 1..m + n - 1 /\ r < k /\ r \in 1..m
          <6>1. m \in Nat /\ m >= 18 /\ n \in Nat /\ k \in 2..m - 1 /\ ~(k <= m - 5)
            BY <1>1, <2>1, <2>7
          <6> QED
            BY ONLY <6>1, r \in 2..13
        <5> QED
          BY <1>2, <1>4, <5>1
      <4>2. m - 1 # m
        BY <1>1
      <4> QED
        BY <2>1, <2>2, <2>3, <4>1, <4>2, OtherLength DEF m, e
    <3>2. PythonDecode(raw) = {Rejected}
      <4>1. \A r \in 2..Len(raw) - 5 : raw[r] \in Letter
        <5> TAKE r \in 2..Len(raw) - 5
        <5>1. r \in 1..m - 1 /\ r < k /\ r \in 2..m - 1
          BY <1>1, <2>1, <2>4, <2>7
        <5> QED
          BY <1>1, <2>5, <5>1
      <4>2. m \in Nat /\ m >= 18 /\ m % 2 = 0
        BY <1>1
      <4>3. m - 1 >= 6 /\ (m - 1) % 2 = 1
        BY ONLY <4>2
      <4>4. Len(raw) >= 6 /\ Len(raw) % 2 = 1
        BY <2>4, <4>3
      <4> QED
        BY <2>4, <4>1, <4>4, PythonOdd
    <3> QED
      BY <3>1, <3>2 DEF raw
  <2> QED
    BY <2>6, <2>7
<1>8. CASE k = m
  <2>1. /\ m + n - 1 \in 2..Len(t) /\ 1 \in 1..m + n - 1 /\ 1 < k /\ m + n - 1 \in 1..m + n - 1
        /\ ~(m + n - 1 < k) /\ m + n - 1 + 1 = m + n
    BY <1>1, <1>3, <1>8
  <2>2. t[1] = Start /\ t[m + n - 1] = End
    BY <1>2, <1>4, <1>5, <2>1
  <2>3. \A r \in 2..(m + n - 1) - 1 : t[r] # End
    <3> TAKE r \in 2..(m + n - 1) - 1
    <3>1. r \in 1..m + n - 1
      BY <1>1
    <3>2. CASE r < k
      <4>1. r \in 1..m - 1
        BY <1>1, <1>8, <3>2
      <4> QED
        BY <1>2, <1>4, <3>1, <3>2, <4>1
    <3>3. CASE ~(r < k)
      <4>1. r + 1 \in m + 1..m + n - 1
        BY <1>1, <1>8, <3>3
      <4> QED
        BY <1>2, <1>5, <3>1, <3>3, <4>1
    <3> QED
      BY <3>2, <3>3
  <2>4. \A r \in 2..13 : r < m + n - 1 => t[r] = e[r]
    <3> TAKE r \in 2..13
    <3>1. r \in 1..m + n - 1 /\ r < k /\ r \in 1..m
      <4>1. m \in Nat /\ m >= 18 /\ n \in Nat /\ n >= 18 /\ k = m /\ r \in 2..13
        BY <1>1, <1>8
      <4> QED
        BY ONLY <4>1
    <3> QED
      BY <1>2, <1>4, <3>1
  <2>5. Decode(Raw(t)) = Rejected
    <3>1. m + n - 1 # m
      BY <1>1
    <3> QED
      BY <2>1, <2>2, <2>3, <2>4, <3>1, OtherLength DEF m, e
  <2> DEFINE raw == UpToEnd(t)
  <2>6. /\ raw \in Seq(Byte) /\ Len(raw) = m + n - 1
        /\ \A r \in 1..m + n - 1 : raw[r] = t[r]
    BY <2>1, <2>2, <2>3, ReadTo
  <2> HIDE DEF raw
  <2>7. m \in 2..Len(raw) - 5 /\ raw[m] = Start
    <3>1. m \in 2..Len(raw) - 5 /\ m \in 1..m + n - 1 /\ ~(m < k)
      BY <1>1, <1>8, <2>6
    <3> QED
      BY <1>2, <1>5, <2>6, <3>1
  <2>8. PythonDecode(raw) = {Rejected}
    BY <2>6, <2>7, StartIsForeign, PythonForeign
  <2> QED
    BY <2>5, <2>8 DEF raw
<1> QED
  BY <1>6, <1>7, <1>8

LEMMA AddNoticed ==
    ASSUME NEW f \in Frames, NEW g \in Frames, NEW k \in 1..Width(f), NEW c \in Byte,
           NEW t \in Seq(Byte), Len(t) = Width(f) + Width(g) + 1,
           \A r \in 1..Len(t) :
              t[r] = IF r < k THEN Both(f, g)[r] ELSE IF r = k THEN c ELSE Both(f, g)[r - 1]
    PROVE  /\ Decode(Raw(t)) \in {f, Rejected}
           /\ c # End => PythonDecode(UpToEnd(t)) = {Rejected}
<1> DEFINE l == Both(f, g)
           m == Width(f)
           n == Width(g)
           e == Encode(f)
<1>1. /\ m \in Nat /\ m >= 18 /\ n \in Nat /\ n >= 18 /\ m % 2 = 0
      /\ \A r \in 2..m - 1 : e[r] \in Letter
  BY FrameHas
<1>2. /\ l[1] = Start /\ l[m] = End
      /\ \A r \in 1..m - 1 : l[r] # End
      /\ \A r \in 1..m : l[r] = e[r]
  BY BothHas
<1>3. /\ k \in 1..m /\ Len(t) = m + n + 1
      /\ \A r \in 1..m + n + 1 : t[r] = IF r < k THEN l[r] ELSE IF r = k THEN c ELSE l[r - 1]
  OBVIOUS
<1>4. e \in Seq(Byte) /\ Len(e) = m /\ e[m] = End /\ Decode(e) = f
  BY FrameHas, WholeFrame
<1> HIDE DEF l, m, n, e
<1>5. \A r \in 1..m : /\ r < k => t[r] = e[r]
                      /\ r = k => t[r] = c
                      /\ ~(r < k) => t[r + 1] = e[r]
  <2> TAKE r \in 1..m
  <2>1. /\ r \in 1..m + n + 1 /\ r + 1 \in 1..m + n + 1 /\ r + 1 - 1 = r
        /\ (~(r < k) => ~(r + 1 < k) /\ r + 1 # k) /\ (r = k => ~(r < k))
    BY <1>1, <1>3
  <2> QED
    BY <1>2, <1>3, <2>1
<1>6. \A r \in 1..m - 1 : e[r] # End
  BY <1>1, <1>2
<1>7. \A r \in 1..m + 1 : t[r] = IF r < k THEN e[r] ELSE IF r = k THEN c ELSE e[r - 1]
  <2> TAKE r \in 1..m + 1
  <2>1. CASE r < k
    <3>1. r \in 1..m
      BY <1>1, <1>3, <2>1
    <3> QED
      BY <1>5, <2>1, <3>1
  <2>2. CASE r = k
    BY <1>1, <1>3, <1>5, <2>2
  <2>3. CASE ~(r < k) /\ r # k
    <3>1. r - 1 \in 1..m /\ ~(r - 1 < k) /\ r - 1 + 1 = r
      BY <1>1, <1>3, <2>3
    <3> QED
      BY <1>5, <2>3, <3>1
  <2> QED
    BY <2>1, <2>2, <2>3
<1>8. ASSUME c # End
      PROVE  /\ m + 1 \in 1..Len(t) /\ t[m + 1] = End
             /\ \A r \in 1..(m + 1) - 1 : t[r] # End
  <2>1. m + 1 \in 1..Len(t) /\ m + 1 \in 1..m + 1 /\ ~(m + 1 < k) /\ m + 1 # k /\ m + 1 - 1 = m
    BY <1>1, <1>3
  <2>2. t[m + 1] = End
    BY <1>4, <1>7, <2>1
  <2>3. \A r \in 1..(m + 1) - 1 : t[r] # End
    <3> TAKE r \in 1..(m + 1) - 1
    <3>1. /\ r \in 1..m + 1 /\ (r < k => r \in 1..m - 1)
          /\ (~(r < k) /\ r # k => r - 1 \in 1..m - 1)
      BY <1>1, <1>3
    <3> QED
      BY <1>6, <1>7, <1>8, <3>1
  <2> QED
    BY <2>1, <2>2, <2>3
<1> DEFINE raw == UpToEnd(t)
<1>9. ASSUME c # End
      PROVE  /\ raw \in Seq(Byte) /\ Len(raw) = m + 1
             /\ \A r \in 1..m + 1 : raw[r] = t[r]
  BY <1>8, <1>9, UpToEndIs
<1>10. ASSUME c # End, k <= m - 4, k = 1 \/ c # 0
       PROVE  Decode(raw) = Rejected /\ PythonDecode(raw) = {Rejected}
  <2> HIDE DEF raw
  <2>1. k \in 1..m - 4
    BY <1>1, <1>3, <1>10
  <2>2. \A r \in 1..m + 1 : raw[r] = IF r < k THEN e[r] ELSE IF r = k THEN c ELSE e[r - 1]
    BY <1>7, <1>9, <1>10
  <2>3. raw \in Seq(Byte) /\ Len(raw) = m + 1
    BY <1>9, <1>10
  <2> QED
    BY <1>10, <2>1, <2>2, <2>3, OneAdded DEF m, e
<1>11. ASSUME k # 1 PROVE t[1] = Start
  <2>1. 1 \in 1..m /\ 1 < k
    BY <1>1, <1>3, <1>11
  <2> QED
    BY <1>2, <1>5, <2>1
<1>12. CASE k = 1
  <2>1. Decode(Raw(t)) \in {f, Rejected}
    <3>1. CASE c = Start
      <4>1. c # End /\ k <= m - 4
        BY <1>1, <1>12, <3>1 DEF Start, End
      <4>2. Len(t) > 0 /\ t[1] = Start
        BY <1>1, <1>3, <1>5, <1>12, <3>1
      <4>3. Raw(t) = raw
        BY <4>2, RawFromStart
      <4> QED
        BY <1>10, <1>12, <4>1, <4>3
    <3>2. CASE c # Start
      <4>1. \A r \in 1..1 : t[r] # Start
        BY <1>1, <1>5, <1>12, <3>2
      <4>2. \A r \in 1..m : t[1 + r] = e[r]
        <5> TAKE r \in 1..m
        <5>1. ~(r < k) /\ 1 + r = r + 1
          BY <1>1, <1>12
        <5> QED
          BY <1>5, <5>1
      <4>3. 1 \in Nat /\ Len(t) >= 1 + m
        BY <1>1, <1>3
      <4>4. Decode(Raw(t)) = f
        BY <4>1, <4>2, <4>3, FrameRead DEF m, e
      <4> QED
        BY <4>4
    <3> QED
      BY <3>1, <3>2
  <2>2. ASSUME c # End PROVE PythonDecode(UpToEnd(t)) = {Rejected}
    <3>1. k <= m - 4
      BY <1>1, <1>12
    <3> QED
      BY <1>10, <1>12, <2>2, <3>1
  <2> QED
    BY <2>1, <2>2
<1>13. CASE k # 1 /\ c = End
  <2>1. k \in 2..Len(t) /\ k \in 1..m
    BY <1>1, <1>3, <1>13
  <2>2. t[1] = Start /\ t[k] = End
    BY <1>5, <1>11, <1>13, <2>1
  <2>3. \A r \in 2..k - 1 : t[r] # End
    <3> TAKE r \in 2..k - 1
    <3>1. r \in 1..m - 1 /\ r \in 1..m /\ r < k
      BY <1>1, <2>1
    <3> QED
      BY <1>5, <1>6, <3>1
  <2>4. CASE k = m
    <3> HIDE DEF raw
    <3>1. Raw(t) = raw /\ raw \in Seq(Byte) /\ Len(raw) = k /\ \A r \in 1..k : raw[r] = t[r]
      BY <2>1, <2>2, <2>3, ReadTo DEF raw
    <3>2. \A r \in 1..Len(raw) : raw[r] = e[r]
      <4> SUFFICES ASSUME NEW r \in 1..m PROVE raw[r] = e[r]
        BY <2>4, <3>1
      <4>1. CASE r < k
        BY <1>5, <2>4, <3>1, <4>1
      <4>2. CASE ~(r < k)
        <5>1. r = k
          BY <1>1, <2>4, <4>2
        <5> QED
          BY <1>4, <2>2, <2>4, <3>1, <5>1
      <4> QED
        BY <4>1, <4>2
    <3>3. raw = e
      BY <1>4, <2>4, <3>1, <3>2, SeqEqual
    <3> QED
      BY <1>4, <1>13, <3>1, <3>3
  <2>5. CASE k # m
    <3>1. \A r \in 2..13 : r < k => t[r] = e[r]
      <4> SUFFICES ASSUME NEW r \in 2..13, r < k PROVE t[r] = e[r]
        OBVIOUS
      <4>1. r \in 1..m
        <5>1. m \in Nat /\ m >= 18
          BY <1>1
        <5> QED
          BY ONLY <5>1, r \in 2..13
      <4> QED
        BY <1>5, <4>1
    <3>2. Decode(Raw(t)) = Rejected
      BY <2>1, <2>2, <2>3, <2>5, <3>1, OtherLength DEF m, e
    <3> QED
      BY <1>13, <3>2
  <2> QED
    BY <2>4, <2>5
<1>14. CASE k # 1 /\ c # End
  <2>1. Raw(t) = raw
    <3>1. Len(t) > 0
      BY <1>1, <1>3
    <3> QED
      BY <1>11, <1>14, <3>1, RawFromStart
  <2>2. raw \in Seq(Byte) /\ Len(raw) = m + 1 /\ \A r \in 1..m + 1 : raw[r] = t[r]
    BY <1>9, <1>14
  <2>3. CASE k <= m - 4 /\ c # 0
    BY <1>10, <1>14, <2>1, <2>3
  <2>4. CASE k <= m - 4 /\ c = 0
    <3> HIDE DEF raw
    <3>1. k \in 2..Len(raw) - 5 /\ raw[k] = 0
      <4>1. k \in 1..m + 1 /\ k \in 1..m /\ k \in 2..Len(raw) - 5
        BY <1>1, <1>3, <1>14, <2>2, <2>4
      <4> QED
        BY <1>5, <2>2, <2>4, <4>1
    <3>2. Decode(raw) = Rejected
      BY <2>2, <3>1, ZeroRejected
    <3>3. ~IsHex(0) /\ 0 \notin Blanks
      BY DEF IsHex, Blanks
    <3>4. PythonDecode(raw) = {Rejected}
      BY <2>2, <3>1, <3>3, PythonForeign
    <3> QED
      BY <2>1, <3>2, <3>4 DEF raw
  <2>5. CASE ~(k <= m - 4)
    <3>1. Decode(Raw(t)) = Rejected
      <4>1. \A r \in 2..13 : r < m + 1 => t[r] = e[r]
        <5> TAKE r \in 2..13
        <5>1. r \in 1..m /\ r < k
          <6>1. m \in Nat /\ m >= 18 /\ k \in 1..m /\ ~(k <= m - 4)
            BY <1>1, <1>3, <2>5
          <6> QED
            BY ONLY <6>1, r \in 2..13
        <5> QED
          BY <1>5, <5>1
      <4>2. m + 1 # m /\ m + 1 \in 2..Len(t)
        BY <1>1, <1>3
      <4>3. t[m + 1] = End /\ \A r \in 2..(m + 1) - 1 : t[r] # End
        <5>1. \A r \in 2..(m + 1) - 1 : r \in 1..(m + 1) - 1
          BY <1>1
        <5> QED
          BY <1>8, <1>14, <5>1
      <4> QED
        BY <1>11, <1>14, <4>1, <4>2, <4>3, OtherLength DEF m, e
    <3>2. PythonDecode(raw) = {Rejected}
      <4> HIDE DEF raw
      <4>1. \A r \in 2..Len(raw) - 5 : raw[r] \in Letter
        <5> TAKE r \in 2..Len(raw) - 5
        <5>1. r \in 1..m + 1 /\ r \in 1..m /\ r < k /\ r \in 2..m - 1
          BY <1>1, <1>3, <2>2, <2>5
        <5> QED
          BY <1>1, <1>5, <2>2, <5>1
      <4>2. m \in Nat /\ m >= 18 /\ m % 2 = 0
        BY <1>1
      <4>3. m + 1 >= 6 /\ (m + 1) % 2 = 1
        BY ONLY <4>2
      <4>4. Len(raw) >= 6 /\ Len(raw) % 2 = 1
        BY <2>2, <4>3
      <4> QED
        BY <2>2, <4>1, <4>4, PythonOdd
    <3> QED
      BY <3>1, <3>2
  <2> QED
    BY <2>3, <2>4, <2>5
<1> QED
  BY <1>12, <1>13, <1>14
-----------------------------------------------------------------------------
(* What a step makes of the line.                                          *)

LEMMA RemoveIs ==
    ASSUME NEW s \in Seq(Byte), NEW k \in 1..Len(s)
    PROVE  /\ RemoveAt(s, k) \in Seq(Byte) /\ Len(RemoveAt(s, k)) = Len(s) - 1
           /\ \A r \in 1..Len(s) - 1 : RemoveAt(s, k)[r] = IF r < k THEN s[r] ELSE s[r + 1]
<1> DEFINE m == Len(s)
           a == SubSeq(s, 1, k - 1)
           b == SubSeq(s, k + 1, m)
<1>1. m \in Nat /\ k \in Nat /\ 1 <= k /\ k <= m
  BY LenProperties
<1>2. a \in Seq(Byte) /\ Len(a) = k - 1 /\ \A r \in 1..k - 1 : a[r] = s[r]
  <2>1. 1 \in Nat /\ k - 1 \in Nat /\ 1 <= 1 /\ 1 <= k - 1 + 1 /\ k - 1 <= m
    BY <1>1
  <2>2. /\ a \in Seq(Byte) /\ Len(a) = k - 1 - 1 + 1
        /\ \A r \in 1..k - 1 - 1 + 1 : a[r] = s[1 + r - 1]
    BY <2>1, SubSeqAt
  <2>3. k - 1 - 1 + 1 = k - 1 /\ \A r \in 1..k - 1 : 1 + r - 1 = r
    BY <1>1
  <2> QED
    BY <2>2, <2>3
<1>3. b \in Seq(Byte) /\ Len(b) = m - k /\ \A r \in 1..m - k : b[r] = s[k + r]
  <2>1. k + 1 \in Nat /\ m \in Nat /\ 1 <= k + 1 /\ k + 1 <= m + 1 /\ m <= Len(s)
    BY <1>1
  <2>2. /\ b \in Seq(Byte) /\ Len(b) = m - (k + 1) + 1
        /\ \A r \in 1..m - (k + 1) + 1 : b[r] = s[k + 1 + r - 1]
    BY <2>1, SubSeqAt
  <2>3. m - (k + 1) + 1 = m - k /\ \A r \in 1..m - k : k + 1 + r - 1 = k + r
    BY <1>1
  <2> QED
    BY <2>2, <2>3
<1>4. RemoveAt(s, k) = a \o b
  BY DEF RemoveAt
<1> HIDE DEF m, a, b
<1>5. /\ a \o b \in Seq(Byte) /\ Len(a \o b) = Len(a) + Len(b)
      /\ \A r \in 1..Len(a) : (a \o b)[r] = a[r]
      /\ \A r \in 1..Len(b) : (a \o b)[Len(a) + r] = b[r]
  BY <1>2, <1>3, ConcatIs
<1>6. Len(a \o b) = m - 1
  BY <1>1, <1>2, <1>3, <1>5
<1>7. ASSUME NEW r \in 1..m - 1 PROVE (a \o b)[r] = IF r < k THEN s[r] ELSE s[r + 1]
  <2>1. CASE r < k
    <3>1. r \in 1..k - 1
      BY <1>1, <2>1
    <3> QED
      BY <1>2, <1>5, <2>1, <3>1
  <2>2. CASE ~(r < k)
    <3>1. r - (k - 1) \in 1..m - k /\ (k - 1) + (r - (k - 1)) = r /\ k + (r - (k - 1)) = r + 1
      BY <1>1, <2>2
    <3>2. (a \o b)[(k - 1) + (r - (k - 1))] = s[k + (r - (k - 1))]
      BY <1>2, <1>3, <1>5, <3>1
    <3> QED
      BY <2>2, <3>1, <3>2
  <2> QED
    BY <2>1, <2>2
<1> QED
  BY <1>4, <1>5, <1>6, <1>7 DEF m

LEMMA InsertIs ==
    ASSUME NEW s \in Seq(Byte), NEW k \in 1..Len(s), NEW c \in Byte
    PROVE  /\ InsertAt(s, k, c) \in Seq(Byte) /\ Len(InsertAt(s, k, c)) = Len(s) + 1
           /\ \A r \in 1..Len(s) + 1 :
                 InsertAt(s, k, c)[r] = IF r < k THEN s[r] ELSE IF r = k THEN c ELSE s[r - 1]
<1> DEFINE m == Len(s)
           a == SubSeq(s, 1, k - 1)
           o == <<c>>
           b == SubSeq(s, k, m)
           ao == a \o o
<1>1. m \in Nat /\ k \in Nat /\ 1 <= k /\ k <= m
  BY LenProperties
<1>2. a \in Seq(Byte) /\ Len(a) = k - 1 /\ \A r \in 1..k - 1 : a[r] = s[r]
  <2>1. 1 \in Nat /\ k - 1 \in Nat /\ 1 <= 1 /\ 1 <= k - 1 + 1 /\ k - 1 <= m
    BY <1>1
  <2>2. /\ a \in Seq(Byte) /\ Len(a) = k - 1 - 1 + 1
        /\ \A r \in 1..k - 1 - 1 + 1 : a[r] = s[1 + r - 1]
    BY <2>1, SubSeqAt
  <2>3. k - 1 - 1 + 1 = k - 1 /\ \A r \in 1..k - 1 : 1 + r - 1 = r
    BY <1>1
  <2> QED
    BY <2>2, <2>3
<1>3. b \in Seq(Byte) /\ Len(b) = m - k + 1 /\ \A r \in 1..m - k + 1 : b[r] = s[k + r - 1]
  <2>1. k \in Nat /\ m \in Nat /\ 1 <= k /\ k <= m + 1 /\ m <= Len(s)
    BY <1>1
  <2> QED
    BY <2>1, SubSeqAt
<1>4. o \in Seq(Byte) /\ Len(o) = 1 /\ o[1] = c
  OBVIOUS
<1>5. InsertAt(s, k, c) = ao \o b
  BY DEF InsertAt
<1> HIDE DEF m, a, b, o
<1>6. /\ ao \in Seq(Byte) /\ Len(ao) = k /\ ao[k] = c
      /\ \A r \in 1..k - 1 : ao[r] = s[r]
  <2>0. a \in Seq(Byte) /\ o \in Seq(Byte)
    BY <1>2, <1>4
  <2>1. /\ ao \in Seq(Byte) /\ Len(ao) = Len(a) + Len(o)
        /\ \A r \in 1..Len(a) : ao[r] = a[r]
        /\ \A r \in 1..Len(o) : ao[Len(a) + r] = o[r]
    BY ONLY <2>0, ConcatIs
  <2>2. /\ Len(ao) = k - 1 + 1 /\ \A r \in 1..k - 1 : ao[r] = a[r]
        /\ ao[k - 1 + 1] = o[1]
    BY <1>2, <1>4, <2>1
  <2>3. k - 1 + 1 = k
    BY <1>1
  <2> QED
    BY <1>2, <1>4, <2>1, <2>2, <2>3
<1> HIDE DEF ao
<1>7. /\ ao \o b \in Seq(Byte) /\ Len(ao \o b) = Len(ao) + Len(b)
      /\ \A r \in 1..Len(ao) : (ao \o b)[r] = ao[r]
      /\ \A r \in 1..Len(b) : (ao \o b)[Len(ao) + r] = b[r]
  <2>0. ao \in Seq(Byte) /\ b \in Seq(Byte)
    BY <1>3, <1>6
  <2> QED
    BY ONLY <2>0, ConcatIs
<1>8. Len(ao \o b) = m + 1
  BY <1>1, <1>3, <1>6, <1>7
<1>9. ASSUME NEW r \in 1..m + 1
      PROVE  (ao \o b)[r] = IF r < k THEN s[r] ELSE IF r = k THEN c ELSE s[r - 1]
  <2>1. CASE r < k
    <3>1. r \in 1..k - 1 /\ r \in 1..k
      BY <1>1, <2>1
    <3> QED
      BY <1>6, <1>7, <2>1, <3>1
  <2>2. CASE r = k
    <3>1. k \in 1..k /\ ~(k < k)
      BY <1>1
    <3> QED
      BY <1>6, <1>7, <2>2, <3>1
  <2>3. CASE ~(r < k) /\ r # k
    <3>1. r - k \in 1..m - k + 1 /\ k + (r - k) = r /\ k + (r - k) - 1 = r - 1
      BY <1>1, <2>3
    <3>2. (ao \o b)[k + (r - k)] = s[k + (r - k) - 1]
      BY <1>3, <1>6, <1>7, <3>1
    <3> QED
      BY <2>3, <3>1, <3>2
  <2> QED
    BY <2>1, <2>2, <2>3
<1> QED
  BY <1>5, <1>7, <1>8, <1>9 DEF m
-----------------------------------------------------------------------------
(* A request of Python.                                                    *)

LEMMA SumAtMost ==
    ASSUME NEW s \in Seq(Byte)
    PROVE  Sum(s) <= Len(s) * 256
<1>1. Len(s) \in Nat
  BY LenProperties
<1>2. IsFiniteSet(1..Len(s)) /\ Cardinality(1..Len(s)) = Len(s)
  <2>1. 1 \in Int /\ Len(s) \in Int /\ (1 > Len(s) => Len(s) = 0) /\ Len(s) - 1 + 1 = Len(s)
    BY <1>1
  <2> QED
    BY <2>1, FS_Interval
<1>3. IsFiniteSet(Byte) /\ Cardinality(Byte) = 256
  <2>1. \A n \in Nat : IsFiniteSet(UpTo(n)) /\ Cardinality(UpTo(n)) = n + 1
    <3> SUFFICES ASSUME NEW n \in Nat
                 PROVE  IsFiniteSet(0..n) /\ Cardinality(0..n) = n + 1
      BY DEF UpTo
    <3>1. 0 \in Int /\ n \in Int /\ ~(0 > n) /\ n - 0 + 1 = n + 1
      OBVIOUS
    <3> QED
      BY <3>1, FS_Interval
  <2>2. Byte = UpTo(255)
    BY DEF Byte, UpTo
  <2>3. 255 \in Nat /\ 255 + 1 = 256
    OBVIOUS
  <2> QED
    BY <2>1, <2>2, <2>3
<1> DEFINE D == 1..Len(s)
           P == D \X Byte
<1>4. IsFiniteSet(P) /\ Cardinality(P) = Len(s) * 256
  <2> HIDE DEF D
  <2>1. Cardinality(P) = Cardinality(D) * Cardinality(Byte) /\ IsFiniteSet(P)
    BY <1>2, <1>3, FS_Product DEF D
  <2> HIDE DEF P
  <2> QED
    BY <1>2, <1>3, <2>1 DEF D
<1>5. Units(s) \subseteq P
  BY UnitsAre
<1> HIDE DEF P
<1>6. Cardinality(Units(s)) <= Cardinality(P)
  BY <1>4, <1>5, FS_Subset
<1> QED
  BY <1>4, <1>6, SumIs

\* The first eight characters do not depend on the length.
LEMMA HeaderStart ==
    ASSUME NEW f \in Frames, NEW w \in Nat, w < 65536
    PROVE  SubSeq(Header(f, 0), 1, 8) \o Hex4(w) = Header(f, w)
<1> DEFINE h == Header(f, w)
           z == Header(f, 0)
           p == SubSeq(z, 1, 8)
           l == Hex4(w)
<1>1. /\ h \in Seq(Byte) /\ Len(h) = 12 /\ \A k \in 1..4 : h[8 + k] = l[k]
      /\ z \in Seq(Byte) /\ Len(z) = 12
      /\ z[1] = h[1] /\ z[2] = h[2] /\ z[3] = h[3] /\ z[4] = h[4]
      /\ z[5] = h[5] /\ z[6] = h[6] /\ z[7] = h[7] /\ z[8] = h[8]
  BY HeaderIs
<1>2. l \in Seq(Byte) /\ Len(l) = 4
  BY NumberOfHex4
<1> HIDE DEF h, z, l
<1>3. p \in Seq(Byte) /\ Len(p) = 8 /\ \A k \in 1..8 : p[k] = z[k]
  <2>1. /\ 1 \in Nat /\ 8 \in Nat /\ 1 <= 1 /\ 1 <= 8 + 1 /\ 8 <= Len(z) /\ z \in Seq(Byte)
        /\ 8 - 1 + 1 = 8 /\ \A k \in 1..8 : 1 + k - 1 = k
    BY <1>1
  <2> QED
    BY ONLY <2>1, SubSeqAt
<1> HIDE DEF p
<1>4. /\ p \o l \in Seq(Byte) /\ Len(p \o l) = Len(p) + Len(l)
      /\ \A k \in 1..Len(p) : (p \o l)[k] = p[k]
      /\ \A k \in 1..Len(l) : (p \o l)[Len(p) + k] = l[k]
  <2>1. p \in Seq(Byte) /\ l \in Seq(Byte)
    BY <1>2, <1>3
  <2> QED
    BY ONLY <2>1, ConcatIs
<1> DEFINE t == p \o l
<1>5. /\ t \in Seq(Byte) /\ Len(t) = 12 /\ \A k \in 1..8 : t[k] = z[k]
      /\ \A k \in 1..4 : t[8 + k] = l[k]
  <2>1. Len(p) = 8 /\ Len(l) = 4 /\ 8 + 4 = 12
    BY <1>2, <1>3
  <2>2. \A k \in 1..8 : p[k] = z[k]
    BY <1>3
  <2> QED
    BY ONLY <1>4, <2>1, <2>2
<1> HIDE DEF t
<1>6. \A k \in 1..8 : t[k] = h[k]
  <2>1. \A k \in 1..8 : z[k] = h[k]
    <3> TAKE k \in 1..8
    <3>1. k = 1 \/ k = 2 \/ k = 3 \/ k = 4 \/ k = 5 \/ k = 6 \/ k = 7 \/ k = 8
      OBVIOUS
    <3> QED
      BY <1>1, <3>1
  <2> QED
    BY <1>5, <2>1
<1>7. \A k \in 1..12 : t[k] = h[k]
  <2> TAKE k \in 1..12
  <2>1. CASE k <= 8
    BY <1>6, <2>1
  <2>2. CASE ~(k <= 8)
    <3>1. k - 8 \in 1..4 /\ 8 + (k - 8) = k
      BY <2>2
    <3>2. t[8 + (k - 8)] = h[8 + (k - 8)]
      BY <1>1, <1>5, <3>1
    <3> QED
      BY <3>1, <3>2
  <2> QED
    BY <2>1, <2>2
<1>8. t = h
  <2>1. t \in Seq(Byte) /\ h \in Seq(Byte) /\ Len(t) = 12 /\ Len(h) = 12
    BY <1>1, <1>5
  <2>2. Len(t) = Len(h) /\ \A k \in 1..Len(t) : t[k] = h[k]
    BY ONLY <1>7, <2>1
  <2> QED
    BY ONLY <2>1, <2>2, SeqEqual
<1> QED
  BY <1>8 DEF t, h, p, z, l

LEMMA RequestSame ==
    ASSUME NEW f \in Frames, Len(f.info) <= 1
    PROVE  PythonEncode(f) = Encode(f)
<1> DEFINE x == HexOf(f.info)
           n == Len(x)
           b == Body(f)
<1>1. n = 0 \/ n = 2
  <2>1. n = 2 * Len(f.info) /\ Len(f.info) \in Nat
    BY FrameIs, HexOfIs
  <2> HIDE DEF n
  <2>2. Len(f.info) <= 1
    OBVIOUS
  <2>3. \A m \in Nat : m <= 1 => m = 0 \/ m = 1
    OBVIOUS
  <2>4. Len(f.info) = 0 \/ Len(f.info) = 1
    BY <2>1, <2>2, <2>3
  <2> QED
    BY <2>1, <2>4
<1>2. PythonLengthField(n) = LengthField(n) /\ LengthField(n) \in Nat /\ LengthField(n) < 65536
  <2> HIDE DEF n
  <2> QED
    BY <1>1 DEF PythonLengthField, LengthField, DigitSum
<1>3. PythonHex4(PythonLengthField(n)) = Hex4(LengthField(n))
  BY <1>2 DEF PythonHex4
<1>4. SubSeq(Header(f, 0), 1, 8) \o Hex4(LengthField(n)) = Header(f, LengthField(n))
  <2> DEFINE w == LengthField(n)
  <2>1. w \in Nat /\ w < 65536
    BY <1>2
  <2> HIDE DEF w
  <2>2. SubSeq(Header(f, 0), 1, 8) \o Hex4(w) = Header(f, w)
    BY <2>1, HeaderStart
  <2> QED
    BY <2>2 DEF w
<1>5. b = Header(f, LengthField(n)) \o x
  BY DEF Body, Field
<1>6. /\ b \in Seq(Byte) /\ Len(b) = 12 + n /\ b[1] \in Letter
  <2>1. b \in Seq(Byte) /\ Len(b) = Width(f) - 6 /\ Encode(f)[2] = b[2 - 1]
    <3>1. Width(f) \in Nat /\ Width(f) >= 18
      BY FrameHas
    <3>2. 2 \in 2..Width(f) - 5
      BY <3>1
    <3> QED
      BY <3>2, FrameHas
  <2>2. Encode(f)[2] \in Letter
    <3>1. Width(f) \in Nat /\ Width(f) >= 18
      BY FrameHas
    <3>2. 2 \in 2..Width(f) - 1
      BY <3>1
    <3> QED
      BY <3>2, FrameHas
  <2>3. n = 2 * Len(f.info) /\ Len(f.info) \in Nat
    BY FrameIs, HexOfIs
  <2> HIDE DEF n, b
  <2>4. Width(f) - 6 = 12 + n /\ 2 - 1 = 1
    BY <2>3 DEF Width
  <2> QED
    BY <2>1, <2>2, <2>4
<1>7. 0 < Sum(b) /\ Sum(b) < 65536 /\ Sum(b) \in Nat
  <2> HIDE DEF b, n
  <2>1. 1 \in 1..Len(b) /\ Len(b) * 256 < 65536
    BY <1>1, <1>6
  <2>2. b[1] \in Nat /\ b[1] > 0
    BY <1>6, LetterIs
  <2>3. Sum(b) = Cardinality(Others(b, 1)) + b[1] /\ Cardinality(Others(b, 1)) \in Nat
    BY <1>6, <2>1, SumAt
  <2>4. Sum(b) <= Len(b) * 256
    BY <1>6, SumAtMost
  <2>5. Len(b) \in Nat
    BY <1>1, <1>6
  <2> QED
    BY <2>1, <2>2, <2>3, <2>4, <2>5
<1>8. PythonChecksum(b) = Checksum(b) /\ Checksum(b) \in Nat /\ Checksum(b) < 65536
  <2> HIDE DEF b, n
  <2>1. /\ Checksum(b) \in Nat /\ Checksum(b) < 65536
        /\ (Sum(b) + Checksum(b)) % 65536 = 0
        /\ PythonChecksum(b) = IF Checksum(b) = 0 THEN 65536 ELSE Checksum(b)
    BY <1>6, ChecksumIs
  <2>2. Checksum(b) # 0
    BY <1>7, <2>1
  <2> QED
    BY <2>1, <2>2
<1>9. PythonHex4(PythonChecksum(b)) = Hex4(Checksum(b))
  BY <1>8 DEF PythonHex4
<1>10. PythonEncode(f) = <<Start>> \o b \o PythonHex4(PythonChecksum(b)) \o <<End>>
  <2> DEFINE body == SubSeq(Header(f, 0), 1, 8) \o PythonHex4(PythonLengthField(n)) \o x
  <2>1. PythonEncode(f) = <<Start>> \o body \o PythonHex4(PythonChecksum(body)) \o <<End>>
    BY DEF PythonEncode
  <2>2. body = b
    BY <1>3, <1>4, <1>5
  <2> HIDE DEF body, b
  <2> QED
    BY <2>1, <2>2
<1>11. Encode(f) = <<Start>> \o b \o Hex4(Checksum(b)) \o <<End>>
  BY DEF Encode, Body, Field
<1> QED
  BY <1>9, <1>10, <1>11
-----------------------------------------------------------------------------
(* What is read of the line, before and after the fault.                   *)

LEMMA IntactRead ==
    ASSUME NEW f \in Frames, NEW g \in Frames
    PROVE  /\ Decode(Raw(Both(f, g))) = f
           /\ PythonDecode(UpToEnd(Both(f, g))) =
                 {IF Checksum(Covered(UpToEnd(Both(f, g)))) = 0 THEN Rejected ELSE f}
<1> DEFINE l == Both(f, g)
<1>1. /\ l \in Seq(Byte) /\ Len(l) = Width(f) + Width(g)
      /\ \A r \in 1..Width(f) : l[r] = Encode(f)[r]
  BY BothAre
<1>2. Width(f) \in Nat /\ Width(g) \in Nat
  BY FrameHas
<1> HIDE DEF l
<1>3. Len(l) >= Width(f)
  BY <1>1, <1>2
<1>4. UpToEnd(l) = Encode(f) /\ Raw(l) = Encode(f)
  BY <1>1, <1>3, UpToEndWhole
<1> QED
  BY <1>4, WholeFrame DEF l

\* There is one fault at most, and both programs read what it leaves.
CodecInv ==
    /\ sent \in Frames /\ behind \in Frames
    /\ fault = "none" => line = Both(sent, behind)
    /\ fault # "none" =>
          /\ Decode(Raw(line)) \in {sent, behind, Rejected}
          /\ fault # "end" => PythonDecode(UpToEnd(line)) \subseteq {sent, Rejected}

LEMMA PlaceIs ==
    ASSUME CodecInv, NEW k \in Place
    PROVE  /\ sent \in Frames /\ behind \in Frames /\ line = Both(sent, behind)
           /\ k \in 1..Width(sent)
           /\ line \in Seq(Byte) /\ Len(line) = Width(sent) + Width(behind)
           /\ k \in 1..Len(line)
<1>1. sent \in Frames /\ behind \in Frames
  BY DEF CodecInv
<1>2. fault = "none" /\ k \in 1..Len(Encode(sent))
  BY DEF Place
<1>3. line = Both(sent, behind)
  BY <1>2 DEF CodecInv
<1>4. k \in 1..Width(sent) /\ Width(sent) \in Nat /\ Width(behind) \in Nat
  BY <1>1, <1>2, FrameHas
<1>5. line \in Seq(Byte) /\ Len(line) = Width(sent) + Width(behind)
  BY <1>1, <1>3, BothAre
<1>6. k \in 1..Len(line)
  BY <1>4, <1>5
<1> QED
  BY <1>1, <1>3, <1>4, <1>5, <1>6

LEMMA NoiseIsByte == \A c \in Noise : c \in Byte
  BY FramesAssumption

LEMMA ChangeKeeps == CodecInv /\ Change => CodecInv'
<1> SUFFICES ASSUME CodecInv, Change PROVE CodecInv'
  OBVIOUS
<1>1. PICK k \in Place, c \in Noise :
        /\ c # line[k]
        /\ line' = [line EXCEPT ![k] = c]
        /\ fault' = IF c = End THEN "end" ELSE "change"
        /\ UNCHANGED <<sent, behind>>
  BY DEF Change
<1>2. /\ sent \in Frames /\ behind \in Frames /\ line = Both(sent, behind)
      /\ k \in 1..Width(sent) /\ c \in Byte
      /\ line \in Seq(Byte) /\ Len(line) = Width(sent) + Width(behind) /\ k \in 1..Len(line)
  BY PlaceIs, NoiseIsByte
<1> DEFINE t == [line EXCEPT ![k] = c]
<1>3. /\ t \in Seq(Byte) /\ Len(t) = Len(line)
      /\ \A r \in 1..Len(line) : t[r] = IF r = k THEN c ELSE line[r]
  BY <1>2, ExceptSeq
<1>4. t = line'
  BY <1>1
<1> HIDE DEF t
<1>5. /\ Decode(Raw(t)) \in {sent, behind, Rejected}
      /\ c # End => PythonDecode(UpToEnd(t)) \subseteq {sent, Rejected}
  BY <1>1, <1>2, <1>3, ChangeNoticed
<1> QED
  BY <1>1, <1>2, <1>4, <1>5 DEF CodecInv

LEMMA LoseKeeps == CodecInv /\ Lose => CodecInv'
<1> SUFFICES ASSUME CodecInv, Lose PROVE CodecInv'
  OBVIOUS
<1>1. PICK k \in Place :
        /\ line' = RemoveAt(line, k)
        /\ fault' = "loss"
        /\ UNCHANGED <<sent, behind>>
  BY DEF Lose
<1>2. /\ sent \in Frames /\ behind \in Frames /\ line = Both(sent, behind)
      /\ k \in 1..Width(sent)
      /\ line \in Seq(Byte) /\ Len(line) = Width(sent) + Width(behind) /\ k \in 1..Len(line)
  BY PlaceIs
<1> DEFINE t == RemoveAt(line, k)
<1>3. /\ t \in Seq(Byte) /\ Len(t) = Len(line) - 1
      /\ \A r \in 1..Len(line) - 1 : t[r] = IF r < k THEN line[r] ELSE line[r + 1]
  BY <1>2, RemoveIs
<1>4. t = line'
  BY <1>1
<1> HIDE DEF t
<1>5. /\ Decode(Raw(t)) \in {behind, Rejected}
      /\ PythonDecode(UpToEnd(t)) = {Rejected}
  <2>0. Width(sent) \in Nat /\ Width(behind) \in Nat
    BY <1>2, FrameHas
  <2>1. Len(t) = Width(sent) + Width(behind) - 1
    BY <1>2, <1>3, <2>0
  <2>2. \A r \in 1..Len(t) :
           t[r] = IF r < k THEN Both(sent, behind)[r] ELSE Both(sent, behind)[r + 1]
    BY <1>2, <1>3
  <2> QED
    BY <1>2, <1>3, <2>1, <2>2, LossNoticed
<1> QED
  BY <1>1, <1>2, <1>4, <1>5 DEF CodecInv

LEMMA AddKeeps == CodecInv /\ Add => CodecInv'
<1> SUFFICES ASSUME CodecInv, Add PROVE CodecInv'
  OBVIOUS
<1>1. PICK k \in Place, c \in Noise :
        /\ line' = InsertAt(line, k, c)
        /\ fault' = IF c = End THEN "end" ELSE "addition"
        /\ UNCHANGED <<sent, behind>>
  BY DEF Add
<1>2. /\ sent \in Frames /\ behind \in Frames /\ line = Both(sent, behind)
      /\ k \in 1..Width(sent) /\ c \in Byte
      /\ line \in Seq(Byte) /\ Len(line) = Width(sent) + Width(behind) /\ k \in 1..Len(line)
  BY PlaceIs, NoiseIsByte
<1> DEFINE t == InsertAt(line, k, c)
<1>3. /\ t \in Seq(Byte) /\ Len(t) = Len(line) + 1
      /\ \A r \in 1..Len(line) + 1 :
            t[r] = IF r < k THEN line[r] ELSE IF r = k THEN c ELSE line[r - 1]
  <2>1. line \in Seq(Byte) /\ k \in 1..Len(line) /\ c \in Byte
    BY <1>2
  <2> QED
    BY ONLY <2>1, InsertIs
<1>4. t = line'
  BY <1>1
<1> HIDE DEF t
<1>5. /\ Decode(Raw(t)) \in {sent, Rejected}
      /\ c # End => PythonDecode(UpToEnd(t)) = {Rejected}
  <2>1. /\ Len(t) = Width(sent) + Width(behind) + 1
        /\ \A r \in 1..Len(t) :
              t[r] = IF r < k THEN Both(sent, behind)[r]
                     ELSE IF r = k THEN c ELSE Both(sent, behind)[r - 1]
    BY <1>2, <1>3
  <2> QED
    <3>1. /\ sent \in Frames /\ behind \in Frames /\ k \in 1..Width(sent) /\ c \in Byte
          /\ t \in Seq(Byte)
      BY <1>2, <1>3
    <3> QED
      BY ONLY <2>1, <3>1, AddNoticed
<1> QED
  BY <1>1, <1>2, <1>4, <1>5 DEF CodecInv

LEMMA CodecInvHolds == CodecSpec => []CodecInv
<1>1. CodecInit => CodecInv
  BY FramesAssumption DEF CodecInit, CodecInv, Both
<1>2. CodecInv /\ UNCHANGED codecVars => CodecInv'
  BY DEF CodecInv, codecVars
<1>3. CodecInv /\ [CodecNext]_codecVars => CodecInv'
  BY <1>2, ChangeKeeps, LoseKeeps, AddKeeps DEF CodecNext
<1> QED
  BY <1>1, <1>3, PTL DEF CodecSpec

(* Every frame arrives as it was sent when the line does not change it,    *)
(* whatever its address, its code and its info.                            *)
THEOREM RoundTripAlways == CodecSpec => []RoundTrip
<1>1. CodecInv => RoundTrip
  BY IntactRead DEF CodecInv, RoundTrip
<1> QED
  BY <1>1, CodecInvHolds, PTL

(* No character of any frame can be changed to, replaced by or joined with *)
(* any other so that a third frame is read.                                *)
THEOREM DamageNoticedAlways == CodecSpec => []DamageNoticed
<1>1. CodecInv => DamageNoticed
  <2> SUFFICES ASSUME CodecInv PROVE Decode(Raw(line)) \in {sent, behind, Rejected}
    BY DEF DamageNoticed
  <2>1. CASE fault = "none"
    BY <2>1, IntactRead DEF CodecInv
  <2>2. CASE fault # "none"
    BY <2>2 DEF CodecInv
  <2> QED
    BY <2>1, <2>2
<1> QED
  BY <1>1, CodecInvHolds, PTL

(* Both programs agree on every request and on every reply but those with  *)
(* the checksum 0, and Python notices the same faults but for the one that *)
(* makes a carriage return.                                                *)
THEOREM PythonAgreesAlways == CodecSpec => []PythonAgrees
<1>1. CodecInv => PythonDecodesSame
  <2> SUFFICES ASSUME CodecInv PROVE PythonDecodesSame
    OBVIOUS
  <2>1. CASE fault = "none"
    <3>1. PythonDecode(UpToEnd(line)) =
             {IF Checksum(Covered(UpToEnd(line))) = 0 THEN Rejected ELSE sent}
      BY <2>1, IntactRead DEF CodecInv
    <3> QED
      BY <2>1, <3>1 DEF PythonDecodesSame
  <2>2. CASE fault # "none"
    BY <2>2 DEF CodecInv, PythonDecodesSame
  <2> QED
    BY <2>1, <2>2
<1>2. CodecInv => PythonEncodesSame
  BY RequestSame DEF CodecInv, PythonEncodesSame
<1> QED
  BY <1>1, <1>2, CodecInvHolds, PTL DEF PythonAgrees
=============================================================================
