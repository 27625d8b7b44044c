----------------------------- MODULE StackState -----------------------------
(***************************************************************************)
(* The summary of a polling cycle, as StackState::from_modules computes it *)
(* in two nested loops over the modules and their cells, and as            *)
(* find_min_max_modules in pylontechpoller/tools.py does it in one         *)
(* expression each.  Modules send whole millivolts; both programs divide   *)
(* them by 1000 and compute with binary fractions of a limited length, so  *)
(* that a quotient and a difference are rounded.                           *)
(*                                                                         *)
(* Exact and representable voltages are integers on one scale here, fine   *)
(* enough for both: a millivolt is Millivolt of its units.                 *)
(***************************************************************************)
EXTENDS Integers, Sequences, FiniteSetsExt

CONSTANTS
    Address, MaxModules, MaxCells,
    Voltage,    \* what a module may send, in millivolts
    Millivolt,  \* a millivolt in units of the scale
    Float,      \* the representable numbers (f64), in the same units
    Even,       \* those whose last binary digit is zero
    Infinity    \* f64::INFINITY, above every representable number

ASSUME StackAssumption ==
    /\ Address \subseteq 0..255 /\ Voltage \subseteq Int
    /\ MaxModules \in Nat /\ MaxCells \in Nat
    /\ Millivolt \in Nat \ {0} /\ Float # {} /\ Float \subseteq Int
    /\ Infinity \in Nat /\ \A f \in Float : -Infinity < f /\ f < Infinity

Gap(f, x) == IF f < x THEN x - f ELSE f - x

\* IEEE rounding: the nearest representable number, of two the even one.
Nearest(x) ==
    LET near == {f \in Float : \A g \in Float : Gap(f, x) <= Gap(g, x)}
    IN  CHOOSE f \in near : near \cap Even # {} => f \in Even

\* What the programs make of m millivolts: m / 1000.0
Quotient == [m \in Voltage |-> Nearest(m * Millivolt)]
Volts == {Quotient[m] : m \in Voltage}

\* The difference of two voltages, rounded
Rounded == [d \in {x - y : x, y \in Volts} |-> Nearest(d)]
Minus(x, y) == Rounded[x - y]

\* A rounding error is small against a millivolt: with the 53 binary digits
\* of an f64 and cells below 33 V it is less than 2^-37 of one.
ASSUME FineAssumption ==
    /\ \A m \in Voltage : 6 * Gap(Quotient[m], m * Millivolt) < Millivolt
    /\ \A x, y \in Volts : 6 * Gap(Minus(x, y), x - y) < Millivolt

VARIABLES
    modules,    \* what the cycle has read: a sequence of module states
    i,          \* the outer loop is at modules[i]
    j,          \* the folds over its cells are at cell j
    moduleMin, moduleMax,   \* the results of the folds
    globalMin, globalMax,
    maxDisbalance,          \* of the modules before i
    maxId                   \* the address of the module it belongs to

vars == <<modules, i, j, moduleMin, moduleMax, globalMin, globalMax, maxDisbalance, maxId>>

\* A module state has cells (ModuleState::new refuses one without), given by
\* what the module has sent of each.
ModuleState ==
    [address : Address, readings : UNION {[1..n -> Voltage] : n \in 1..MaxCells}]

\* At least one module state, in the order of the scan: ascending addresses
Cycles ==
    {s \in UNION {[1..n -> ModuleState] : n \in 1..MaxModules} :
        \A k, l \in DOMAIN s : k < l => s[k].address < s[l].address}

Readings(k) == modules[k].readings

\* cell_voltages of a module state
CellVoltages(module) == [c \in DOMAIN module.readings |-> Quotient[module.readings[c]]]

Cells(k) == CellVoltages(modules[k])

Lower(a, b) == IF b < a THEN b ELSE a
Higher(a, b) == IF b > a THEN b ELSE a

Init ==
    /\ modules \in Cycles
    /\ i = 1 /\ j = 1
    /\ moduleMin = Infinity /\ moduleMax = -Infinity
    /\ globalMin = Infinity /\ globalMax = -Infinity
    /\ maxDisbalance = -Infinity /\ maxId = 0

\* The folds with f64::min and f64::max over the cells of a module
FoldCell ==
    /\ i <= Len(modules) /\ j <= Len(Cells(i))
    /\ moduleMin' = Lower(moduleMin, Cells(i)[j])
    /\ moduleMax' = Higher(moduleMax, Cells(i)[j])
    /\ j' = j + 1
    /\ UNCHANGED <<modules, i, globalMin, globalMax, maxDisbalance, maxId>>

\* Mutant: the later of two equally uneven modules wins.
LastWins(disbalance) == disbalance >= maxDisbalance

\* Mutant: the first module is never compared with the others.
FirstStays(disbalance) == maxId = 0

Worse(disbalance) == disbalance > maxDisbalance

Widen(low, high) ==
    /\ globalMin' = Lower(globalMin, low)
    /\ globalMax' = Higher(globalMax, high)

\* The rest of the body of the loop over the modules
EndModule ==
    /\ i <= Len(modules) /\ j > Len(Cells(i))
    /\ Widen(moduleMin, moduleMax)
    /\ LET disbalance == Minus(moduleMax, moduleMin)
       IN  IF Worse(disbalance)
              THEN maxDisbalance' = disbalance /\ maxId' = modules[i].address
              ELSE UNCHANGED <<maxDisbalance, maxId>>
    /\ i' = i + 1 /\ j' = 1
    /\ moduleMin' = Infinity /\ moduleMax' = -Infinity
    /\ UNCHANGED modules

Next == FoldCell \/ EndModule

Spec == Init /\ [][Next]_vars

Done == i > Len(modules)

\* stack_disbalance_v
StackDisbalance == Minus(globalMax, globalMin)
-----------------------------------------------------------------------------
(* find_min_max_modules and minimize: min and max over all the cells, and  *)
(* max over the modules, which returns the first of several.               *)

AllVoltages == UNION {{Cells(k)[c] : c \in DOMAIN Cells(k)} : k \in DOMAIN modules}

PythonStackDisbalance == Minus(Max(AllVoltages), Min(AllVoltages))

PythonDisbalance(k) ==
    LET cvs == {Cells(k)[c] : c \in DOMAIN Cells(k)} IN Minus(Max(cvs), Min(cvs))

PythonMaxDisbalance ==
    LET k == Min({l \in DOMAIN modules :
                    \A o \in DOMAIN modules : PythonDisbalance(o) <= PythonDisbalance(l)})
    IN  <<modules[k].address, PythonDisbalance(k)>>
-----------------------------------------------------------------------------
(* The variables hold what their comments say.                             *)
TypeOK ==
    /\ modules \in Cycles
    /\ i \in 1..(Len(modules) + 1)
    /\ j \in 1..(IF Done THEN 1 ELSE Len(Cells(i)) + 1)
    /\ {moduleMin, moduleMax, globalMin, globalMax} \subseteq
          Volts \cup {Infinity, -Infinity}
    /\ maxDisbalance \in Float \cup {-Infinity} /\ maxId \in Address \cup {0}

\* The differences of two readings of the modules ks, in millivolts
Differences(ks) ==
    UNION {{Readings(k)[c] - Readings(l)[e] : c \in DOMAIN Readings(k), e \in DOMAIN Readings(l)} :
           k, l \in ks}

\* The voltage v is d millivolts, up to half a millivolt.
Gives(v, d) == 2 * Gap(v, d * Millivolt) < Millivolt

(* The stack disbalance gives the widest difference of any two cells of    *)
(* the stack, of one module or of two (stack_disbalance_v).                *)
StackSpanRight ==
    Done => \E d \in Differences(DOMAIN modules) :
        /\ Gives(StackDisbalance, d)
        /\ \A o \in Differences(DOMAIN modules) : o <= d

(* The module that is named has cells that are as many millivolts apart as *)
(* those of any module, and the disbalance gives this number: rounding     *)
(* decides between equally uneven modules, and between no others           *)
(* (max_module_id, max_module_disbalance_v).                               *)
WorstModuleRight ==
    Done => \E w \in DOMAIN modules :
        /\ maxId = modules[w].address
        /\ \E d \in Differences({w}) :
              /\ Gives(maxDisbalance, d)
              /\ \A k \in DOMAIN modules : \A o \in Differences({k}) : o <= d

(* The adapter and the Python poller compute the same summary of the same  *)
(* readings to the last digit, also when several modules are equally       *)
(* uneven (find_min_max_modules, minimize).                                *)
SameAsPython ==
    Done => /\ StackDisbalance = PythonStackDisbalance
            /\ <<maxId, maxDisbalance>> = PythonMaxDisbalance
=============================================================================
