---------------------------- MODULE MCStackState ----------------------------
(* StackState with up to three modules of up to two cells and numbers of   *)
(* six binary digits: the two differences of one millivolt below come to   *)
(* 34 and 32 units of 2^-15 V, and two of the others lie half-way between  *)
(* two numbers.  A cell may be below zero, as the signed field of the      *)
(* protocol allows.                                                        *)
EXTENDS StackState

\* A unit of the scale is 2^-15 mV.
MCMillivolt == 2^15
Binary(significands) == {1000 * s * 2^e : s \in significands, e \in 0..3}
MCFloat == Binary(-63..63)
MCEven == Binary({2 * s : s \in -31..31})

MCVoltage == {-2, 3, 4, 5}
=============================================================================
