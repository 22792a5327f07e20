---------------------------- MODULE MCEstimators ----------------------------
(***************************************************************************)
(* All non-decreasing functions with at most MaxValue steps of height one  *)
(* or, where steps coincide, more, over a small uint64_t.                  *)
(***************************************************************************)
EXTENDS Estimators, FiniteSets

CONSTANT MaxValue

Staircase(step) ==
    [x \in U64 |-> Cardinality({k \in 1 .. MaxValue : step[k] <= x})]

MCFunction == {Staircase(step) : step \in [1 .. MaxValue -> 0 .. Word]}
MCTarget == 0 .. MaxValue
MCScale == {2 ^ e : e \in 0 .. 8}

\* One, and two rates with quotients next to an integer: 1 / (7/32) is 4.57,
\* which doubles with significands below 8 round to 5.
MCRate == {[kept |-> 1, of |-> 1], [kept |-> 7, of |-> 32], [kept |-> 3, of |-> 8]}
=============================================================================
