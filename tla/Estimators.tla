----------------------------- MODULE Estimators -----------------------------
(***************************************************************************)
(* estimation/estimators.cc: the cardinality of a LiquidLegions sketch is  *)
(* estimated by inverting the expected number of active registers, a       *)
(* non-decreasing function of the cardinality, with a binary search        *)
(* (InvertMonotonic), and by dividing the result by the sampling rate.     *)
(*                                                                         *)
(* function, target and rate are the arguments of one call and never       *)
(* change; the exponential integral behind the function is not modelled,   *)
(* any non-decreasing function may be inverted.  Every turn of a loop is a *)
(* step, the uint64_t arithmetic is modulo Word.  A double is a number     *)
(* below Precision times a power of two: the result of the search becomes  *)
(* one on its way to an int64_t, and the quotient by the rate is rounded   *)
(* to one before its fraction is dropped.                                  *)
(***************************************************************************)
EXTENDS Integers

CONSTANTS
    Word,        \* number of values of a uint64_t: 2^64 in the code
    Function,    \* the functions a call may invert
    Target,      \* the values they are inverted at
    Registers,   \* num_of_total_registers
    Rate,        \* the sampling rates: kept of every of people
    Precision,   \* values of the significand of a double: 2^53 in the code
    Scale        \* the powers of two up to the largest double: 2^1023

U64 == 0 .. Word - 1
Int64 == -(Word \div 2) .. (Word \div 2) - 1

ASSUME EstimatorsAssumption ==
    /\ Word \in Nat /\ Word >= 4 /\ Word % 2 = 0
    /\ Registers \in Nat /\ Target \subseteq Nat
    /\ \A f \in Function :
          /\ f \in [U64 -> 0 .. Registers]
          /\ \A x, y \in U64 : x <= y => f[x] <= f[y]

\* A set of numbers with every number but 1 an even one whose half it has too.
ASSUME ScaleAssumption ==
    /\ Scale \subseteq Nat \ {0}
    /\ \A s \in Scale : s = 1 \/ (s % 2 = 0 /\ s \div 2 \in Scale)
    /\ Precision \in Scale \ {1} /\ 2 * Precision < Word

\* sampling_rate is a double, asserted to be above 0 and at most 1 (lines 82
\* and 83).
ASSUME RateAssumption ==
    \A r \in Rate : r.kept \in 1 .. Precision /\ r.of \in Scale /\ r.kept <= r.of

VARIABLES
    function, target, rate,   \* the arguments
    left, right, mid,         \* the local variables
    estimate,                 \* the result
    pc                        \* the loop the call is in

vars == <<function, target, rate, left, right, mid, estimate, pc>>
arguments == <<function, target, rate>>

\* f(0) <= target and fewer active registers than registers are asserted at
\* lines 49 and 87.
Init ==
    /\ function \in Function /\ target \in Target /\ rate \in Rate
    /\ function[0] <= target
    /\ target < Registers
    /\ left = 0 /\ right = 1 /\ mid = 0
    /\ estimate = 0 /\ pc = "bracket"

Midpoint(r, l) == ((r + l) % Word) \div 2

\* Mutant of Short: the target itself is not enough.
ShortOrEqual(x) == function[x] <= target
\* function(right) < target
Short(x) == function[x] < target

\* while (function(right) < target): double the right end.
Double ==
    /\ pc = "bracket" /\ Short(right)
    /\ left' = right
    /\ right' = (2 * right) % Word
    /\ UNCHANGED <<arguments, mid, estimate, pc>>

Bracketed ==
    /\ pc = "bracket" /\ ~Short(right)
    /\ mid' = Midpoint(right, left)
    /\ pc' = "bisect"
    /\ UNCHANGED <<arguments, left, right, estimate>>

\* Mutant of Apart: the search ends with two candidates left.
FarApart == right > left + 1
\* while (right > left)
Apart == right > left

\* Mutant of Beyond: the branches are swapped.
BeyondSwapped(x) == function[x] <= target
\* f_mid > target
Beyond(x) == function[x] > target

GoLeft ==
    /\ pc = "bisect" /\ Apart /\ Beyond(mid)
    /\ right' = (mid - 1) % Word
    /\ mid' = Midpoint(right', left)
    /\ UNCHANGED <<arguments, left, estimate, pc>>

GoRight ==
    /\ pc = "bisect" /\ Apart /\ ~Beyond(mid)
    /\ left' = (mid + 1) % Word
    /\ mid' = Midpoint(right, left')
    /\ UNCHANGED <<arguments, right, estimate, pc>>

Return ==
    /\ pc = "bisect" /\ ~Apart
    /\ pc' = "returned"
    /\ UNCHANGED <<arguments, left, right, mid, estimate>>

(***************************************************************************)
(* Arithmetic of doubles that are not negative.  The quotient a / b lies   *)
(* between two powers of two; there a double is a multiple of 1 / k, or of *)
(* u for a quotient of at least Precision, so that the significand is      *)
(* below Precision, and the quotient is rounded to the nearest one, to the *)
(* even one of two.  Truncated(a, b) is its conversion to an integer.  As  *)
(* Precision is the largest k, numbers below one half are not spaced any   *)
(* closer: they all become zero.                                           *)
(***************************************************************************)
Nearest(n, d) ==
    LET low == n \div d
        rest == n % d IN
    IF 2 * rest < d \/ (2 * rest = d /\ low % 2 = 0) THEN low ELSE low + 1

Parts(a, b) ==
    {k \in Scale : /\ k <= Precision /\ k * a < Precision * b
                   /\ k = Precision \/ Precision * b <= 2 * k * a}
Units(a, b) ==
    {u \in Scale \ {1} : a < Precision * u * b /\ Precision * u * b <= 2 * a}

Truncated(a, b) ==
    {Nearest(k * a, b) \div k : k \in Parts(a, b)} \cup
    {Nearest(a, u * b) * u : u \in Units(a, b)}

\* GetCardinality returns a double.
ToDouble(x) == Truncated(x, 1)

\* Mutant of Scaled: the result is multiplied by the rate.
ScaledByRate(x) == Truncated(x * rate.kept, rate.of)
\* sampled_cardinality / sampling_rate, without its fraction.
Scaled(x) == Truncated(x * rate.of, rate.kept)

\* A double that is no int64_t converts to anything: undefined behaviour.
ToInt64(x) == IF x \in Int64 THEN {x} ELSE Int64

EstimateCardinality ==
    /\ pc = "returned"
    /\ \E sampled \in ToDouble(mid) :
          estimate' \in IF sampled \in Int64 THEN UNION {ToInt64(x) : x \in Scaled(sampled)}
                        ELSE Int64
    /\ pc' = "estimated"
    /\ UNCHANGED <<arguments, left, right, mid>>

Next == Double \/ Bracketed \/ GoLeft \/ GoRight \/ Return \/ EstimateCardinality

Spec == Init /\ [][Next]_vars

\* A single thread runs the loops; nothing blocks it.
FairSpec == Spec /\ WF_vars(Next)
-----------------------------------------------------------------------------
(***************************************************************************)
(* The function reaches the target at a cardinality of at most a quarter   *)
(* of the range of uint64_t.  No line of the code makes sure of it: it is  *)
(* a property of the arguments, under which the search does what it should.*)
(***************************************************************************)
Reaches(f, t) == \E x \in U64 : 4 * x <= Word /\ f[x] >= t
InReach == Reaches(function, target)

VariablesOK ==
    /\ function \in [U64 -> 0 .. Registers] /\ target \in Nat /\ rate \in Rate
    /\ left \in U64 /\ right \in U64 /\ mid \in U64
    /\ estimate \in Int64
    /\ pc \in {"bracket", "bisect", "returned", "estimated"}

\* Type invariant.  If the target is in reach no sum of the two ends wraps
\* around, and whatever the search returns is an int64_t (line 89).
TypeOK ==
    /\ VariablesOK
    /\ InReach => right + left < Word /\ mid \in Int64

(***************************************************************************)
(* Loop invariant of the binary search (estimators.cc:53 to 66), for a     *)
(* target in reach: nothing left of the interval exceeds the target and    *)
(* nothing right of it falls short of it, the ends never cross by more     *)
(* than one, and mid is between.                                           *)
(***************************************************************************)
AtMostUpTo(x) == \A y \in U64 : y < x => function[y] <= target
AtLeastFrom(x) == \A y \in U64 : y > x => function[y] >= target

SearchInterval ==
    InReach =>
        /\ left <= right + 1
        /\ AtMostUpTo(left)
        /\ pc # "bracket" => AtLeastFrom(right) /\ mid = (right + left) \div 2

(***************************************************************************)
(* What InvertMonotonic returns for a target in reach is at most one off:  *)
(* everything below it is at most the target, everything above at least,   *)
(* and if the function still falls short at the result it exceeds the      *)
(* target right after it.                                                  *)
(***************************************************************************)
InverseWithinOne ==
    InReach /\ pc \in {"returned", "estimated"} =>
        /\ AtMostUpTo(mid)
        /\ AtLeastFrom(mid)
        /\ \/ function[mid] >= target
           \/ function[mid + 1] > target

(***************************************************************************)
(* The division by the sampling rate (estimators.cc:90) keeps what the     *)
(* search found out, rounding or not: y sampled people of a population of  *)
(* at most the estimate less one activate at most the target number of     *)
(* registers, and those of a population of at least the estimate and one   *)
(* at least that number.  It holds for estimates of which a double has     *)
(* every integer; the quotient may be rounded up to the next integer, so   *)
(* that the estimate is not its floor.                                     *)
(***************************************************************************)
EstimateWithinOne ==
    /\ InReach /\ pc = "estimated"
    /\ mid < Precision /\ mid * rate.of < Precision * rate.kept
    => \A y \in U64 :
          /\ y * rate.of <= (estimate - 1) * rate.kept => function[y] <= target
          /\ y * rate.of >= (estimate + 1) * rate.kept => function[y] >= target

(***************************************************************************)
(* "Find a region that contains the solution" (estimators.cc:52).  The     *)
(* call returns if the function reaches the target at the largest power of *)
(* two of a uint64_t.  If it does not, right wraps to zero and is doubled  *)
(* for ever: the assertions admit such arguments, and an optimized build   *)
(* has none.                                                               *)
(***************************************************************************)
Terminates ==
    IF function[Word \div 2] >= target THEN <>(pc = "estimated") ELSE [](pc = "bracket")
=============================================================================
