-------------------------- MODULE EstimatorsProofs --------------------------
(***************************************************************************)
(* Proofs about Estimators: the binary search of InvertMonotonic keeps its *)
(* interval and returns a cardinality that is at most one off, for every   *)
(* non-decreasing function, target in reach and word size, and the rounded *)
(* division of it by a sampling rate keeps the estimate within one.        *)
(***************************************************************************)
EXTENDS Estimators, TLAPS

\* While the bracket grows, both ends stay below twice a point that reaches
\* the target, hence well inside a word; the right end reaches the target, or
\* was moved to the left of a point that exceeds it.
Bounds ==
    /\ function \in Function /\ 0 \in U64 /\ function[0] <= target
    /\ pc = "bracket" => left < right
    /\ pc # "bracket" => function[right] >= target \/ function[right + 1] > target
    /\ 2 * right + 1 < Word

IInv == TypeOK /\ SearchInterval /\ Bounds /\ InReach

LEMMA Monotone ==
    ASSUME NEW f \in Function, NEW x \in U64, NEW y \in U64, x <= y
    PROVE  f[x] \in Nat /\ f[y] \in Nat /\ f[x] <= f[y]
  BY EstimatorsAssumption

LEMMA SmallSum ==
    ASSUME NEW a \in Nat, a < Word
    PROVE  a % Word = a
  BY EstimatorsAssumption

\* The midpoint of an interval whose ends have crossed by at most one.
LEMMA MidpointBetween ==
    ASSUME NEW r \in Nat, NEW l \in Nat, l <= r + 1, 2 * r + 1 < Word
    PROVE  /\ Midpoint(r, l) = (r + l) \div 2
           /\ Midpoint(r, l) \in U64
           /\ l <= r => l <= Midpoint(r, l) /\ Midpoint(r, l) <= r
           /\ l < r => Midpoint(r, l) < r
           /\ l = r + 1 => Midpoint(r, l) = r
  <1>1. Word \in Nat
    BY EstimatorsAssumption
  <1>2. r + l \in Nat /\ r + l < Word
    BY <1>1
  <1>3. (r + l) % Word = r + l
    BY <1>2, SmallSum
  <1> QED BY <1>1, <1>2, <1>3 DEF Midpoint, U64

LEMMA InvInit == Init /\ InReach => IInv
  <1> SUFFICES ASSUME Init, InReach PROVE IInv
    OBVIOUS
  <1>1. Word \in Nat /\ Word >= 4 /\ Target \subseteq Nat /\ function \in [U64 -> 0 .. Registers]
    BY EstimatorsAssumption DEF Init
  <1>2. TypeOK
    <2>1. 0 \in Int64
      BY EstimatorsAssumption DEF Int64
    <2> QED BY <1>1, <2>1 DEF Init, TypeOK, VariablesOK, U64
  <1>3. SearchInterval
    BY <1>1 DEF Init, SearchInterval, AtMostUpTo, U64
  <1>4. Bounds
    BY <1>1 DEF Init, Bounds, U64
  <1> QED BY <1>2, <1>3, <1>4 DEF Init, IInv

LEMMA DoubleInv == ASSUME IInv, Double PROVE IInv'
  <1> USE DEF IInv
  <1>1. Word \in Nat /\ left \in Nat /\ right \in Nat /\ target \in Nat
        /\ function \in Function /\ left < right /\ pc = "bracket"
    BY EstimatorsAssumption DEF TypeOK, VariablesOK, U64, Bounds, Double
  <1>2. function[right] < target /\ right \in U64
    BY DEF Double, Short, TypeOK, VariablesOK
  <1>3. PICK x \in U64 : 4 * x <= Word /\ function[x] >= target
    BY DEF InReach, Reaches
  <1>4. right < x
    <2>1. ASSUME x <= right PROVE FALSE
      BY <1>1, <1>2, <1>3, <2>1, Monotone
    <2> QED BY <1>1, <1>3, <2>1 DEF U64
  <1>5. right' = 2 * right /\ 2 * right' + 1 < Word
    <2>1. 2 * right \in Nat /\ 2 * right < Word /\ 2 * (2 * right) + 1 < Word
      BY <1>1, <1>3, <1>4 DEF U64
    <2> QED BY <2>1, SmallSum DEF Double
  <1>6. left' = right /\ left' < right' /\ UNCHANGED <<function, target, rate, mid, estimate, pc>>
    BY <1>1, <1>5 DEF Double, arguments
  <1>7. TypeOK'
    BY <1>1, <1>2, <1>5, <1>6 DEF TypeOK, VariablesOK, U64
  <1>8. AtMostUpTo(left)'
    <2> SUFFICES ASSUME NEW y \in U64, y < right PROVE function[y] <= target
      BY <1>6 DEF AtMostUpTo
    <2> QED BY <1>1, <1>2, Monotone DEF U64
  <1>9. SearchInterval'
    BY <1>1, <1>5, <1>6, <1>8 DEF SearchInterval
  <1> QED BY <1>1, <1>5, <1>6, <1>7, <1>9 DEF Bounds, InReach, Reaches

LEMMA BracketedInv == ASSUME IInv, Bracketed PROVE IInv'
  <1> USE DEF IInv
  <1>1. Word \in Nat /\ left \in Nat /\ right \in Nat /\ target \in Nat
        /\ function \in Function /\ left < right /\ 2 * right + 1 < Word /\ right \in U64
    BY EstimatorsAssumption DEF TypeOK, VariablesOK, U64, Bounds, Bracketed
  <1>2. mid' = (right + left) \div 2 /\ mid' \in U64
    BY <1>1, MidpointBetween DEF Bracketed
  <1>3. AtLeastFrom(right)'
    <2>1. function[right] \in Nat /\ target \in Nat /\ function[right] >= target
      BY <1>1, Monotone DEF Bracketed, Short
    <2> SUFFICES ASSUME NEW y \in U64, y > right PROVE function[y] >= target
      BY DEF AtLeastFrom, Bracketed, arguments
    <2> QED BY <1>1, <2>1, Monotone DEF U64
  <1>4. TypeOK'
    <2>1. mid' < right /\ mid' \in Int64
      BY <1>1, <1>2 DEF Int64
    <2> QED BY <1>2, <2>1 DEF TypeOK, VariablesOK, Bracketed, arguments
  <1>5. SearchInterval'
    BY <1>2, <1>3 DEF SearchInterval, Bracketed, arguments, AtMostUpTo
  <1>6. Bounds'
    <2>1. function[right] \in Nat
      BY <1>1, Monotone
    <2>2. function[right] >= target /\ pc' = "bisect" /\ UNCHANGED <<function, target, right>>
      BY <1>1, <2>1 DEF Bracketed, Short, arguments
    <2> QED BY <1>1, <2>2 DEF Bounds
  <1> QED BY <1>4, <1>5, <1>6 DEF InReach, Reaches, Bracketed, arguments

\* Facts of a turn of the bisection: mid lies in the interval.
LEMMA InsideInterval ==
    ASSUME IInv, pc = "bisect", left < right
    PROVE  /\ Word \in Nat /\ left \in Nat /\ right \in Nat /\ target \in Nat
           /\ function \in Function /\ mid \in U64
           /\ left <= mid /\ mid < right /\ 2 * right + 1 < Word
  <1>1. /\ Word \in Nat /\ left \in Nat /\ right \in Nat /\ target \in Nat
        /\ function \in Function /\ mid \in U64
        /\ mid = (right + left) \div 2 /\ 2 * right + 1 < Word
    BY EstimatorsAssumption DEF IInv, TypeOK, VariablesOK, U64, Bounds, SearchInterval
  <1> QED BY <1>1

LEMMA GoLeftInv == ASSUME IInv, GoLeft PROVE IInv'
  <1> USE DEF IInv
  <1>1. pc = "bisect" /\ left < right
    BY DEF GoLeft, Apart, TypeOK, VariablesOK, U64
  <1>2. /\ Word \in Nat /\ left \in Nat /\ right \in Nat /\ target \in Nat
        /\ function \in Function /\ mid \in U64
        /\ left <= mid /\ mid < right /\ 2 * right + 1 < Word
    BY <1>1, InsideInterval
  <1>3. function[mid] > target
    BY DEF GoLeft, Beyond
  <1>4. mid # 0
    <2>1. function[0] \in Nat /\ function[0] <= target
      BY <1>2 DEF Bounds, TypeOK, VariablesOK
    <2> QED BY <1>2, <1>3, <2>1
  <1>5. right' = mid - 1 /\ right' \in U64 /\ 2 * right' + 1 < Word
    <2>1. mid - 1 \in Nat /\ mid - 1 < Word /\ 2 * (mid - 1) + 1 < Word
      BY <1>2, <1>4 DEF U64
    <2> QED BY <1>2, <2>1, SmallSum DEF GoLeft, U64
  <1>6. left <= right' + 1 /\ right' \in Nat
    BY <1>2, <1>5 DEF U64
  <1>7. mid' = (right' + left) \div 2 /\ mid' \in U64
    BY <1>2, <1>5, <1>6, MidpointBetween DEF GoLeft
  <1>8. UNCHANGED <<function, target, rate, left, estimate, pc>>
    BY DEF GoLeft, arguments
  <1>9. AtLeastFrom(right)'
    <2> SUFFICES ASSUME NEW y \in U64, y > right' PROVE function[y] >= target
      BY <1>8 DEF AtLeastFrom
    <2>1. mid <= y
      BY <1>2, <1>5 DEF U64
    <2>2. function[mid] \in Nat /\ function[y] \in Nat /\ function[mid] <= function[y]
      BY <1>2, <2>1, Monotone
    <2> QED BY <1>2, <1>3, <2>2
  <1>10. TypeOK'
    <2>1. mid' \in Int64
      BY <1>2, <1>5, <1>6, <1>7 DEF Int64
    <2> QED BY <1>2, <1>5, <1>7, <1>8, <1>6, <2>1 DEF TypeOK, VariablesOK
  <1>11. SearchInterval'
    BY <1>6, <1>7, <1>8, <1>9 DEF SearchInterval, AtMostUpTo
  <1>12. Bounds'
    <2>1. right' + 1 = mid
      BY <1>2, <1>5 DEF U64
    <2> QED BY <1>1, <1>3, <1>5, <1>8, <2>1 DEF Bounds
  <1> QED BY <1>8, <1>10, <1>11, <1>12 DEF InReach, Reaches

LEMMA GoRightInv == ASSUME IInv, GoRight PROVE IInv'
  <1> USE DEF IInv
  <1>1. pc = "bisect" /\ left < right
    BY DEF GoRight, Apart, TypeOK, VariablesOK, U64
  <1>2. /\ Word \in Nat /\ left \in Nat /\ right \in Nat /\ target \in Nat
        /\ function \in Function /\ mid \in U64
        /\ left <= mid /\ mid < right /\ 2 * right + 1 < Word
    BY <1>1, InsideInterval
  <1>3. function[mid] \in Nat /\ function[mid] <= target
    <2>1. function[mid] \in Nat
      BY <1>2 DEF TypeOK, VariablesOK
    <2> QED BY <1>2, <2>1 DEF GoRight, Beyond
  <1>4. left' = mid + 1 /\ left' \in U64
    <2>1. mid + 1 \in Nat /\ mid + 1 < Word
      BY <1>2 DEF U64
    <2> QED BY <1>2, <2>1, SmallSum DEF GoRight, U64
  <1>5. left' <= right /\ left' \in Nat
    BY <1>2, <1>4 DEF U64
  <1>6. mid' = (right + left') \div 2 /\ mid' \in U64
    BY <1>2, <1>5, MidpointBetween DEF GoRight
  <1>7. UNCHANGED <<function, target, rate, right, estimate, pc>>
    BY DEF GoRight, arguments
  <1>8. AtMostUpTo(left)'
    <2> SUFFICES ASSUME NEW y \in U64, y < left' PROVE function[y] <= target
      BY <1>7 DEF AtMostUpTo
    <2>1. y <= mid
      BY <1>2, <1>4 DEF U64
    <2>2. function[mid] \in Nat /\ function[y] \in Nat /\ function[y] <= function[mid]
      BY <1>2, <2>1, Monotone
    <2> QED BY <1>2, <1>3, <2>2
  <1>9. TypeOK'
    <2>1. mid' \in Int64
      BY <1>2, <1>4, <1>5, <1>6 DEF Int64
    <2> QED BY <1>2, <1>4, <1>5, <1>6, <1>7, <2>1 DEF TypeOK, VariablesOK
  <1>10. SearchInterval'
    BY <1>1, <1>2, <1>5, <1>6, <1>7, <1>8 DEF SearchInterval, AtLeastFrom
  <1>11. Bounds'
    BY <1>1, <1>7 DEF Bounds
  <1> QED BY <1>7, <1>9, <1>10, <1>11 DEF InReach, Reaches

LEMMA ReturnInv == ASSUME IInv, Return PROVE IInv'
  BY DEF Return, arguments, IInv, TypeOK, VariablesOK, SearchInterval, Bounds, InReach, Reaches,
         AtMostUpTo, AtLeastFrom

LEMMA EstimateInt64 == ASSUME EstimateCardinality PROVE estimate' \in Int64
  BY DEF EstimateCardinality, ToInt64

LEMMA EstimateInv == ASSUME IInv, EstimateCardinality PROVE IInv'
  <1> USE DEF IInv
  <1>1. estimate' \in Int64
    BY EstimateInt64
  <1>2. UNCHANGED <<function, target, rate, left, right, mid>> /\ pc' = "estimated" /\ pc # "bracket"
    BY DEF EstimateCardinality, arguments
  <1> QED BY <1>1, <1>2 DEF TypeOK, VariablesOK, SearchInterval, Bounds, InReach, Reaches,
                            AtMostUpTo, AtLeastFrom

LEMMA InvStep == IInv /\ [Next]_vars => IInv'
  <1> SUFFICES ASSUME IInv, [Next]_vars PROVE IInv'
    OBVIOUS
  <1>1. ASSUME UNCHANGED vars PROVE IInv'
    BY <1>1 DEF vars, arguments, IInv, TypeOK, VariablesOK, SearchInterval, Bounds,
                InReach, Reaches, AtMostUpTo, AtLeastFrom
  <1> QED BY <1>1, DoubleInv, BracketedInv, GoLeftInv, GoRightInv, ReturnInv, EstimateInv DEF Next

(***************************************************************************)
(* A target out of reach leaves only the types of the variables: the ends  *)
(* wrap around and the search may end anywhere, or not at all.             *)
(***************************************************************************)
LEMMA VariablesInit == Init => VariablesOK
  <1> SUFFICES ASSUME Init PROVE VariablesOK
    OBVIOUS
  <1>1. Word \in Nat /\ Word >= 4 /\ 0 \in Int64
    BY EstimatorsAssumption DEF Int64
  <1> QED BY <1>1, EstimatorsAssumption DEF Init, VariablesOK, U64

LEMMA MidpointType == ASSUME NEW r \in U64, NEW l \in U64 PROVE Midpoint(r, l) \in U64
  <1>1. Word \in Nat \ {0} /\ r + l \in Nat
    BY EstimatorsAssumption DEF U64
  <1>2. (r + l) % Word \in 0 .. Word - 1
    BY <1>1
  <1> QED BY <1>1, <1>2 DEF Midpoint, U64

LEMMA VariablesStep == VariablesOK /\ [Next]_vars => VariablesOK'
  <1> SUFFICES ASSUME VariablesOK, [Next]_vars PROVE VariablesOK'
    OBVIOUS
  <1>1. Word \in Nat \ {0} /\ \A n \in Int : n % Word \in U64
    BY EstimatorsAssumption DEF U64
  <1>2. left \in U64 /\ right \in U64 /\ mid \in U64 /\ left \in Int /\ right \in Int /\ mid \in Int
    BY <1>1 DEF VariablesOK, U64
  <1>3. ASSUME Double PROVE VariablesOK'
    <2>1. (2 * right) % Word \in U64
      BY <1>1, <1>2
    <2> QED BY <1>2, <1>3, <2>1 DEF VariablesOK, Double, arguments
  <1>4. ASSUME Bracketed PROVE VariablesOK'
    <2>1. Midpoint(right, left) \in U64
      BY <1>2, MidpointType
    <2> QED BY <1>4, <2>1 DEF VariablesOK, Bracketed, arguments
  <1>5. ASSUME GoLeft PROVE VariablesOK'
    <2>1. right' \in U64
      BY <1>1, <1>2, <1>5 DEF GoLeft
    <2>2. Midpoint(right', left) \in U64
      BY <1>2, <2>1, MidpointType
    <2> QED BY <1>5, <2>1, <2>2 DEF VariablesOK, GoLeft, arguments
  <1>6. ASSUME GoRight PROVE VariablesOK'
    <2>1. left' \in U64
      BY <1>1, <1>2, <1>6 DEF GoRight
    <2>2. Midpoint(right, left') \in U64
      BY <1>2, <2>1, MidpointType
    <2> QED BY <1>6, <2>1, <2>2 DEF VariablesOK, GoRight, arguments
  <1>7. ASSUME Return PROVE VariablesOK'
    BY <1>7 DEF VariablesOK, Return, arguments
  <1>8. ASSUME EstimateCardinality PROVE VariablesOK'
    <2>1. estimate' \in Int64
      BY <1>8, EstimateInt64
    <2> QED BY <1>8, <2>1 DEF VariablesOK, EstimateCardinality, arguments
  <1>9. ASSUME UNCHANGED vars PROVE VariablesOK'
    BY <1>9 DEF VariablesOK, vars, arguments
  <1> QED BY <1>3, <1>4, <1>5, <1>6, <1>7, <1>8, <1>9 DEF Next

\* The arguments do not change, so a target is in reach from the start or never.
Inv == VariablesOK /\ (InReach => IInv)

LEMMA ReachStep == [Next]_vars => InReach' = InReach
  BY DEF InReach, Next, Double, Bracketed, GoLeft, GoRight, Return, EstimateCardinality,
         vars, arguments

LEMMA InvariantInit == Init => Inv
  BY InvInit, VariablesInit DEF Inv

LEMMA InvariantStep == Inv /\ [Next]_vars => Inv'
  BY InvStep, VariablesStep, ReachStep DEF Inv

\* The search has ended: its interval is empty.
Emptied == pc \in {"returned", "estimated"} => right <= left

LEMMA EmptiedInit == Init => Emptied
  BY DEF Init, Emptied

LEMMA EmptiedStep == Inv /\ Emptied /\ [Next]_vars => Emptied'
  <1> SUFFICES ASSUME Inv, Emptied, [Next]_vars PROVE Emptied'
    OBVIOUS
  <1>1. left \in Nat /\ right \in Nat
    BY EstimatorsAssumption DEF Inv, VariablesOK, U64
  <1> QED BY <1>1 DEF Emptied, Next, Double, Bracketed, GoLeft, GoRight, Return, Apart,
                      EstimateCardinality, vars, arguments

\* At the return the interval is empty, and mid is its right end.
LEMMA ResultOfInv == ASSUME Inv, Emptied PROVE InverseWithinOne
  <1> SUFFICES ASSUME InReach, pc \in {"returned", "estimated"} PROVE InverseWithinOne
    BY DEF InverseWithinOne
  <1>1. /\ left \in Nat /\ right \in Nat /\ left <= right + 1 /\ right <= left
        /\ mid = (right + left) \div 2
    BY EstimatorsAssumption DEF Inv, IInv, TypeOK, VariablesOK, U64, SearchInterval, Emptied
  <1>2. mid = right
    BY <1>1
  <1> QED BY <1>1, <1>2
          DEF Inv, IInv, Bounds, SearchInterval, AtMostUpTo, AtLeastFrom, InverseWithinOne, U64

-----------------------------------------------------------------------------
(***************************************************************************)
(* Rounding.  A double below Precision is a multiple of 1 / k for some     *)
(* whole k, so the integers on both sides of a quotient are doubles, and   *)
(* the rounded quotient is not beyond them.                                *)
(***************************************************************************)
LEMMA Division ==
    ASSUME NEW a \in Nat, NEW k \in Nat \ {0}
    PROVE  /\ a \div k \in Nat
           /\ (a \div k) * k <= a
           /\ a < (a \div k + 1) * k
  OBVIOUS

LEMMA NearestBetween ==
    ASSUME NEW n \in Nat, NEW d \in Nat \ {0}
    PROVE  /\ Nearest(n, d) \in {n \div d, n \div d + 1}
           /\ n % d = 0 => Nearest(n, d) = n \div d
  BY DEF Nearest

LEMMA SmallerFactor ==
    ASSUME NEW a \in Nat, NEW b \in Nat, NEW c \in Nat, a * c < b * c
    PROVE  a < b
  <1>1. ASSUME b <= a PROVE FALSE
    <2>1. PICK d \in Nat : a = b + d
      BY <1>1
    <2>2. a * c = b * c + d * c /\ d * c \in Nat /\ b * c \in Nat
      BY <2>1
    <2> QED BY <2>2
  <1> QED BY <1>1

LEMMA ProductOrder ==
    ASSUME NEW a \in Nat, NEW b \in Nat, NEW c \in Nat, a <= b
    PROVE  a * c \in Nat /\ b * c \in Nat /\ a * c <= b * c
  <1>1. PICK d \in Nat : b = a + d
    OBVIOUS
  <1>2. b * c = a * c + d * c /\ d * c \in Nat /\ a * c \in Nat
    BY <1>1
  <1> QED BY <1>2

\* A quotient below Precision is counted in parts of one, never in units.
LEMMA NoUnits ==
    ASSUME NEW a \in Nat, NEW b \in Nat \ {0}, a < Precision * b
    PROVE  Units(a, b) = {}
  <1>1. Precision \in Nat
    BY ScaleAssumption
  <1>2. ASSUME NEW u \in Scale \ {1}, Precision * u * b <= 2 * a PROVE FALSE
    <2>1. u \in Nat /\ 2 <= u
      BY <1>2, ScaleAssumption
    <2> DEFINE w == Precision * b
               z == u * w
    <2>2. w \in Nat /\ Precision * u * b = z /\ a < w
      BY <1>1, <2>1
    <2>3. z <= 2 * a
      BY <1>2, <2>2
    <2> HIDE DEF w
    <2>4. 2 * w <= z /\ z \in Nat
      BY <2>1, <2>2, ProductOrder
    <2> HIDE DEF z
    <2> QED BY <2>2, <2>3, <2>4
  <1> QED BY <1>2 DEF Units

(***************************************************************************)
(* The truncated quotient of doubles is the floor of the quotient or the   *)
(* least integer that is not below it.                                     *)
(***************************************************************************)
LEMMA TruncatedBetween ==
    ASSUME NEW a \in Nat, NEW b \in Nat \ {0}, a < Precision * b, NEW t \in Truncated(a, b)
    PROVE  /\ t \in Nat
           /\ a < (t + 1) * b
           /\ t = 0 \/ (t - 1) * b < a
           /\ t <= Precision
  <1>1. PICK k \in Scale : k \in Parts(a, b) /\ t = Nearest(k * a, b) \div k
    BY NoUnits DEF Truncated, Parts
  <1>2. k \in Nat \ {0} /\ k * a \in Nat /\ k * a < Precision * b /\ Precision \in Nat
    BY <1>1, ScaleAssumption DEF Parts
  <1> DEFINE q == (k * a) \div b
             r == Nearest(k * a, b)
  <1>3. q \in Nat /\ q * b <= k * a /\ k * a < (q + 1) * b
    BY <1>2, Division
  <1>4. r \in {q, q + 1} /\ (r = q + 1 => q * b < k * a)
    <2>1. ASSUME q * b = k * a PROVE (k * a) % b = 0
      BY <1>2, <1>3, <2>1
    <2>2. r \in {q, q + 1} /\ ((k * a) % b = 0 => r = q)
      BY <1>2, NearestBetween
    <2>3. q * b \in Nat
      BY <1>2, <1>3
    <2> HIDE DEF q, r
    <2> QED BY <1>2, <1>3, <2>1, <2>2, <2>3
  <1>5. t = r \div k
    BY <1>1
  <1> HIDE DEF q, r
  <1>6. r \in Nat /\ t \in Nat /\ t * k <= r /\ r < (t + 1) * k
    BY <1>2, <1>3, <1>4, <1>5, Division
  <1>7. a < (t + 1) * b
    <2>1. q + 1 <= (t + 1) * k
      BY <1>2, <1>3, <1>4, <1>6
    <2>2. (t + 1) * k \in Nat
      BY <1>2, <1>6
    <2>3. (q + 1) * b <= ((t + 1) * k) * b
      BY <1>3, <2>1, <2>2, ProductOrder
    <2>4. ((t + 1) * k) * b = ((t + 1) * b) * k /\ k * a = a * k /\ (t + 1) * b \in Nat
      BY <1>2, <1>6
    <2>5. a * k < ((t + 1) * b) * k
      BY <1>2, <1>3, <2>3, <2>4
    <2> QED BY <1>2, <2>4, <2>5, SmallerFactor
  <1>8. ASSUME t # 0 PROVE (t - 1) * b < a
    <2>1. t - 1 \in Nat /\ (t - 1) * k \in Nat /\ (t - 1) * b \in Nat
      BY <1>2, <1>6, <1>8
    <2>2. t * k = (t - 1) * k + k
      BY <1>2, <1>6
    <2>3. (t - 1) * k <= q
      BY <1>2, <1>3, <1>4, <1>6, <2>1, <2>2
    <2>4. ((t - 1) * k) * b <= q * b
      BY <1>3, <2>1, <2>3, ProductOrder
    <2>5. ((t - 1) * k) * b < k * a
      <3>1. CASE q * b < k * a
        BY <1>2, <1>3, <2>1, <2>4, <3>1
      <3>2. CASE r = q
        <4>1. (t - 1) * k < q
          BY <1>2, <1>3, <1>6, <2>1, <2>2, <3>2
        <4>2. (t - 1) * k + 1 <= q
          BY <1>3, <2>1, <4>1
        <4>3. ((t - 1) * k + 1) * b <= q * b
          BY <1>3, <2>1, <4>2, ProductOrder
        <4>4. ((t - 1) * k + 1) * b = ((t - 1) * k) * b + b
          BY <2>1
        <4> QED BY <1>2, <1>3, <2>1, <4>3, <4>4
      <3> QED BY <1>3, <1>4, <3>1, <3>2
    <2>6. ((t - 1) * k) * b = ((t - 1) * b) * k /\ k * a = a * k
      BY <1>2, <2>1
    <2> QED BY <1>2, <2>1, <2>5, <2>6, SmallerFactor
  <1>9. t <= Precision
    <2>1. CASE t = 0
      BY <1>2, <2>1
    <2>2. CASE t # 0
      <3>1. t - 1 \in Nat /\ (t - 1) * b \in Nat
        BY <1>6, <2>2
      <3>2. (t - 1) * b < Precision * b
        BY <1>2, <1>8, <2>2, <3>1
      <3>3. t - 1 < Precision
        BY <1>2, <3>1, <3>2, SmallerFactor
      <3> QED BY <1>2, <1>6, <3>3
    <2> QED BY <2>1, <2>2
  <1> QED BY <1>6, <1>7, <1>8, <1>9

\* An integer below Precision is a double.
LEMMA ToDoubleExact ==
    ASSUME NEW x \in Nat, x < Precision, NEW t \in ToDouble(x)
    PROVE  t = x
  <1>1. Precision \in Nat
    BY ScaleAssumption
  <1>2. PICK k \in Scale : t = Nearest(k * x, 1) \div k
    <2>1. x < Precision * 1
      BY <1>1
    <2> QED BY <2>1, NoUnits DEF ToDouble, Truncated, Parts
  <1>3. k \in Nat \ {0} /\ k * x \in Nat
    BY ScaleAssumption
  <1>4. Nearest(k * x, 1) = k * x
    <2>1. (k * x) % 1 = 0 /\ (k * x) \div 1 = k * x
      BY <1>3
    <2> QED BY <1>3, <2>1, NearestBetween
  <1>5. (k * x) \div k = x
    <2> DEFINE d == (k * x) \div k
    <2>1. d \in Nat /\ d * k <= k * x /\ k * x < (d + 1) * k
      BY <1>3, Division
    <2>2. ~(d < x)
      <3>1. ASSUME d + 1 <= x PROVE FALSE
        <4>1. (d + 1) * k <= x * k
          BY <1>3, <2>1, <3>1, ProductOrder
        <4> QED BY <1>3, <2>1, <4>1
      <3> QED BY <2>1, <3>1
    <2>3. ~(x < d)
      <3>1. ASSUME x + 1 <= d PROVE FALSE
        <4>1. (x + 1) * k <= d * k
          BY <1>3, <2>1, <3>1, ProductOrder
        <4>2. (x + 1) * k = x * k + k
          BY <1>3
        <4> QED BY <1>3, <2>1, <4>1, <4>2
      <3> QED BY <2>1, <3>1
    <2> QED BY <2>1, <2>2, <2>3
  <1> QED BY <1>2, <1>4, <1>5

-----------------------------------------------------------------------------
\* Where a double has every integer, the estimate is a truncated quotient.
Exact == mid < Precision /\ mid * rate.of < Precision * rate.kept

Quotient == pc = "estimated" /\ InReach /\ Exact => estimate \in Scaled(mid)

LEMMA Arguments ==
    ASSUME VariablesOK
    PROVE  /\ mid \in Nat /\ rate.kept \in Nat \ {0} /\ rate.of \in Nat \ {0}
           /\ mid * rate.of \in Nat
  <1>1. Precision \in Nat /\ rate \in Rate
    BY ScaleAssumption DEF VariablesOK
  <1>2. rate.kept \in 1 .. Precision /\ rate.of \in Scale
    BY <1>1, RateAssumption
  <1>3. mid \in Nat
    BY EstimatorsAssumption DEF VariablesOK, U64
  <1>4. rate.kept \in Nat \ {0} /\ rate.of \in Nat \ {0}
    <2>1. rate.of \in Nat \ {0}
      BY <1>2, ScaleAssumption
    <2>2. rate.kept \in Nat \ {0}
      BY <1>1, <1>2
    <2> QED BY <2>1, <2>2
  <1> QED BY <1>3, <1>4

LEMMA QuotientStep == Inv /\ Quotient /\ [Next]_vars => Quotient'
  <1> SUFFICES ASSUME Inv, Quotient, [Next]_vars PROVE Quotient'
    OBVIOUS
  <1>1. ASSUME EstimateCardinality PROVE Quotient'
    <2> SUFFICES ASSUME Exact PROVE estimate' \in Scaled(mid)
      BY <1>1 DEF Quotient, Exact, Scaled, EstimateCardinality, arguments
    <2>1. /\ mid \in Nat /\ rate.kept \in Nat \ {0} /\ rate.of \in Nat \ {0}
          /\ mid * rate.of \in Nat
      BY Arguments DEF Inv
    <2>2. PICK sampled \in ToDouble(mid) :
             estimate' \in IF sampled \in Int64 THEN UNION {ToInt64(x) : x \in Scaled(sampled)}
                           ELSE Int64
      BY <1>1 DEF EstimateCardinality
    <2>3. sampled = mid
      BY <2>1, ToDoubleExact DEF Exact
    <2>4. Precision \in Nat /\ \A x \in Nat : x <= Precision => x \in Int64
      BY EstimatorsAssumption, ScaleAssumption DEF Int64
    <2>5. PICK x \in Scaled(mid) : estimate' \in ToInt64(x)
      BY <2>1, <2>2, <2>3, <2>4 DEF Exact
    <2>6. x \in Nat /\ x <= Precision
      BY <2>1, TruncatedBetween DEF Scaled, Exact
    <2> QED BY <2>4, <2>5, <2>6 DEF ToInt64
  <1>2. ASSUME UNCHANGED vars PROVE Quotient'
    BY <1>2 DEF Quotient, InReach, Exact, Scaled, vars, arguments
  <1> QED BY <1>1, <1>2 DEF Quotient, Next, Double, Bracketed, GoLeft, GoRight, Return

LEMMA EstimateOfInv ==
    ASSUME Inv, Emptied, Quotient PROVE EstimateWithinOne
  <1> SUFFICES ASSUME InReach, pc = "estimated", Exact, NEW y \in U64
               PROVE  /\ y * rate.of <= (estimate - 1) * rate.kept => function[y] <= target
                      /\ y * rate.of >= (estimate + 1) * rate.kept => function[y] >= target
    BY DEF EstimateWithinOne, Exact
  <1>1. /\ mid \in Nat /\ rate.kept \in Nat \ {0} /\ rate.of \in Nat \ {0}
        /\ mid * rate.of \in Nat
    BY Arguments DEF Inv
  <1>2. y \in Nat /\ y * rate.of \in Nat /\ mid \in U64
    BY <1>1, EstimatorsAssumption DEF U64, Inv, VariablesOK
  <1>3. /\ estimate \in Nat
        /\ mid * rate.of < (estimate + 1) * rate.kept
        /\ estimate = 0 \/ (estimate - 1) * rate.kept < mid * rate.of
    BY <1>1, TruncatedBetween DEF Quotient, Scaled, Exact
  <1>4. AtMostUpTo(mid) /\ AtLeastFrom(mid)
    BY ResultOfInv DEF InverseWithinOne
  <1>5. ASSUME y * rate.of <= (estimate - 1) * rate.kept PROVE function[y] <= target
    <2>1. estimate # 0
      <3>1. ASSUME estimate = 0 PROVE FALSE
        <4>1. (estimate - 1) * rate.kept = 0 - rate.kept
          BY <1>1, <3>1
        <4> QED BY <1>1, <1>2, <1>5, <4>1
      <3> QED BY <3>1
    <2>2. (estimate - 1) * rate.kept \in Nat
      BY <1>1, <1>3, <2>1
    <2>3. y * rate.of < mid * rate.of
      BY <1>1, <1>2, <1>3, <1>5, <2>1, <2>2
    <2>4. y < mid
      BY <1>1, <1>2, <2>3, SmallerFactor
    <2> QED BY <1>4, <2>4 DEF AtMostUpTo
  <1>6. ASSUME y * rate.of >= (estimate + 1) * rate.kept PROVE function[y] >= target
    <2>1. (estimate + 1) * rate.kept \in Nat
      BY <1>1, <1>3
    <2>2. mid * rate.of < y * rate.of
      BY <1>1, <1>2, <1>3, <1>6, <2>1
    <2>3. y > mid
      BY <1>1, <1>2, <2>2, SmallerFactor
    <2> QED BY <1>4, <2>3 DEF AtLeastFrom
  <1> QED BY <1>5, <1>6

-----------------------------------------------------------------------------
\* The variables keep their types, and no sum of the two ends wraps around if
\* the target is in reach.
THEOREM TypeCorrect == Spec => []TypeOK
  <1>1. Inv => TypeOK
    BY DEF Inv, IInv, TypeOK
  <1> QED BY <1>1, InvariantInit, InvariantStep, PTL DEF Spec

\* The loop invariant of the binary search.
THEOREM SearchCorrect == Spec => []SearchInterval
  <1>1. Inv => SearchInterval
    BY DEF Inv, IInv, SearchInterval
  <1> QED BY <1>1, InvariantInit, InvariantStep, PTL DEF Spec

\* The result of InvertMonotonic is at most one off.
THEOREM InverseCorrect == Spec => []InverseWithinOne
  BY InvariantInit, InvariantStep, EmptiedInit, EmptiedStep, ResultOfInv, PTL DEF Spec

\* The division of doubles by the sampling rate keeps the estimate within one
\* of what the search found out.
THEOREM EstimateCorrect == Spec => []EstimateWithinOne
  <1>1. Init => Quotient
    BY DEF Init, Quotient
  <1> QED BY <1>1, InvariantInit, InvariantStep, EmptiedInit, EmptiedStep, QuotientStep,
             EstimateOfInv, PTL DEF Spec
=============================================================================
