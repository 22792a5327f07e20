--------------------------- MODULE SecureShuffle ---------------------------
(***************************************************************************)
(* crypto/shuffle.cc: SecureShuffleWithSeed, a Fisher-Yates shuffle whose  *)
(* random numbers come from a generator created from a seed.  Several      *)
(* parties each shuffle a vector of their own, as the holders of two       *)
(* shares do, some with the same seed and some with others.                *)
(*                                                                         *)
(* Vectors are functions on 0 .. n - 1, as in the code.  orders is history:*)
(* the permutations that a party's turns of the loop have made so far.     *)
(***************************************************************************)
EXTENDS Integers, FiniteSets, Functions

CONSTANTS
    Party,
    Element,    \* what a vector may hold: uint32_t
    Input,      \* the vectors to shuffle
    Seed,       \* the seeds
    ValidSeed,  \* those with a key and an IV of the required lengths
    Rand,       \* Rand[s][i]: the i-th uint128 of the bytes that s expands to
    RandRange   \* the numbers whose bytes an unsigned int can count: 2^28

Size(d) == Cardinality(DOMAIN d)

ASSUME ShuffleAssumption ==
    /\ ValidSeed \subseteq Seed
    /\ \A d \in Input : Size(d) \in Nat /\ d \in [0 .. Size(d) - 1 -> Element]
    /\ \A s \in ValidSeed, d \in Input : \A i \in DOMAIN d : Rand[s][i] \in Nat
    /\ RandRange \in Nat \ {0}
    /\ Input # {} /\ Seed # {}

VARIABLES
    input, seed,   \* what each party was called with
    data,          \* the vector, which is shuffled in place
    local,         \* local[p]: the program counter of p's call, rand and i
    orders         \* orders[p][k]: what stands where after k turns of the loop

vars == <<input, seed, data, local, orders>>

\* pc: idle, call, swap (the for loop), or the status that was returned.
Local(pc, rand, i) == [pc |-> pc, rand |-> rand, i |-> i]
NoRand == << >>
Results == {"Ok", "InvalidArgument", "Internal"}

At(p, pc) == local[p].pc = pc
n(p) == Size(data[p])
Unmoved(d) == [k \in {0} |-> [j \in DOMAIN d |-> j]]

\* Until its call a party has an arbitrary vector and an arbitrary seed.
AnyVector == CHOOSE d \in Input : TRUE
AnySeed == CHOOSE s \in Seed : TRUE

Init ==
    /\ input = [p \in Party |-> AnyVector]
    /\ seed = [p \in Party |-> AnySeed]
    /\ data = input
    /\ local = [p \in Party |-> Local("idle", NoRand, 0)]
    /\ orders = [p \in Party |-> Unmoved(AnyVector)]

Set(p, l) == local' = [local EXCEPT ![p] = l]

\* SecureShuffleWithSeed(d, s).
Call(p, d, s) ==
    /\ At(p, "idle")
    /\ input' = [input EXCEPT ![p] = d] /\ data' = [data EXCEPT ![p] = d]
    /\ seed' = [seed EXCEPT ![p] = s]
    /\ orders' = [orders EXCEPT ![p] = Unmoved(d)]
    /\ Set(p, Local("call", NoRand, 0))

Return(p, status) ==
    /\ Set(p, Local(status, NoRand, 0))
    /\ UNCHANGED <<input, seed, data, orders>>

\* Nothing to do for at most one element; the seed is not even looked at.
ReturnTrivial(p) == At(p, "call") /\ n(p) <= 1 /\ Return(p, "Ok")

RejectSeed(p) ==
    /\ At(p, "call") /\ n(p) > 1 /\ seed[p] \notin ValidSeed
    /\ Return(p, "InvalidArgument")

(***************************************************************************)
(* The generator passes the number of bytes to OpenSSL as an int: what is  *)
(* left of it modulo RandRange is filled, the rest keeps its zeros, and a  *)
(* negative number of bytes is an error.                                   *)
(***************************************************************************)
Filled(m) == m % RandRange
TooManyBytes(m) == 2 * Filled(m) >= RandRange
RandOf(s, m) == [i \in 0 .. m - 1 |-> IF i < Filled(m) THEN Rand[s][i] ELSE 0]

\* Mutant of MayFail: numbers are drawn one by one, which may fail later.
MayFailLater(p) == At(p, "call") \/ At(p, "swap")
MayFail(p) == At(p, "call")

\* OpenSSL has no context, or does not encrypt.
GeneratorError(p) ==
    /\ MayFail(p) /\ n(p) > 1 /\ seed[p] \in ValidSeed
    /\ Return(p, "Internal")

\* Mutant of SeedOf: what the vector holds has an influence on the numbers.
SeedOfData(p) == IF IsInjective(data[p]) THEN seed[p] ELSE CHOOSE s \in ValidSeed \ {seed[p]} : TRUE
SeedOf(p) == seed[p]

\* data.size() * sizeof(uint128) bytes of a new generator.
GenerateRand(p) ==
    /\ At(p, "call") /\ n(p) > 1 /\ seed[p] \in ValidSeed /\ ~TooManyBytes(n(p))
    /\ Set(p, Local("swap", RandOf(SeedOf(p), n(p)), 0))
    /\ UNCHANGED <<input, seed, data, orders>>

\* Mutant of Position: any position for every i, the naive shuffle.
PositionAnywhere(i, rand, m) == rand[i] % m
Position(i, rand, m) == i + (rand[i] % (m - i))

\* Mutant of Swapped: one of the two assignments is missing.
Overwritten(d, i, j) == [d EXCEPT ![i] = d[j]]
Swapped(d, i, j) == [d EXCEPT ![i] = d[j], ![j] = d[i]]

\* Mutant of Last: one turn too many.
LastPastEnd(p) == n(p)
Last(p) == n(p) - 1

Turned(history, i, j) ==
    [k \in 0 .. i + 1 |-> IF k = i + 1 THEN Swapped(history[i], i, j) ELSE history[k]]

Swap(p) ==
    LET i == local[p].i
        j == Position(i, local[p].rand, n(p)) IN
    /\ At(p, "swap") /\ i < Last(p)
    /\ data' = [data EXCEPT ![p] = Swapped(data[p], i, j)]
    /\ orders' = [orders EXCEPT ![p] = Turned(orders[p], i, j)]
    /\ Set(p, [local[p] EXCEPT !.i = i + 1])
    /\ UNCHANGED <<input, seed>>

ReturnShuffled(p) == At(p, "swap") /\ local[p].i >= Last(p) /\ Return(p, "Ok")

Step(p) ==
    \/ ReturnTrivial(p) \/ RejectSeed(p) \/ GeneratorError(p)
    \/ GenerateRand(p) \/ Swap(p) \/ ReturnShuffled(p)

Next == \E p \in Party : Step(p) \/ \E d \in Input, s \in Seed : Call(p, d, s)

Spec == Init /\ [][Next]_vars
-----------------------------------------------------------------------------
(***************************************************************************)
(* Type invariant; rand has a number for every i the loop comes to.        *)
(***************************************************************************)
TypeOK ==
    /\ input \in [Party -> Input] /\ seed \in [Party -> Seed]
    /\ DOMAIN data = Party /\ DOMAIN local = Party /\ DOMAIN orders = Party
    /\ \A p \in Party :
          /\ data[p] \in [DOMAIN input[p] -> Element]
          /\ local[p] = Local(local[p].pc, local[p].rand, local[p].i)
          /\ local[p].pc \in {"idle", "call", "swap"} \cup Results
          /\ At(p, "swap") =>
                /\ seed[p] \in ValidSeed /\ n(p) > 1 /\ ~TooManyBytes(n(p))
                /\ local[p].i \in 0 .. n(p) - 1
                /\ local[p].rand = RandOf(seed[p], n(p))

Arranged(d, order) == [k \in DOMAIN d |-> d[order[k]]]
Orders(d) == Injection(DOMAIN d, DOMAIN d)

(***************************************************************************)
(* At every moment the vector is a rearrangement of the input: nothing is  *)
(* lost or doubled (shuffle_test.cc sorts one result and compares it).     *)
(***************************************************************************)
Rearranged ==
    \A p \in Party : \E order \in Orders(input[p]) : data[p] = Arranged(input[p], order)

\* A call that fails leaves the vector of its caller alone.
FailureKeepsData ==
    \A p \in Party : local[p].pc \in Results \ {"Ok"} => data[p] = input[p]

Shuffled(p) == At(p, "Ok") /\ seed[p] \in ValidSeed

(***************************************************************************)
(* Parties with the same seed apply one and the same permutation, whatever *)
(* their vectors hold: what stood at one position of two vectors, the two  *)
(* shares of a number, stands together afterwards as well.                 *)
(***************************************************************************)
SameSeedSameOrder ==
    \A p, q \in Party :
        Shuffled(p) /\ Shuffled(q) /\ seed[p] = seed[q] /\ n(p) = n(q) =>
            \E order \in Orders(input[p]) :
                /\ data[p] = Arranged(input[p], order)
                /\ data[q] = Arranged(input[q], order)

(***************************************************************************)
(* Fisher-Yates makes every permutation from exactly one choice of swaps:  *)
(* two parties get the same result from the same distinct elements only if *)
(* they drew the same position from every interval [i, n - 1] (shuffle.h). *)
(* As there are n! choices, all n! permutations are equally likely.        *)
(***************************************************************************)
SwapsDecideOrder ==
    \A p, q \in Party :
        /\ Shuffled(p) /\ Shuffled(q)
        /\ input[p] = input[q] /\ IsInjective(input[p])
        => (data[p] = data[q] <=>
              \A i \in 0 .. n(p) - 2 :
                  Rand[seed[p]][i] % (n(p) - i) = Rand[seed[q]][i] % (n(p) - i))
=============================================================================
