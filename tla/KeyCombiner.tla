---------------------------- MODULE KeyCombiner ----------------------------
(***************************************************************************)
(* CombineElGamalPublicKeys of any_sketch/crypto/sketch_encrypter.cc: the  *)
(* public keys of several workers are added up, one by one, to the key the *)
(* publishers encrypt with.  What a call returns may be combined again.    *)
(*                                                                         *)
(* The curve is a cyclic group of Order points; the element y = x g is     *)
(* represented by x, and bytes that are no usable point by other numbers.  *)
(***************************************************************************)
EXTENDS Integers, Sequences, FiniteSets, Functions, SequencesExt

CONSTANTS
    Worker,
    WorkerKey,     \* WorkerKey[w]: the generator and the element w publishes
    Order,         \* the number of points of the curve
    MaxKeys,       \* bound: the keys of a call
    MaxCombined    \* bound: the combined keys that are kept

ASSUME KeysAssumption ==
    /\ IsFiniteSet(Worker)
    /\ WorkerKey \in [Worker -> [generator : Int, element : Int]]
    /\ Order \in Nat \ {0}
    /\ MaxKeys \in Nat

\* The bytes that CreateECPoint accepts: a point that is not the neutral one.
Point == 1 .. Order - 1

VARIABLES
    known,     \* the keys somebody has, each with the workers it was made from
    combine    \* the call of CombineElGamalPublicKeys

\* parts counts how often the key of each worker went into a key.
Own(w) == [key |-> WorkerKey[w], parts |-> [v \in Worker |-> IF v = w THEN 1 ELSE 0]]
PartsOf(entries) ==
    [w \in Worker |-> SumFunction([j \in DOMAIN entries |-> entries[j].parts[w]])]

\* keys holds entries of known; curve says whether curve_id names a curve.
NoCombine == [pc |-> "none", curve |-> FALSE, keys |-> << >>, i |-> 0, element |-> 0]

CombineInit ==
    /\ known = {Own(w) : w \in Worker}
    /\ combine = NoCombine

CombineAt(pc) == combine.pc = pc

CallCombine ==
    /\ CombineAt("none")
    /\ Cardinality(known) < Cardinality(Worker) + MaxCombined
    /\ \E keys \in BoundedSeq(known, MaxKeys), curve \in BOOLEAN :
          combine' = [NoCombine EXCEPT !.pc = "call", !.keys = keys, !.curve = curve]
    /\ UNCHANGED known

CombineFails == combine' = NoCombine /\ UNCHANGED known
CombineOk(key) ==
    /\ known' = known \cup {[key |-> key, parts |-> PartsOf(combine.keys)]}
    /\ combine' = NoCombine

RejectEmpty == CombineAt("call") /\ combine.keys = << >> /\ CombineFails

\* A single key is returned as it is; nothing validates it.
ReturnSole ==
    /\ CombineAt("call") /\ Len(combine.keys) = 1
    /\ CombineOk(combine.keys[1].key)

generator == combine.keys[1].key.generator
KeyElement(i) == combine.keys[i].key.element

\* Mutant of LoopStart: the loop starts again with the first key.
LoopStartAgain == 1

LoopStart == 2

FirstElement ==
    /\ CombineAt("call") /\ Len(combine.keys) > 1
    /\ combine.curve /\ KeyElement(1) \in Point
    /\ combine' = [combine EXCEPT !.pc = "add", !.i = LoopStart, !.element = KeyElement(1)]
    /\ UNCHANGED known

RejectFirst ==
    /\ CombineAt("call") /\ Len(combine.keys) > 1
    /\ ~combine.curve \/ KeyElement(1) \notin Point
    /\ CombineFails

Adding == CombineAt("add") /\ combine.i <= Len(combine.keys)

RejectKey ==
    /\ Adding
    /\ \/ combine.keys[combine.i].key.generator # generator
       \/ KeyElement(combine.i) \notin Point
    /\ CombineFails

AddElement ==
    /\ Adding
    /\ combine.keys[combine.i].key.generator = generator
    /\ KeyElement(combine.i) \in Point
    /\ combine' = [combine EXCEPT !.i = combine.i + 1,
                     !.element = (combine.element + KeyElement(combine.i)) % Order]
    /\ UNCHANGED known

\* Add or ToBytesCompressed of the curve library fails.
CurveError == CombineAt("add") /\ CombineFails

ReturnCombined ==
    /\ CombineAt("add") /\ combine.i > Len(combine.keys)
    /\ CombineOk([generator |-> generator, element |-> combine.element])

CombineStep ==
    \/ RejectEmpty \/ ReturnSole \/ FirstElement \/ RejectFirst
    \/ RejectKey \/ AddElement \/ CurveError \/ ReturnCombined

PartsCount(parts) == SumFunctionOnSet(parts, Worker)
SumOfParts(parts) ==
    SumFunctionOnSet([w \in Worker |-> parts[w] * WorkerKey[w].element], Worker) % Order

(***************************************************************************)
(* A combined key is the sum of the keys of its workers, each counted as   *)
(* often as it went in, whatever the order and however many calls it took, *)
(* and only of usable keys with one generator: the workers decrypt what is *)
(* encrypted with it when each applies its own secret, in any order.       *)
(***************************************************************************)
CombinedIsSum ==
    \A entry \in known : PartsCount(entry.parts) > 1 =>
        /\ entry.key.element = SumOfParts(entry.parts)
        /\ \A w \in Worker : entry.parts[w] > 0 =>
              /\ WorkerKey[w].element \in Point
              /\ WorkerKey[w].generator = entry.key.generator
=============================================================================
