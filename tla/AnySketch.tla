----------------------------- MODULE AnySketch -----------------------------
(***************************************************************************)
(* any_sketch/any_sketch.cc: sketches as sparse maps from a register index *)
(* to a tuple of values, with Insert, AggregateIntoRegister, Merge and     *)
(* MergeAll.  Several sketches live side by side, each built with its own  *)
(* distributions and value functions, as the constructor allows.           *)
(*                                                                         *)
(* Insert and AggregateIntoRegister are one step each.  Merge and MergeAll *)
(* are loops over the registers of the other sketch, a hash map whose      *)
(* order is unspecified: call holds the loop's state and each register is  *)
(* a step of its own, in any order.  A sketch is not shared between        *)
(* threads, so no other operation runs while a call is in progress.        *)
(*                                                                         *)
(* content is a history variable, which the code does not keep:            *)
(* content[s] is the bag of what was ever put in sketch s, directly or     *)
(* through the sketches merged into it.                                    *)
(***************************************************************************)
EXTENDS Distributions, Sequences, SequencesExt, Bags

CONSTANTS
    Sketch,            \* the sketches
    IndexDists,        \* IndexDists[s]: the distributions of s's indexes
    ValueFunctions,    \* ValueFunctions[s]: sequence of [aggregator, distribution]
    Item,              \* what Insert is called with, see Distributions
    RawContribution,   \* what AggregateIntoRegister is called with: [index, values]
    MergeList,         \* what MergeAll is called with: sequences of sketches
    Word,              \* number of values of a uint64_t: 2^64 in the code
    MaxContent         \* bound: contributions a sketch may hold

ASSUME WordAssumption == Word \in Nat \ {0, 1}

\* The values of an int64_t.
Int64 == -(Word \div 2) .. Word - Word \div 2 - 1

\* What the program's types give: every sketch has a list of value functions
\* whose bounds are int64_t, and so are the values of a register.
ASSUME ConfigurationAssumption ==
    /\ \A s \in Sketch :
          /\ Len(ValueFunctions[s]) \in Nat
          /\ \A k \in 1 .. Len(ValueFunctions[s]) :
                /\ ValueFunctions[s][k].aggregator \in {"SUM", "UNIQUE"}
                /\ ValueFunctions[s][k].distribution.min \in Int64
                /\ ValueFunctions[s][k].distribution.max \in Int64
    /\ MergeList \subseteq Seq(Sketch)
    /\ \A c \in RawContribution : c.values \in Seq(Int64)

VARIABLES
    registers,   \* registers[s]: partial function from index to values
    call,        \* the Merge or MergeAll in progress
    status,      \* what the last call returned
    content      \* history: content[s], a bag of contributions

vars == <<registers, call, status, content>>

kUniqueAggregatorDestroyedValue == -1

Columns(s) == 1 .. Len(ValueFunctions[s])
register_size(s) == Len(ValueFunctions[s])
ValueDists(s) == [k \in Columns(s) |-> ValueFunctions[s][k].distribution]

\* An int64_t: builds let a sum wrap around in two's complement.
Wrapped(x) == ((x + Word \div 2) % Word) - Word \div 2

SumAggregate(value1, value2) == Wrapped(value1 + value2)

\* Mutants of UniqueAggregate: the first value is kept; a destroyed value is
\* replaced by the next one.
UniqueKeepsFirst(value1, value2) == value1

UniqueRevives(value1, value2) ==
    IF value1 \in {value2, kUniqueAggregatorDestroyedValue} THEN value2
    ELSE kUniqueAggregatorDestroyedValue

UniqueAggregate(value1, value2) ==
    IF value1 = value2 THEN value1 ELSE kUniqueAggregatorDestroyedValue

Aggregate(type, value1, value2) ==
    IF type = "SUM" THEN SumAggregate(value1, value2) ELSE UniqueAggregate(value1, value2)

\* Mutant of Aggregated: an existing register is overwritten.
AggregatedOverwrites(s, index, values) ==
    [i \in DOMAIN registers[s] \cup {index} |-> IF i = index THEN values ELSE registers[s][i]]

\* Every AggregateIntoRegister that passes its dimension check: try_emplace,
\* then a copy of the values or one aggregation per column.
Aggregated(s, index, values) ==
    IF index \notin DOMAIN registers[s]
    THEN [i \in DOMAIN registers[s] \cup {index} |->
            IF i = index THEN values ELSE registers[s][i]]
    ELSE [registers[s] EXCEPT ![index] =
            [k \in Columns(s) |-> Aggregate(ValueFunctions[s][k].aggregator,
                                            registers[s][index][k], values[k])]]

\* Mutant of Linearize: the product of the sizes is left out.
LinearizeAdds(acc, part, dsize) ==
    [linearized |-> (acc.linearized + part) % Word,
     product    |-> (acc.product * dsize) % Word]

(***************************************************************************)
(* GetIndex folds the parts of the index, both accumulators being uint64_t.*)
(***************************************************************************)
Linearize(acc, part, dsize) ==
    [linearized |-> (acc.product * acc.linearized + part) % Word,
     product    |-> (acc.product * dsize) % Word]

LinearizeStart == [linearized |-> 0, product |-> 1]

GetIndex(ds, vector) ==
    FoldLeftDomain(LAMBDA acc, k :
                       Linearize(acc, vector[k] - ds[k].min, size(ds[k])),
                   LinearizeStart, vector).linearized
-----------------------------------------------------------------------------
Idle == [to |-> "none"]
Busy == call # Idle

\* A contribution, for the history: an item and the vector of indexes it was
\* mapped to, both <<>> when the caller gave a register index of its own.
Contribution(item, index, vector, values) ==
    [item |-> item, index |-> index, vector |-> vector, values |-> values]

AtIndex(bag, index) ==
    [c \in {d \in DOMAIN bag : d.index = index} |-> bag[c]]

\* AggregateIntoRegister past its dimension check; bag is what the values
\* stand for.
Contribute(s, index, values, bag) ==
    /\ registers' = [registers EXCEPT ![s] = Aggregated(s, index, values)]
    /\ content' = [content EXCEPT ![s] = @ (+) bag]

Init ==
    /\ registers = [s \in Sketch |-> << >>]
    /\ call = Idle
    /\ status = "none"
    /\ content = [s \in Sketch |-> EmptyBag]

Fits(n) == n <= MaxContent

\* AggregateIntoRegister called by a user of the class.
AggregateIntoRegister(s, c) ==
    /\ ~Busy
    /\ \/ /\ Len(c.values) = register_size(s)
          /\ Fits(BagCardinality(content[s]) + 1)
          /\ Contribute(s, c.index, c.values,
                        SetToBag({Contribution(<< >>, c.index, << >>, c.values)}))
          /\ status' = "Ok"
       \/ /\ Len(c.values) # register_size(s)
          /\ status' = "InvalidArgument"
          /\ UNCHANGED <<registers, content>>
    /\ UNCHANGED call

(***************************************************************************)
(* Insert: the index, then every value, then one AggregateIntoRegister; an *)
(* error of any distribution returns before the sketch is touched.         *)
(***************************************************************************)
Insert(s, item) ==
    /\ ~Busy
    /\ \/ \E vector \in ApplyAll(IndexDists[s], item),
             values \in ApplyAll(ValueDists(s), item) :
             LET index == GetIndex(IndexDists[s], vector) IN
             /\ Fits(BagCardinality(content[s]) + 1)
             /\ Contribute(s, index, values,
                           SetToBag({Contribution(item, index, vector, values)}))
             /\ status' = "Ok"
       \/ /\ \/ ApplyAll(IndexDists[s], item) = {}
             \/ ApplyAll(ValueDists(s), item) = {}
          /\ status' = "InvalidArgument"
          /\ UNCHANGED <<registers, content>>
    /\ UNCHANGED call

(***************************************************************************)
(* Merge(other) is MergeAll of one sketch.  call.others are the sketches   *)
(* still to merge, the head being the one under way, and call.todo the     *)
(* registers of the head not aggregated yet.  call.before is history: all  *)
(* registers as they were when the merge of the head began.                *)
(***************************************************************************)
Iterate(s, others) ==
    [to |-> s, others |-> others,
     todo |-> IF others = << >> THEN {} ELSE DOMAIN registers[Head(others)],
     before |-> registers]

MergeAll(s, others) ==
    /\ ~Busy
    /\ Fits(BagCardinality(content[s])
            + FoldLeft(LAMBDA n, o : n + BagCardinality(content[o]), 0, others))
    /\ call' = Iterate(s, others)
    /\ UNCHANGED <<registers, status, content>>

Merging == Busy /\ call.others # << >>

\* Mutant of SameWidth: the number of values is not compared.
AnyWidth(s, other) == TRUE
SameWidth(s, other) == register_size(other) = register_size(s)

\* Mutant of Remaining: the iterator does not move on.
RemainingAll(index) == call.todo
Remaining(index) == call.todo \ {index}

\* One turn of the loop of Merge: AggregateIntoRegister of the values of a
\* register of the other sketch, which fails when the widths differ.
MergeRegister(index) ==
    /\ Merging /\ index \in call.todo
    /\ LET s == call.to
           other == Head(call.others) IN
       \/ /\ SameWidth(s, other)
          /\ Contribute(s, index, registers[other][index],
                        AtIndex(content[other], index))
          /\ call' = [call EXCEPT !.todo = Remaining(index)]
          /\ UNCHANGED status
       \/ /\ ~SameWidth(s, other)
          /\ status' = "InvalidArgument"
          /\ call' = Idle
          /\ UNCHANGED <<registers, content>>

\* The iterator reached the end: on to the next sketch of MergeAll, if any.
MergeNext ==
    /\ Merging /\ call.todo = {}
    /\ call' = Iterate(call.to, Tail(call.others))
    /\ UNCHANGED <<registers, status, content>>

MergeReturn ==
    /\ Busy /\ call.others = << >>
    /\ status' = "Ok"
    /\ call' = Idle
    /\ UNCHANGED <<registers, content>>

MergeStep ==
    \/ Busy /\ \E index \in call.todo : MergeRegister(index)
    \/ MergeNext
    \/ MergeReturn

Next ==
    \/ \E s \in Sketch, c \in RawContribution : AggregateIntoRegister(s, c)
    \/ \E s \in Sketch, item \in Item : Insert(s, item)
    \/ \E s \in Sketch, others \in MergeList : MergeAll(s, others)
    \/ MergeStep

Spec == Init /\ [][Next]_vars
-----------------------------------------------------------------------------
(***************************************************************************)
(* Properties.                                                             *)
(***************************************************************************)

\* The vectors of values in the declared ranges of a list of distributions.
VectorsOf(ds) ==
    {v \in [DOMAIN ds -> UNION {ds[k].min .. ds[k].max : k \in DOMAIN ds}] :
        \A k \in DOMAIN ds : v[k] \in ds[k].min .. ds[k].max}

\* The registers a sketch may have: those of vectors in range, of its own
\* indexes or of a sketch that may be merged into it, and those callers name.
RawIndexes(s) ==
    {c.index : c \in {d \in RawContribution : Len(d.values) = register_size(s)}}

IndexType ==
    [s \in Sketch |->
        RawIndexes(s) \cup
        UNION {{GetIndex(IndexDists[t], v) : v \in VectorsOf(IndexDists[t])} :
                  t \in {u \in Sketch : register_size(u) = register_size(s)}}]

\* What was put in register index of s, column k.
Seen(s, index, k) == {c.values[k] : c \in DOMAIN AtIndex(content[s], index)}

\* Type invariant: the maps of any_sketch.h:119 with tuples of the sketch's
\* width, at the registers of vectors whose every part is in its declared range
\* (distributions.cc:56), and a loop state that refers to existing registers.
TypeOfMaps ==
    /\ DOMAIN registers = Sketch /\ DOMAIN content = Sketch
    /\ \A s \in Sketch :
          /\ registers[s] \in [DOMAIN registers[s] -> [Columns(s) -> Int64]]
          /\ DOMAIN registers[s] \subseteq IndexType[s]
          /\ DOMAIN registers[s] = {c.index : c \in DOMAIN content[s]}
          /\ \A c \in DOMAIN content[s] : c.values \in [Columns(s) -> Int64]

TypeOfCall ==
    Busy =>
        /\ DOMAIN call = {"to", "others", "todo", "before"}
        /\ call.to \in Sketch
        /\ call.others \in Seq(Sketch)
        /\ call.todo \subseteq IF call.others = << >> THEN {}
                               ELSE DOMAIN registers[Head(call.others)]

TypeOK == TypeOfMaps /\ TypeOfCall /\ status \in {"none", "Ok", "InvalidArgument"}

(***************************************************************************)
(* A UNIQUE column holds the value every contribution to the register      *)
(* agrees on, or -1 when two of them differ, whatever the order of inserts *)
(* and merges and however often the same sketch was merged                 *)
(* (UniqueAggregator, aggregators.cc:30).                                  *)
(***************************************************************************)
IsUniqueOf(value, seen) ==
    \/ seen = {value}
    \/ /\ value = kUniqueAggregatorDestroyedValue
       /\ \E x, y \in seen : x # y

UniqueSound ==
    \A s \in Sketch : \A index \in DOMAIN registers[s], k \in Columns(s) :
        ValueFunctions[s][k].aggregator = "UNIQUE" =>
            IsUniqueOf(registers[s][index][k], Seen(s, index, k))

(***************************************************************************)
(* A SUM column holds the sum of the bag of contributions to the register: *)
(* no insert or merge is lost, and each counts once for every sketch it    *)
(* was merged from (SumAggregator, aggregators.cc:23, and the copy for a   *)
(* new register).  A sum that is no int64_t any more is right modulo the   *)
(* word, so a later contribution can bring it back.  This is what the code *)
(* keeps; that it is not the sketch of a union of sets, as the comment of  *)
(* Merge has it, is MergeIsUnion's business.                               *)
(***************************************************************************)
SumConserved ==
    \A s \in Sketch : \A index \in DOMAIN registers[s], k \in Columns(s) :
        ValueFunctions[s][k].aggregator = "SUM" =>
            LET bag == AtIndex(content[s], index) IN
            registers[s][index][k] =
                Wrapped(MapThenSumSet(LAMBDA c : bag[c] * c.values[k], DOMAIN bag))

(***************************************************************************)
(* The registers depend on what went in, not on how: two sketches with the *)
(* same value functions whose registers received the same values hold the  *)
(* same registers, whichever inserts and merges brought them there.        *)
(***************************************************************************)
ValueBag(s, index) ==
    LET bag == AtIndex(content[s], index) IN
    [v \in {c.values : c \in DOMAIN bag} |->
        MapThenSumSet(LAMBDA c : bag[c], {c \in DOMAIN bag : c.values = v})]

ContentDecidesRegisters ==
    \A s, t \in Sketch :
        ValueFunctions[s] = ValueFunctions[t] =>
            \A index \in DOMAIN registers[s] \cap DOMAIN registers[t] :
                ValueBag(s, index) = ValueBag(t, index) =>
                    registers[s][index] = registers[t][index]

(***************************************************************************)
(* README.md: "for each vector of indexes the vectors of values are        *)
(* aggregated".  Items that were mapped to different vectors of indexes    *)
(* never share a register (GetIndex, any_sketch.cc:74).                    *)
(***************************************************************************)
OneVectorPerRegister ==
    \A s \in Sketch : \A c, d \in DOMAIN content[s] :
        c.vector # << >> /\ d.vector # << >> /\ c.index = d.index =>
            c.vector = d.vector

(***************************************************************************)
(* Loop invariant of Merge: a register of the other sketch that is done    *)
(* was combined exactly once with what the sketch held when this merge     *)
(* began, and every other register is as it was then; a sketch of another  *)
(* width contributed nothing.  It holds for any order of the hash map and  *)
(* for a sketch merged into itself.  At the end of the loop it says what   *)
(* Merge computes; at an error, that MergeAll kept whole sketches only.    *)
(***************************************************************************)
Combined(s, value1, value2) ==
    [k \in Columns(s) |-> Aggregate(ValueFunctions[s][k].aggregator, value1[k], value2[k])]

MergeExactlyOnce ==
    Merging =>
        LET s == call.to
            other == Head(call.others)
            old == call.before[s]
            new == call.before[other]
            done == IF register_size(other) = register_size(s)
                    THEN DOMAIN new \ call.todo ELSE {} IN
        /\ DOMAIN registers[s] = DOMAIN old \cup done
        /\ \A i \in DOMAIN registers[s] :
              registers[s][i] = IF i \notin done THEN old[i]
                                ELSE IF i \notin DOMAIN old THEN new[i]
                                ELSE Combined(s, old[i], new[i])
        /\ \A t \in Sketch \ {s} : registers[t] = call.before[t]

(***************************************************************************)
(* any_sketch.h:105: "Merges the other sketch into this one. The result is *)
(* equivalent to sketching the union of the sets that went into this and   *)
(* the other sketch."  Where what went into a register of either sketch    *)
(* is a set, one turn of Merge makes it what sketching the union of the    *)
(* two sets makes of it.                                                   *)
(***************************************************************************)
IsASet(bag) == \A c \in DOMAIN bag : bag[c] = 1

Sketched(s, k, set) ==
    IF ValueFunctions[s][k].aggregator = "SUM"
    THEN Wrapped(MapThenSumSet(LAMBDA c : c.values[k], set))
    ELSE CHOOSE v \in Int64 : IsUniqueOf(v, {c.values[k] : c \in set})

UnionAt(s, other, index) ==
    LET mine == AtIndex(content[s], index)
        theirs == AtIndex(content[other], index) IN
    IsASet(mine) /\ IsASet(theirs) =>
        \A k \in Columns(s) :
            registers'[s][index][k] = Sketched(s, k, DOMAIN mine \cup DOMAIN theirs)

MergeIsUnion ==
    [][Busy => \A index \in call.todo :
           MergeRegister(index) /\ SameWidth(call.to, Head(call.others)) =>
               UnionAt(call.to, Head(call.others), index)]_vars
=============================================================================
