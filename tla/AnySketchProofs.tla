-------------------------- MODULE AnySketchProofs --------------------------
(***************************************************************************)
(* Proofs about AnySketch: type correctness, the meaning of UNIQUE and SUM *)
(* columns, the loop invariant of Merge and what GetIndex keeps apart, for *)
(* any number of sketches, items, columns, indexes and contributions.      *)
(***************************************************************************)
EXTENDS AnySketch, FoldLemmas

\* Sketches of the same width aggregate their columns in the same way: what
\* the TODO in Merge (any_sketch.cc:115) leaves to the caller.
Compatible ==
    \A s, t \in Sketch :
        Len(ValueFunctions[s]) = Len(ValueFunctions[t]) =>
            \A k \in Columns(s) :
                ValueFunctions[s][k].aggregator = ValueFunctions[t][k].aggregator

LEMMA Int64Type == Word \div 2 \in Nat /\ Word \div 2 >= 1 /\ Int64 \subseteq Int
  <1>1. \A w \in Nat \ {0, 1} : w \div 2 \in Nat /\ w \div 2 >= 1
    OBVIOUS
  <1>2. Word \div 2 \in Nat /\ Word \div 2 >= 1
    BY <1>1, WordAssumption
  <1> QED BY <1>2, WordAssumption DEF Int64

LEMMA ApplyType ==
    ASSUME NEW d, d.min \in Int64, d.max \in Int64, NEW item
    PROVE  Apply(d, item) \subseteq Int64
  <1>1. d.min .. d.max \subseteq Int64
    BY Int64Type, WordAssumption DEF Int64
  <1> QED BY <1>1 DEF Apply

\* What ApplyAll returns for the value functions is a tuple of the width.
LEMMA ValuesType ==
    ASSUME NEW s \in Sketch, NEW item, NEW values \in ApplyAll(ValueDists(s), item)
    PROVE  values \in [Columns(s) -> Int64]
  <1> DEFINE ds == ValueDists(s)
  <1>1. DOMAIN ds = Columns(s)
    BY DEF ValueDists
  <1>2. \A k \in DOMAIN ds : Apply(ds[k], item) # {}
    BY DEF ApplyAll
  <1>3. values = [k \in DOMAIN ds |-> CHOOSE v \in Apply(ds[k], item) : TRUE]
    BY <1>2 DEF ApplyAll
  <1>4. ASSUME NEW k \in Columns(s) PROVE Apply(ds[k], item) \subseteq Int64
    BY ApplyType, ConfigurationAssumption DEF ValueDists, Columns
  <1>5. ASSUME NEW k \in Columns(s)
        PROVE  (CHOOSE v \in Apply(ds[k], item) : TRUE) \in Int64
    <2>1. Apply(ds[k], item) # {}
      BY <1>1, <1>2
    <2>2. (CHOOSE v \in Apply(ds[k], item) : TRUE) \in Apply(ds[k], item)
      BY <2>1
    <2> QED BY <2>2, <1>4
  <1> QED BY <1>1, <1>3, <1>5

\* Wrapping into an int64_t adds a multiple of the word.
LEMMA WrappedType ==
    ASSUME NEW x \in Int
    PROVE  Wrapped(x) \in Int64 /\ \E q \in Int : Wrapped(x) = x + q * Word
  <1> DEFINE h == Word \div 2
             m == (x + h) % Word
             q == (x + h) \div Word
  <1>1. h \in Nat /\ Word \in Nat
    BY Int64Type, WordAssumption
  <1>2. /\ m \in 0 .. Word - 1 /\ q \in Int
        /\ x + h = q * Word + m
    <2>1. \A y \in Int, w \in Nat \ {0} :
              y % w \in 0 .. w - 1 /\ y \div w \in Int /\ y = (y \div w) * w + (y % w)
      OBVIOUS
    <2>2. x + h \in Int /\ Word \in Nat \ {0}
      BY <1>1, WordAssumption
    <2> HIDE DEF h
    <2> QED BY <2>1, <2>2
  <1>3. Wrapped(x) = m - h
    BY DEF Wrapped
  <1> HIDE DEF h, m, q
  <1>4. m - h \in -h .. Word - h - 1
    BY <1>1, <1>2
  <1>5. m - h = x + (-q) * Word
    <2>1. (-q) * Word = -(q * Word) /\ q * Word \in Int
      BY <1>1, <1>2
    <2> QED BY <1>1, <1>2, <2>1
  <1>6. -q \in Int
    BY <1>2
  <1> QED BY <1>3, <1>4, <1>5, <1>6 DEF Int64, h

\* Two int64_t that differ by a multiple of the word are equal.
LEMMA Int64Distinct ==
    ASSUME NEW a \in Int64, NEW b \in Int64, NEW q \in Int, a = b + q * Word
    PROVE  a = b
  <1>1. a \in Int /\ b \in Int /\ a - b < Word /\ b - a < Word /\ Word \in Nat
    BY Int64Type, WordAssumption DEF Int64
  <1>2. CASE q >= 1
    <2>1. q * Word = Word + (q - 1) * Word /\ (q - 1) * Word >= 0 /\ q * Word \in Int
      BY <1>1, <1>2
    <2> QED BY <1>1, <2>1
  <1>3. CASE q <= -1
    <2>1. q * Word = (q + 1) * Word - Word /\ (q + 1) * Word <= 0 /\ q * Word \in Int
      BY <1>1, <1>3
    <2> QED BY <1>1, <2>1
  <1>4. CASE q = 0
    BY <1>1, <1>4
  <1> QED BY <1>2, <1>3, <1>4

LEMMA WrappedSame ==
    ASSUME NEW x \in Int64
    PROVE  Wrapped(x) = x
  <1>1. x \in Int
    BY Int64Type
  <1>2. PICK q \in Int : Wrapped(x) \in Int64 /\ Wrapped(x) = x + q * Word
    BY <1>1, WrappedType
  <1> QED BY <1>2, Int64Distinct

\* Sums may be wrapped at any time.
LEMMA WrappedSum ==
    ASSUME NEW x \in Int, NEW y \in Int
    PROVE  Wrapped(Wrapped(x) + Wrapped(y)) = Wrapped(x + y)
  <1>1. PICK p \in Int : Wrapped(x) \in Int64 /\ Wrapped(x) = x + p * Word
    BY WrappedType
  <1>2. PICK q \in Int : Wrapped(y) \in Int64 /\ Wrapped(y) = y + q * Word
    BY WrappedType
  <1>3. PICK z \in Int : z = x + y
    OBVIOUS
  <1>4. PICK r \in Int : Wrapped(z) \in Int64 /\ Wrapped(z) = z + r * Word
    BY WrappedType
  <1>5. PICK u \in Int : u = Wrapped(x) + Wrapped(y)
    <2>1. Wrapped(x) \in Int /\ Wrapped(y) \in Int
      BY <1>1, <1>2, Int64Type
    <2>2. Wrapped(x) + Wrapped(y) \in Int
      BY <2>1
    <2> QED BY <2>2
  <1>6. PICK t \in Int : Wrapped(u) \in Int64 /\ Wrapped(u) = u + t * Word
    BY WrappedType
  <1>7. Wrapped(u) = Wrapped(z) + (p + q + t - r) * Word
    <2>1. /\ p * Word \in Int /\ q * Word \in Int /\ r * Word \in Int /\ t * Word \in Int
          /\ (p + q + t - r) * Word = p * Word + q * Word + t * Word - r * Word
      BY WordAssumption
    <2> QED BY <1>1, <1>2, <1>3, <1>4, <1>5, <1>6, <2>1
  <1>8. p + q + t - r \in Int
    OBVIOUS
  <1>9. Wrapped(u) = Wrapped(z)
    BY <1>4, <1>6, <1>7, <1>8, Int64Distinct
  <1> QED BY <1>3, <1>5, <1>9

LEMMA AggregateType ==
    ASSUME NEW type, NEW a \in Int64, NEW b \in Int64
    PROVE  Aggregate(type, a, b) \in Int64
  <1>1. a + b \in Int
    BY Int64Type
  <1>2. Wrapped(a + b) \in Int64
    BY <1>1, WrappedType
  <1>3. kUniqueAggregatorDestroyedValue \in Int64
    BY Int64Type, WordAssumption DEF Int64, kUniqueAggregatorDestroyedValue
  <1> QED BY <1>2, <1>3 DEF Aggregate, SumAggregate, UniqueAggregate

LEMMA BagUnionDomain ==
    ASSUME NEW B1, NEW B2
    PROVE  DOMAIN (B1 (+) B2) = DOMAIN B1 \cup DOMAIN B2
  BY DEF (+)

\* AggregateIntoRegister keeps the shape of the map and adds the index.
LEMMA AggregatedType ==
    ASSUME NEW s \in Sketch, NEW index, NEW values \in [Columns(s) -> Int64],
           registers[s] \in [DOMAIN registers[s] -> [Columns(s) -> Int64]]
    PROVE  /\ DOMAIN Aggregated(s, index, values) = DOMAIN registers[s] \cup {index}
           /\ Aggregated(s, index, values)
                 \in [DOMAIN registers[s] \cup {index} -> [Columns(s) -> Int64]]
  <1>1. CASE index \notin DOMAIN registers[s]
    BY <1>1 DEF Aggregated
  <1>2. CASE index \in DOMAIN registers[s]
    <2> DEFINE new == [k \in Columns(s) |->
                 Aggregate(ValueFunctions[s][k].aggregator, registers[s][index][k], values[k])]
    <2>1. new \in [Columns(s) -> Int64]
      <3>1. registers[s][index] \in [Columns(s) -> Int64]
        BY <1>2
      <3> QED BY <3>1, AggregateType
    <2>2. Aggregated(s, index, values) = [registers[s] EXCEPT ![index] = new]
      BY <1>2 DEF Aggregated
    <2> HIDE DEF new
    <2> QED BY <1>2, <2>1, <2>2
  <1> QED BY <1>1, <1>2

\* A bag of contributions to one register of s.
ContributionsTo(s, index, bag) ==
    /\ DOMAIN bag # {}
    /\ \A c \in DOMAIN bag : c.index = index /\ c.values \in [Columns(s) -> Int64]

\* A single contribution is such a bag.
LEMMA SingleContribution ==
    ASSUME NEW s \in Sketch, NEW item, NEW index, NEW vector,
           NEW values \in [Columns(s) -> Int64]
    PROVE  /\ ContributionsTo(s, index, SetToBag({Contribution(item, index, vector, values)}))
           /\ DOMAIN SetToBag({Contribution(item, index, vector, values)})
                = {Contribution(item, index, vector, values)}
  <1> DEFINE c == Contribution(item, index, vector, values)
  <1>0. c = [item |-> item, index |-> index, vector |-> vector, values |-> values]
    BY DEF Contribution
  <1> HIDE DEF c
  <1>1. DOMAIN SetToBag({c}) = {c}
    BY DEF SetToBag
  <1>2. ContributionsTo(s, index, SetToBag({c}))
    BY <1>0, <1>1 DEF ContributionsTo
  <1> QED BY <1>1, <1>2 DEF c

\* A contribution to one sketch keeps the shape of the maps, and every
\* register that there was.
LEMMA ContributeType ==
    ASSUME TypeOfMaps, NEW s \in Sketch, NEW index \in IndexType[s],
           NEW values \in [Columns(s) -> Int64], NEW bag,
           ContributionsTo(s, index, bag), Contribute(s, index, values, bag)
    PROVE  /\ TypeOfMaps'
           /\ \A t \in Sketch : DOMAIN registers[t] \subseteq DOMAIN registers'[t]
  <1>1. /\ DOMAIN registers' = Sketch /\ DOMAIN content' = Sketch
        /\ registers'[s] = Aggregated(s, index, values)
        /\ content'[s] = content[s] (+) bag
        /\ \A t \in Sketch \ {s} : registers'[t] = registers[t] /\ content'[t] = content[t]
    BY DEF Contribute, TypeOfMaps
  <1>2. /\ DOMAIN registers'[s] = DOMAIN registers[s] \cup {index}
        /\ registers'[s] \in [DOMAIN registers[s] \cup {index} -> [Columns(s) -> Int64]]
    <2>1. registers[s] \in [DOMAIN registers[s] -> [Columns(s) -> Int64]]
      BY DEF TypeOfMaps
    <2>2. /\ DOMAIN Aggregated(s, index, values) = DOMAIN registers[s] \cup {index}
          /\ Aggregated(s, index, values)
                \in [DOMAIN registers[s] \cup {index} -> [Columns(s) -> Int64]]
      BY <2>1, AggregatedType
    <2> QED BY <1>1, <2>2
  <1>3. DOMAIN content'[s] = DOMAIN content[s] \cup DOMAIN bag
    BY <1>1, BagUnionDomain
  <1>4. {c.index : c \in DOMAIN content'[s]} = DOMAIN registers[s] \cup {index}
    BY <1>3 DEF TypeOfMaps, ContributionsTo
  <1>5. \A c \in DOMAIN content'[s] : c.values \in [Columns(s) -> Int64]
    BY <1>3 DEF TypeOfMaps, ContributionsTo
  <1>6. ASSUME NEW t \in Sketch
        PROVE  /\ registers'[t] \in [DOMAIN registers'[t] -> [Columns(t) -> Int64]]
               /\ DOMAIN registers'[t] \subseteq IndexType[t]
               /\ DOMAIN registers'[t] = {c.index : c \in DOMAIN content'[t]}
               /\ \A c \in DOMAIN content'[t] : c.values \in [Columns(t) -> Int64]
               /\ DOMAIN registers[t] \subseteq DOMAIN registers'[t]
    <2>1. CASE t = s
      BY <2>1, <1>2, <1>4, <1>5 DEF TypeOfMaps
    <2>2. CASE t # s
      BY <2>2, <1>1 DEF TypeOfMaps
    <2> QED BY <2>1, <2>2
  <1> QED BY <1>1, <1>6 DEF TypeOfMaps

(***************************************************************************)
(* Every step that touches the maps is one contribution to one sketch, of  *)
(* a tuple of that sketch's width.  What the contribution is matters to    *)
(* UniqueSound, so the cases are kept: a tuple of the caller or an item,   *)
(* whose vector of indexes gave the register, or a register of another     *)
(* sketch with what that register received.                                *)
(***************************************************************************)
IndexedBy(s, index, vector) ==
    vector # << >> =>
        /\ \E item \in Item : vector \in ApplyAll(IndexDists[s], item)
        /\ index = GetIndex(IndexDists[s], vector)

FreshContribution(s, index, values) ==
    \E item, vector :
        /\ IndexedBy(s, index, vector)
        /\ Contribute(s, index, values, SetToBag({Contribution(item, index, vector, values)}))

MergedContribution(s, index, other) ==
    /\ register_size(other) = register_size(s)
    /\ index \in DOMAIN registers[other]
    /\ Contribute(s, index, registers[other][index], AtIndex(content[other], index))

ContributionStep ==
    \E s \in Sketch : \E index \in IndexType[s] :
        \/ \E values \in [Columns(s) -> Int64] : FreshContribution(s, index, values)
        \/ \E other \in Sketch : MergedContribution(s, index, other)

LEMMA AggregateIntoRegisterStep ==
    ASSUME NEW s \in Sketch, NEW c \in RawContribution, AggregateIntoRegister(s, c)
    PROVE  /\ ContributionStep \/ UNCHANGED <<registers, content>>
           /\ UNCHANGED call
           /\ status' \in {"Ok", "InvalidArgument"}
  <1>1. ASSUME Len(c.values) = register_size(s) PROVE c.index \in IndexType[s]
    BY <1>1 DEF IndexType, RawIndexes
  <1>2. ASSUME Len(c.values) = register_size(s) PROVE c.values \in [Columns(s) -> Int64]
    BY <1>2, ConfigurationAssumption DEF register_size, Columns
  <1>3. CASE Len(c.values) = register_size(s)
    BY <1>1, <1>2, <1>3
       DEF AggregateIntoRegister, ContributionStep, FreshContribution, IndexedBy
  <1>4. CASE Len(c.values) # register_size(s)
    BY <1>4 DEF AggregateIntoRegister
  <1> QED BY <1>3, <1>4

\* What ApplyAll returns is a vector in the declared ranges, so the register it
\* gives is one of its sketch, and of every sketch of that width.
LEMMA ApplyAllVector ==
    ASSUME NEW ds, NEW item, NEW v \in ApplyAll(ds, item)
    PROVE  v \in VectorsOf(ds)
  <1>1. \A k \in DOMAIN ds : Apply(ds[k], item) # {}
    BY DEF ApplyAll
  <1>2. v = [k \in DOMAIN ds |-> CHOOSE x \in Apply(ds[k], item) : TRUE]
    BY <1>1 DEF ApplyAll
  <1>3. ASSUME NEW k \in DOMAIN ds PROVE v[k] \in ds[k].min .. ds[k].max
    <2>1. (CHOOSE x \in Apply(ds[k], item) : TRUE) \in Apply(ds[k], item)
      BY <1>1
    <2> QED BY <1>2, <2>1 DEF Apply
  <1>4. v \in [DOMAIN ds -> UNION {ds[k].min .. ds[k].max : k \in DOMAIN ds}]
    BY <1>2, <1>3
  <1> QED BY <1>3, <1>4 DEF VectorsOf

IndexesOf(t) == {GetIndex(IndexDists[t], v) : v \in VectorsOf(IndexDists[t])}

LEMMA IndexTypeOf ==
    ASSUME NEW s \in Sketch
    PROVE  IndexType[s] = RawIndexes(s) \cup
               UNION {IndexesOf(t) : t \in {u \in Sketch : register_size(u) = register_size(s)}}
  BY DEF IndexType, IndexesOf

LEMMA VectorIndexType ==
    ASSUME NEW s \in Sketch, NEW item, NEW v \in ApplyAll(IndexDists[s], item)
    PROVE  GetIndex(IndexDists[s], v) \in IndexType[s]
  <1>1. GetIndex(IndexDists[s], v) \in IndexesOf(s)
    BY ApplyAllVector DEF IndexesOf
  <1> QED BY <1>1, IndexTypeOf

LEMMA SameWidthIndexType ==
    ASSUME NEW s \in Sketch, NEW t \in Sketch, register_size(t) = register_size(s)
    PROVE  IndexType[t] = IndexType[s]
  <1>1. RawIndexes(t) = RawIndexes(s)
    BY DEF RawIndexes
  <1>2. {u \in Sketch : register_size(u) = register_size(t)}
          = {u \in Sketch : register_size(u) = register_size(s)}
    OBVIOUS
  <1> QED BY <1>1, <1>2 DEF IndexType

LEMMA InsertStep ==
    ASSUME NEW s \in Sketch, NEW item \in Item, Insert(s, item)
    PROVE  /\ ContributionStep \/ UNCHANGED <<registers, content>>
           /\ UNCHANGED call
           /\ status' \in {"Ok", "InvalidArgument"}
  <1>1. CASE \E vector \in ApplyAll(IndexDists[s], item),
                values \in ApplyAll(ValueDists(s), item) :
                LET index == GetIndex(IndexDists[s], vector) IN
                /\ Contribute(s, index, values,
                              SetToBag({Contribution(item, index, vector, values)}))
                /\ status' = "Ok"
    <2>1. PICK vector \in ApplyAll(IndexDists[s], item),
               values \in ApplyAll(ValueDists(s), item) :
                LET index == GetIndex(IndexDists[s], vector) IN
                /\ Contribute(s, index, values,
                              SetToBag({Contribution(item, index, vector, values)}))
                /\ status' = "Ok"
      BY <1>1
    <2> DEFINE index == GetIndex(IndexDists[s], vector)
    <2>2. index \in IndexType[s]
      BY VectorIndexType DEF index
    <2>3. values \in [Columns(s) -> Int64]
      BY ValuesType
    <2> HIDE DEF index
    <2>4. FreshContribution(s, index, values)
      <3>1. IndexedBy(s, index, vector)
        BY DEF IndexedBy, index
      <3> QED BY <2>1, <3>1 DEF FreshContribution, index
    <2>5. ContributionStep
      BY <2>2, <2>3, <2>4 DEF ContributionStep
    <2> QED BY <2>1, <2>5 DEF Insert
  <1>2. CASE UNCHANGED <<registers, content>> /\ status' = "InvalidArgument"
    BY <1>2 DEF Insert
  <1> QED BY <1>1, <1>2 DEF Insert

LEMMA MergeRegisterStep ==
    ASSUME TypeOK, NEW index, MergeRegister(index)
    PROVE  /\ ContributionStep \/ UNCHANGED <<registers, content>>
           /\ \/ call' = Idle
              \/ call' = [call EXCEPT !.todo = @ \ {index}]
           /\ status' \in {status, "InvalidArgument"}
  <1> DEFINE s == call.to
             other == Head(call.others)
  <1>1. s \in Sketch /\ other \in Sketch /\ index \in DOMAIN registers[other]
    BY DEF MergeRegister, SameWidth, Remaining, Merging, TypeOK, TypeOfCall
  <1>2. index \in IndexType[other]
    BY <1>1 DEF TypeOK, TypeOfMaps
  <1>3. CASE register_size(other) = register_size(s)
    <2>1. MergedContribution(s, index, other)
      BY <1>1, <1>3 DEF MergeRegister, SameWidth, Remaining, MergedContribution
    <2>2. index \in IndexType[s]
      BY <1>1, <1>2, <1>3, SameWidthIndexType
    <2> QED BY <1>1, <1>3, <2>1, <2>2 DEF MergeRegister, SameWidth, Remaining, ContributionStep
  <1>4. CASE register_size(other) # register_size(s)
    BY <1>4 DEF MergeRegister, SameWidth, Remaining
  <1> QED BY <1>3, <1>4

\* A contribution step keeps the types of the maps and only adds registers.
LEMMA ContributionStepType ==
    ASSUME TypeOfMaps, ContributionStep
    PROVE  /\ TypeOfMaps'
           /\ \A t \in Sketch : DOMAIN registers[t] \subseteq DOMAIN registers'[t]
  <1>0. PICK s \in Sketch : \E index \in IndexType[s] :
          \/ \E values \in [Columns(s) -> Int64] : FreshContribution(s, index, values)
          \/ \E other \in Sketch : MergedContribution(s, index, other)
    BY DEF ContributionStep
  <1>1. PICK index \in IndexType[s] :
          \/ \E values \in [Columns(s) -> Int64] : FreshContribution(s, index, values)
          \/ \E other \in Sketch : MergedContribution(s, index, other)
    BY <1>0
  <1>2. CASE \E values \in [Columns(s) -> Int64] : FreshContribution(s, index, values)
    <2>0. PICK values \in [Columns(s) -> Int64] : FreshContribution(s, index, values)
      BY <1>2
    <2>1. PICK item, vector :
            Contribute(s, index, values, SetToBag({Contribution(item, index, vector, values)}))
      BY <2>0 DEF FreshContribution
    <2>2. ContributionsTo(s, index, SetToBag({Contribution(item, index, vector, values)}))
      BY SingleContribution
    <2> QED BY <2>1, <2>2, ContributeType
  <1>3. CASE \E other \in Sketch : MergedContribution(s, index, other)
    <2>1. PICK other \in Sketch : MergedContribution(s, index, other)
      BY <1>3
    <2> DEFINE bag == AtIndex(content[other], index)
    <2>2. Columns(other) = Columns(s)
      BY <2>1 DEF MergedContribution, register_size, Columns
    <2>3. registers[other][index] \in [Columns(s) -> Int64]
      BY <2>1, <2>2 DEF MergedContribution, TypeOfMaps
    <2>4. ContributionsTo(s, index, bag)
      <3>1. DOMAIN bag = {c \in DOMAIN content[other] : c.index = index}
        BY DEF AtIndex
      <3>2. \E c \in DOMAIN content[other] : c.index = index
        BY <2>1 DEF MergedContribution, TypeOfMaps
      <3>3. \A c \in DOMAIN content[other] : c.values \in [Columns(s) -> Int64]
        BY <2>2 DEF TypeOfMaps
      <3> HIDE DEF bag
      <3> QED BY <3>1, <3>2, <3>3 DEF ContributionsTo
    <2>5. Contribute(s, index, registers[other][index], bag)
      BY <2>1 DEF MergedContribution
    <2> HIDE DEF bag
    <2> QED BY <2>3, <2>4, <2>5, ContributeType
  <1> QED BY <1>1, <1>2, <1>3

\* The loop state made by Iterate refers to the registers there are.
LEMMA IterateType ==
    ASSUME TypeOK, NEW s \in Sketch, NEW others \in Seq(Sketch),
           call' = Iterate(s, others), UNCHANGED registers
    PROVE  TypeOfCall'
  <1>1. /\ DOMAIN call' = {"to", "others", "todo", "before"}
        /\ call'.to = s /\ call'.others = others
        /\ call'.todo = IF others = << >> THEN {} ELSE DOMAIN registers[Head(others)]
    BY DEF Iterate
  <1> QED BY <1>1 DEF TypeOfCall

LEMMA TypeInit == Init => TypeOK
  <1> SUFFICES ASSUME Init PROVE TypeOK
    OBVIOUS
  <1>1. TypeOfMaps
    <2>1. ASSUME NEW s \in Sketch PROVE registers[s] = << >> /\ content[s] = EmptyBag
      BY DEF Init
    <2>2. DOMAIN EmptyBag = {}
      BY DEF EmptyBag, SetToBag
    <2>3. DOMAIN << >> = {} /\ << >> \in [{} -> [Columns(1) -> Int64]]
      OBVIOUS
    <2> QED BY <2>1, <2>2, <2>3 DEF Init, TypeOfMaps
  <1>2. TypeOfCall
    BY DEF Init, TypeOfCall, Busy
  <1> QED BY <1>1, <1>2 DEF TypeOK, Init

LEMMA TypeStep == TypeOK /\ [Next]_vars => TypeOK'
  <1> SUFFICES ASSUME TypeOK, [Next]_vars PROVE TypeOK'
    OBVIOUS
  <1>1. ASSUME NEW s \in Sketch, NEW c \in RawContribution, AggregateIntoRegister(s, c)
        PROVE  TypeOK'
    <2>1. ~Busy /\ ~Busy'
      BY <1>1, AggregateIntoRegisterStep DEF AggregateIntoRegister, Busy
    <2>2. TypeOfMaps'
      BY <1>1, AggregateIntoRegisterStep, ContributionStepType DEF TypeOK, TypeOfMaps
    <2> QED BY <2>1, <2>2, <1>1, AggregateIntoRegisterStep DEF TypeOK, TypeOfCall
  <1>2. ASSUME NEW s \in Sketch, NEW item \in Item, Insert(s, item)
        PROVE  TypeOK'
    <2>1. ~Busy /\ ~Busy'
      BY <1>2, InsertStep DEF Insert, Busy
    <2>2. TypeOfMaps'
      BY <1>2, InsertStep, ContributionStepType DEF TypeOK, TypeOfMaps
    <2> QED BY <2>1, <2>2, <1>2, InsertStep DEF TypeOK, TypeOfCall
  <1>3. ASSUME NEW s \in Sketch, NEW others \in MergeList, MergeAll(s, others)
        PROVE  TypeOK'
    <2>1. others \in Seq(Sketch)
      BY ConfigurationAssumption
    <2>2. TypeOfCall'
      BY <1>3, <2>1, IterateType DEF MergeAll
    <2>3. TypeOfMaps'
      BY <1>3 DEF MergeAll, TypeOK, TypeOfMaps
    <2> QED BY <1>3, <2>2, <2>3 DEF MergeAll, TypeOK
  <1>4. ASSUME Busy, NEW index \in call.todo, MergeRegister(index)
        PROVE  TypeOK'
    <2>1. /\ TypeOfMaps'
          /\ \A t \in Sketch : DOMAIN registers[t] \subseteq DOMAIN registers'[t]
      BY <1>4, MergeRegisterStep, ContributionStepType DEF TypeOK, TypeOfMaps
    <2>2. ASSUME call' = Idle PROVE TypeOfCall'
      BY <2>2 DEF TypeOfCall, Busy
    <2>3. ASSUME call' = [call EXCEPT !.todo = @ \ {index}] PROVE TypeOfCall'
      <3>0. Busy /\ DOMAIN call = {"to", "others", "todo", "before"}
        BY <1>4 DEF TypeOK, TypeOfCall
      <3>1. /\ DOMAIN call' = DOMAIN call
            /\ call'.to = call.to /\ call'.others = call.others
            /\ call'.todo \subseteq call.todo
        BY <2>3, <3>0
      <3>2. Merging /\ Head(call.others) \in Sketch
        BY <1>4 DEF MergeRegister, SameWidth, Remaining, Merging, TypeOK, TypeOfCall
      <3> QED BY <1>4, <2>1, <3>0, <3>1, <3>2 DEF TypeOK, TypeOfCall, Merging, Busy
    <2> QED BY <1>4, <2>1, <2>2, <2>3, MergeRegisterStep DEF TypeOK
  <1>5. ASSUME MergeNext PROVE TypeOK'
    <2>1. /\ Tail(call.others) \in Seq(Sketch) /\ call.to \in Sketch
      BY <1>5 DEF MergeNext, Merging, TypeOK, TypeOfCall
    <2>2. TypeOfCall'
      BY <1>5, <2>1, IterateType DEF MergeNext
    <2>3. TypeOfMaps'
      BY <1>5 DEF MergeNext, TypeOK, TypeOfMaps
    <2> QED BY <1>5, <2>2, <2>3 DEF MergeNext, TypeOK
  <1>6. ASSUME MergeReturn PROVE TypeOK'
    <2>1. TypeOfMaps'
      BY <1>6 DEF MergeReturn, TypeOK, TypeOfMaps
    <2>2. TypeOfCall'
      BY <1>6 DEF MergeReturn, TypeOfCall, Busy
    <2> QED BY <1>6, <2>1, <2>2 DEF MergeReturn, TypeOK
  <1>7. ASSUME UNCHANGED vars PROVE TypeOK'
    <2>1. TypeOfMaps'
      BY <1>7 DEF vars, TypeOK, TypeOfMaps
    <2>2. TypeOfCall'
      BY <1>7 DEF vars, TypeOK, TypeOfCall, Busy
    <2> QED BY <1>7, <2>1, <2>2 DEF vars, TypeOK
  <1> QED BY <1>1, <1>2, <1>3, <1>4, <1>5, <1>6, <1>7 DEF Next, MergeStep

\* The maps keep the shape any_sketch.h declares and Merge's loop only refers
\* to registers that exist, for every configuration and every call.
THEOREM TypeCorrect == Spec => []TypeOK
  BY TypeInit, TypeStep, PTL DEF Spec
-----------------------------------------------------------------------------
(***************************************************************************)
(* UNIQUE columns.  IsUniqueOf is preserved by Aggregate: if each of two   *)
(* values sums up a set of contributions, the aggregate sums up the union. *)
(***************************************************************************)
LEMMA UniqueCombine ==
    ASSUME NEW v1, NEW v2, NEW S1, NEW S2, IsUniqueOf(v1, S1), IsUniqueOf(v2, S2)
    PROVE  IsUniqueOf(Aggregate("UNIQUE", v1, v2), S1 \cup S2)
  <1>1. CASE v1 = v2
    <2>1. Aggregate("UNIQUE", v1, v2) = v1
      BY <1>1 DEF Aggregate, UniqueAggregate
    <2> QED BY <1>1, <2>1 DEF IsUniqueOf
  <1>2. CASE v1 # v2
    <2>1. Aggregate("UNIQUE", v1, v2) = kUniqueAggregatorDestroyedValue
      BY <1>2 DEF Aggregate, UniqueAggregate
    <2>2. \E x, y \in S1 \cup S2 : x # y
      BY <1>2 DEF IsUniqueOf
    <2> QED BY <2>1, <2>2 DEF IsUniqueOf
  <1> QED BY <1>1, <1>2

SeenIn(bag, k) == {c.values[k] : c \in DOMAIN bag}

\* What a register of s has seen after a contribution to register index.
LEMMA SeenAfter ==
    ASSUME TypeOfMaps, NEW s \in Sketch, NEW index, NEW values, NEW bag,
           ContributionsTo(s, index, bag), Contribute(s, index, values, bag),
           NEW t \in Sketch, NEW i, NEW k
    PROVE  Seen(t, i, k)' = IF t = s /\ i = index THEN Seen(t, i, k) \cup SeenIn(bag, k)
                            ELSE Seen(t, i, k)
  <1>1. content' = [content EXCEPT ![s] = content[s] (+) bag]
    BY DEF Contribute
  <1>2. \A B : DOMAIN AtIndex(B, i) = {c \in DOMAIN B : c.index = i}
    BY DEF AtIndex
  <1>3. CASE t = s
    <2>1. DOMAIN content'[t] = DOMAIN content[t] \cup DOMAIN bag
      BY <1>1, <1>3, BagUnionDomain DEF TypeOfMaps
    <2>2. Seen(t, i, k) = {c.values[k] : c \in {d \in DOMAIN content[t] : d.index = i}}
      BY <1>2 DEF Seen
    <2>3. Seen(t, i, k)' =
            {c.values[k] : c \in {d \in DOMAIN content'[t] : d.index = i}}
      BY <1>2 DEF Seen
    <2> QED BY <1>3, <2>1, <2>2, <2>3 DEF SeenIn, ContributionsTo
  <1>4. CASE t # s
    <2>1. content'[t] = content[t]
      BY <1>1, <1>4 DEF TypeOfMaps
    <2> QED BY <1>4, <2>1 DEF Seen
  <1> QED BY <1>3, <1>4

\* A register that does not exist has seen nothing.
LEMMA NothingSeen ==
    ASSUME TypeOfMaps, NEW s \in Sketch, NEW i, i \notin DOMAIN registers[s], NEW k
    PROVE  Seen(s, i, k) = {}
  <1>1. DOMAIN AtIndex(content[s], i) = {c \in DOMAIN content[s] : c.index = i}
    BY DEF AtIndex
  <1>2. \A c \in DOMAIN content[s] : c.index # i
    BY DEF TypeOfMaps
  <1> QED BY <1>1, <1>2 DEF Seen

LEMMA UniqueContribute ==
    ASSUME TypeOfMaps, UniqueSound, NEW s \in Sketch, NEW index \in IndexType[s],
           NEW values \in [Columns(s) -> Int64], NEW bag,
           ContributionsTo(s, index, bag), Contribute(s, index, values, bag),
           \A k \in Columns(s) : ValueFunctions[s][k].aggregator = "UNIQUE" =>
               IsUniqueOf(values[k], SeenIn(bag, k))
    PROVE  UniqueSound'
  <1> SUFFICES ASSUME NEW t \in Sketch, NEW i \in DOMAIN registers'[t], NEW k \in Columns(t),
                      ValueFunctions[t][k].aggregator = "UNIQUE"
               PROVE  IsUniqueOf(registers'[t][i][k], Seen(t, i, k)')
    BY DEF UniqueSound, IsUniqueOf
  <1>1. registers' = [registers EXCEPT ![s] = Aggregated(s, index, values)]
    BY DEF Contribute
  <1>2. ASSUME i \in DOMAIN registers[t]
        PROVE  IsUniqueOf(registers[t][i][k], Seen(t, i, k))
    BY <1>2 DEF UniqueSound
  <1>3. CASE t # s
    <2>1. registers'[t] = registers[t]
      BY <1>1, <1>3 DEF TypeOfMaps
    <2>2. Seen(t, i, k)' = Seen(t, i, k)
      BY <1>3, SeenAfter
    <2> QED BY <1>2, <2>1, <2>2
  <1>4. CASE t = s
    <2>1. registers'[t] = Aggregated(s, index, values)
      BY <1>1, <1>4 DEF TypeOfMaps
    <2>2. DOMAIN registers'[t] = DOMAIN registers[t] \cup {index}
      <3>1. registers[s] \in [DOMAIN registers[s] -> [Columns(s) -> Int64]]
        BY DEF TypeOfMaps
      <3>2. DOMAIN Aggregated(s, index, values) = DOMAIN registers[s] \cup {index}
        BY <3>1, AggregatedType
      <3> QED BY <1>4, <2>1, <3>2
    <2>3. CASE i # index
      <3>1. i \in DOMAIN registers[t]
        BY <2>2, <2>3
      <3>2. registers'[t][i] = registers[t][i]
        BY <1>4, <2>1, <2>3, <3>1 DEF Aggregated
      <3>3. Seen(t, i, k)' = Seen(t, i, k)
        BY <2>3, SeenAfter
      <3> QED BY <1>2, <3>1, <3>2, <3>3
    <2>4. CASE i = index /\ i \notin DOMAIN registers[t]
      <3>1. registers'[t][i] = values
        BY <1>4, <2>1, <2>4 DEF Aggregated
      <3>2. Seen(t, i, k) = {}
        BY <2>4, NothingSeen
      <3>3. Seen(t, i, k)' = Seen(t, i, k) \cup SeenIn(bag, k)
        BY <1>4, <2>4, SeenAfter
      <3>4. Seen(t, i, k)' = SeenIn(bag, k)
        BY <3>2, <3>3
      <3> QED BY <1>4, <3>1, <3>4
    <2>5. CASE i = index /\ i \in DOMAIN registers[t]
      <3>1. registers'[t][i] =
              [c \in Columns(s) |-> Aggregate(ValueFunctions[s][c].aggregator,
                                              registers[s][index][c], values[c])]
        BY <1>4, <2>1, <2>5 DEF Aggregated
      <3>2. registers'[t][i][k] = Aggregate("UNIQUE", registers[t][i][k], values[k])
        BY <1>4, <2>5, <3>1
      <3>3. Seen(t, i, k)' = Seen(t, i, k) \cup SeenIn(bag, k)
        BY <1>4, <2>5, SeenAfter
      <3>4. IsUniqueOf(registers[t][i][k], Seen(t, i, k))
        BY <1>2, <2>5
      <3>5. IsUniqueOf(values[k], SeenIn(bag, k))
        BY <1>4
      <3> QED BY <3>2, <3>3, <3>4, <3>5, UniqueCombine
    <2> QED BY <2>3, <2>4, <2>5
  <1> QED BY <1>3, <1>4

\* A tuple of the caller or of an item has been seen once, whatever it is.
LEMMA UniqueFresh ==
    ASSUME TypeOfMaps, UniqueSound, NEW s \in Sketch, NEW index \in IndexType[s],
           NEW values \in [Columns(s) -> Int64], FreshContribution(s, index, values)
    PROVE  UniqueSound'
  <1>1. PICK item, vector :
          Contribute(s, index, values, SetToBag({Contribution(item, index, vector, values)}))
    BY DEF FreshContribution
  <1> DEFINE c == Contribution(item, index, vector, values)
             bag == SetToBag({c})
  <1>2. ContributionsTo(s, index, bag) /\ DOMAIN bag = {c}
    BY SingleContribution
  <1>3. c.values = values
    BY DEF Contribution
  <1> HIDE DEF c, bag
  <1>4. \A k \in Columns(s) : IsUniqueOf(values[k], SeenIn(bag, k))
    BY <1>2, <1>3 DEF SeenIn, IsUniqueOf
  <1>5. Contribute(s, index, values, bag)
    BY <1>1 DEF bag, c
  <1> QED BY <1>2, <1>4, <1>5, UniqueContribute

\* A register of a compatible sketch has the invariant of its own.
LEMMA UniqueMerged ==
    ASSUME Compatible, TypeOfMaps, UniqueSound, NEW s \in Sketch,
           NEW index \in IndexType[s], NEW other \in Sketch, MergedContribution(s, index, other)
    PROVE  UniqueSound'
  <1> DEFINE values == registers[other][index]
             bag == AtIndex(content[other], index)
  <1>1. index \in DOMAIN registers[other] /\ Contribute(s, index, values, bag)
    BY DEF MergedContribution
  <1>2. /\ Columns(other) = Columns(s)
        /\ \A k \in Columns(s) :
              ValueFunctions[s][k].aggregator = ValueFunctions[other][k].aggregator
    BY DEF MergedContribution, register_size, Columns, Compatible
  <1>3. values \in [Columns(s) -> Int64]
    BY <1>1, <1>2 DEF TypeOfMaps
  <1>4. ContributionsTo(s, index, bag)
    <2>1. DOMAIN bag = {c \in DOMAIN content[other] : c.index = index}
      BY DEF AtIndex
    <2>2. \E c \in DOMAIN content[other] : c.index = index
      BY <1>1 DEF TypeOfMaps
    <2>3. \A c \in DOMAIN content[other] : c.values \in [Columns(s) -> Int64]
      BY <1>2 DEF TypeOfMaps
    <2> HIDE DEF bag
    <2> QED BY <2>1, <2>2, <2>3 DEF ContributionsTo
  <1>5. \A k \in Columns(s) : ValueFunctions[s][k].aggregator = "UNIQUE" =>
            IsUniqueOf(values[k], SeenIn(bag, k))
    <2> TAKE k \in Columns(s)
    <2>1. k \in Columns(other)
          /\ ValueFunctions[s][k].aggregator = ValueFunctions[other][k].aggregator
      BY <1>2
    <2>2. SeenIn(bag, k) = Seen(other, index, k)
      BY Zenon DEF Seen, SeenIn
    <2> QED BY <1>1, <2>1, <2>2 DEF UniqueSound
  <1> HIDE DEF values, bag
  <1> QED BY <1>1, <1>3, <1>4, <1>5, UniqueContribute

LEMMA UniqueStep == Compatible /\ TypeOK /\ UniqueSound /\ [Next]_vars => UniqueSound'
  <1> SUFFICES ASSUME Compatible, TypeOK, UniqueSound, [Next]_vars PROVE UniqueSound'
    OBVIOUS
  <1>1. ContributionStep \/ UNCHANGED <<registers, content>>
    <2>1. ASSUME MergeNext \/ MergeReturn \/ UNCHANGED vars
          PROVE  UNCHANGED <<registers, content>>
      BY <2>1 DEF MergeNext, MergeReturn, vars
    <2>2. ASSUME NEW s \in Sketch, NEW others \in MergeList, MergeAll(s, others)
          PROVE  UNCHANGED <<registers, content>>
      BY <2>2 DEF MergeAll
    <2> QED BY <2>1, <2>2, AggregateIntoRegisterStep, InsertStep, MergeRegisterStep
            DEF Next, MergeStep
  <1>2. TypeOfMaps
    BY DEF TypeOK
  <1>3. ASSUME ContributionStep PROVE UniqueSound'
    BY <1>2, <1>3, UniqueFresh, UniqueMerged DEF ContributionStep
  <1>4. ASSUME UNCHANGED <<registers, content>> PROVE UniqueSound'
    BY <1>4 DEF UniqueSound, Seen
  <1> QED BY <1>1, <1>3, <1>4

LEMMA UniqueInit == Init => UniqueSound
  <1> SUFFICES ASSUME Init, NEW s \in Sketch PROVE DOMAIN registers[s] = {}
    BY DEF UniqueSound
  <1> QED BY DEF Init

(***************************************************************************)
(* Of compatible sketches, a UNIQUE column is the common value of all that *)
(* ever went into its register, or -1 if two contributions differ: for any *)
(* number of sketches and any order of inserts and merges.                 *)
(***************************************************************************)
THEOREM UniqueCorrect == ASSUME Compatible PROVE Spec => []UniqueSound
  <1>1. Init => TypeOK /\ UniqueSound
    BY TypeInit, UniqueInit
  <1>2. TypeOK /\ UniqueSound /\ [Next]_vars => TypeOK' /\ UniqueSound'
    BY TypeStep, UniqueStep
  <1> QED BY <1>1, <1>2, PTL DEF Spec
-----------------------------------------------------------------------------
(***************************************************************************)
(* The loop of Merge.  At its start nothing is done and nothing changed.   *)
(***************************************************************************)
LEMMA MergeStart ==
    ASSUME TypeOK, NEW s \in Sketch, NEW others \in Seq(Sketch),
           call' = Iterate(s, others), UNCHANGED registers
    PROVE  MergeExactlyOnce'
  <1> SUFFICES ASSUME others # << >> PROVE MergeExactlyOnce'
    BY DEF MergeExactlyOnce, Merging, Iterate
  <1> DEFINE other == Head(others)
  <1>1. /\ call'.to = s /\ call'.others = others /\ call'.before = registers
        /\ call'.todo = DOMAIN registers[other]
    BY DEF Iterate
  <1>2. s \in Sketch /\ other \in Sketch
    OBVIOUS
  <1> QED BY <1>1, <1>2 DEF MergeExactlyOnce

\* One turn of the loop moves its register from todo to done.  The register
\* of the other sketch is still what it was, also when that is the sketch
\* itself: its registers not yet done are unchanged.
LEMMA MergeTurn ==
    ASSUME TypeOK, MergeExactlyOnce, NEW index, MergeRegister(index)
    PROVE  MergeExactlyOnce'
  <1> DEFINE s == call.to
             other == Head(call.others)
             old == call.before[s]
             new == call.before[other]
  <1>1. /\ Merging /\ s \in Sketch /\ other \in Sketch
        /\ index \in call.todo /\ index \in DOMAIN registers[other]
    BY DEF MergeRegister, SameWidth, Remaining, Merging, TypeOK, TypeOfCall
  <1>2. CASE register_size(other) # register_size(s)
    BY <1>2 DEF MergeRegister, SameWidth, Remaining, MergeExactlyOnce, Merging, Busy
  <1>3. CASE register_size(other) = register_size(s)
    <2> DEFINE done == DOMAIN new \ call.todo
               values == registers[other][index]
    <2>1. /\ call'.to = s /\ call'.others = call.others /\ call'.before = call.before
          /\ call'.todo = call.todo \ {index}
          /\ registers' = [registers EXCEPT ![s] = Aggregated(s, index, values)]
      <3>1. call' = [call EXCEPT !.todo = @ \ {index}]
        BY <1>3 DEF MergeRegister, SameWidth, Remaining, Idle
      <3>2. Contribute(s, index, values, AtIndex(content[other], index))
        BY <1>3 DEF MergeRegister, SameWidth, Remaining
      <3>3. {"to", "others", "before", "todo"} \subseteq DOMAIN call
        BY <1>1 DEF TypeOK, TypeOfCall, Merging
      <3> QED BY <3>1, <3>2, <3>3 DEF Contribute
    <2>2. /\ DOMAIN registers[s] = DOMAIN old \cup done
          /\ \A i \in DOMAIN registers[s] :
                registers[s][i] = IF i \notin done THEN old[i]
                                  ELSE IF i \notin DOMAIN old THEN new[i]
                                  ELSE Combined(s, old[i], new[i])
          /\ \A t \in Sketch \ {s} : registers[t] = call.before[t]
      BY <1>1, <1>3 DEF MergeExactlyOnce
    <2>3. index \in DOMAIN new /\ index \notin done /\ values = new[index]
      BY <1>1, <2>2
    <2> DEFINE next == DOMAIN new \ call'.todo
    <2>4. next = done \cup {index}
      BY <1>1, <2>1, <2>3
    <2>5. registers'[s] = Aggregated(s, index, values)
      BY <1>1, <2>1 DEF TypeOK, TypeOfMaps
    <2>6. \A t \in Sketch \ {s} : registers'[t] = call.before[t]
      BY <2>1, <2>2 DEF TypeOK, TypeOfMaps
    <2>7. registers[s] = [i \in DOMAIN registers[s] |-> registers[s][i]]
      BY <1>1 DEF TypeOK, TypeOfMaps
    <2> HIDE DEF done, values, old, new, next, s
    <2>8. /\ DOMAIN registers'[s] = DOMAIN old \cup next
          /\ registers'[s][index] = IF index \notin DOMAIN old THEN new[index]
                                    ELSE Combined(s, old[index], new[index])
          /\ \A i \in DOMAIN registers[s] \ {index} : registers'[s][i] = registers[s][i]
      <3>1. CASE index \notin DOMAIN registers[s]
        BY <2>2, <2>3, <2>4, <2>5, <3>1 DEF Aggregated
      <3>2. CASE index \in DOMAIN registers[s]
        BY <2>2, <2>3, <2>4, <2>5, <2>7, <3>2 DEF Aggregated, Combined
      <3> QED BY <3>1, <3>2
    <2>9. \A i \in DOMAIN registers'[s] :
              registers'[s][i] = IF i \notin next THEN old[i]
                                 ELSE IF i \notin DOMAIN old THEN new[i]
                                 ELSE Combined(s, old[i], new[i])
      BY <2>2, <2>3, <2>4, <2>8
    <2>10. /\ call'.to = s /\ Head(call'.others) = other
           /\ call'.before[s] = old /\ call'.before[other] = new
      BY <2>1 DEF old, new, s
    <2>11. next = IF register_size(other) = register_size(s) THEN DOMAIN new \ call'.todo ELSE {}
      BY <1>3 DEF MergeRegister, SameWidth, next, s
    <2> DEFINE to == call'.to
               from == Head(call'.others)
               before == call'.before
    <2>12. /\ DOMAIN registers'[to] = DOMAIN before[to] \cup next
           /\ \A i \in DOMAIN registers'[to] :
                 registers'[to][i] = IF i \notin next THEN before[to][i]
                                     ELSE IF i \notin DOMAIN before[to] THEN before[from][i]
                                     ELSE Combined(to, before[to][i], before[from][i])
           /\ \A t \in Sketch \ {to} : registers'[t] = before[t]
           /\ next = IF register_size(from) = register_size(to)
                     THEN DOMAIN before[from] \ call'.todo ELSE {}
      <3>1. to = s /\ from = other /\ before[s] = old /\ before[other] = new
        BY <2>10
      <3>2. \A t \in Sketch \ {s} : registers'[t] = before[t]
        BY <2>1, <2>6
      <3> HIDE DEF to, from, before, other
      <3> QED BY <3>1, <3>2, <2>8, <2>9, <2>11
    <2> QED BY <2>12, Zenon DEF MergeExactlyOnce
  <1> QED BY <1>2, <1>3

LEMMA MergeExactlyOnceStep == TypeOK /\ MergeExactlyOnce /\ [Next]_vars => MergeExactlyOnce'
  <1> SUFFICES ASSUME TypeOK, MergeExactlyOnce, [Next]_vars PROVE MergeExactlyOnce'
    OBVIOUS
  <1>1. ASSUME NEW s \in Sketch, NEW others \in MergeList, MergeAll(s, others)
        PROVE  MergeExactlyOnce'
    <2>1. others \in Seq(Sketch)
      BY ConfigurationAssumption
    <2> QED BY <1>1, <2>1, MergeStart DEF MergeAll
  <1>2. ASSUME MergeNext PROVE MergeExactlyOnce'
    <2>1. Tail(call.others) \in Seq(Sketch) /\ call.to \in Sketch
      BY <1>2 DEF MergeNext, Merging, TypeOK, TypeOfCall
    <2> QED BY <1>2, <2>1, MergeStart DEF MergeNext
  <1>3. ASSUME NEW index, MergeRegister(index) PROVE MergeExactlyOnce'
    BY <1>3, MergeTurn
  <1>4. ASSUME ~Busy' PROVE MergeExactlyOnce'
    BY <1>4 DEF MergeExactlyOnce, Merging
  <1>5. ASSUME UNCHANGED vars PROVE MergeExactlyOnce'
    BY <1>5 DEF vars, MergeExactlyOnce, Merging, Busy, Combined
  <1>6. ASSUME NEW s \in Sketch, NEW c \in RawContribution, AggregateIntoRegister(s, c)
        PROVE  ~Busy'
    BY <1>6 DEF AggregateIntoRegister, Busy
  <1>7. ASSUME NEW s \in Sketch, NEW item \in Item, Insert(s, item) PROVE ~Busy'
    BY <1>7 DEF Insert, Busy
  <1>8. ASSUME MergeReturn PROVE ~Busy'
    BY <1>8 DEF MergeReturn, Busy
  <1> QED BY <1>1, <1>2, <1>3, <1>4, <1>5, <1>6, <1>7, <1>8 DEF Next, MergeStep

(***************************************************************************)
(* Whatever the order of the hash map and the sketches merged, the sketch  *)
(* itself included, every register of the other sketch is combined exactly *)
(* once, and a sketch of another width leaves no trace.                    *)
(***************************************************************************)
THEOREM MergeCorrect == Spec => []MergeExactlyOnce
  <1>1. Init => TypeOK /\ MergeExactlyOnce
    BY TypeInit DEF Init, MergeExactlyOnce, Merging, Busy
  <1>2. TypeOK /\ MergeExactlyOnce /\ [Next]_vars => TypeOK' /\ MergeExactlyOnce'
    BY TypeStep, MergeExactlyOnceStep
  <1> QED BY <1>1, <1>2, PTL DEF Spec
-----------------------------------------------------------------------------
LEMMA SmallModWord ==
    ASSUME NEW x \in Nat, x < Word
    PROVE  x % Word = x
  BY WordAssumption

\* Multiplication is monotonic in its second argument.
LEMMA TimesMonotonic ==
    ASSUME NEW n \in Nat, NEW a \in Nat, NEW b \in Nat, a <= b
    PROVE  n * a <= n * b
  <1>1. n * b = n * a + n * (b - a)
    OBVIOUS
  <1>2. n * (b - a) >= 0
    OBVIOUS
  <1>3. n * a \in Int /\ n * b \in Int /\ n * (b - a) \in Int
    OBVIOUS
  <1> QED BY <1>1, <1>2, <1>3
-----------------------------------------------------------------------------
(* The bit masks of CountTrailingZeros, for every fingerprint.             *)

\* Each mask test tells one binary digit of the position of a single bit.
LEMMA OneBitHalving ==
    ASSUME NEW b \in 0 .. FingerprintBits - 1, NEW w \in {1, 2, 4, 8, 16, 32}
    PROVE  Halving({b}, w) = IF w < FingerprintBits /\ (b \div w) % 2 = 0 THEN w ELSE 0
BY DEF Halving, Mask

\* A position is the sum of its binary digits.
LEMMA OneBitCounted ==
    ASSUME NEW b \in 0 .. FingerprintBits - 1
    PROVE  Counted({b}) = b
<1> DEFINE digit(w) == IF w < FingerprintBits /\ (b \div w) % 2 = 0 THEN w ELSE 0
<1>1. Counted({b}) = FingerprintBits - 1 - digit(32) - digit(16) - digit(8)
                     - digit(4) - digit(2) - digit(1)
  BY OneBitHalving DEF Counted
<1>2. FingerprintBits \in {1, 2, 4, 8, 16, 32, 64}
  BY FingerprintBitsAssumption
<1>3. CASE FingerprintBits = 64
  BY <1>1, <1>3, SMTT(60)
<1>4. CASE FingerprintBits = 32
  BY <1>1, <1>4, SMTT(60)
<1>5. CASE FingerprintBits \in {1, 2, 4, 8, 16}
  BY <1>1, <1>5, SMTT(60)
<1> QED BY <1>2, <1>3, <1>4, <1>5

LEMMA LowestCounted ==
    ASSUME NEW bits \in SUBSET (0 .. FingerprintBits - 1), NEW lowest \in bits,
           \A b \in bits : lowest <= b
    PROVE  CountTrailingZeros(bits) = lowest
<1>1. lowest \in 0 .. FingerprintBits - 1 /\ \A b \in bits : b \in Int
  BY FingerprintBitsAssumption
<1>2. LowestBit(bits) = {lowest}
  <2>1. ASSUME NEW b \in LowestBit(bits) PROVE b = lowest
    BY <1>1, <2>1 DEF LowestBit
  <2>2. lowest \in LowestBit(bits)
    BY DEF LowestBit
  <2> QED BY <2>1, <2>2
<1> QED BY <1>1, <1>2, OneBitCounted DEF CountTrailingZeros

(***************************************************************************)
(* CountTrailingZeros (distributions.cc:148) returns the position of the   *)
(* lowest one bit, whatever is above it, of words of up to 64 bits.        *)
(***************************************************************************)
THEOREM CountsTrailingZeros == TrailingZerosCounted
<1> SUFFICES ASSUME NEW n \in 0 .. MaxFingerprint
             PROVE  /\ OneBits(n) = {} => CountTrailingZeros(OneBits(n)) = FingerprintBits
                    /\ \A lowest \in OneBits(n) :
                          (\A b \in OneBits(n) : lowest <= b)
                              => CountTrailingZeros(OneBits(n)) = lowest
  BY DEF TrailingZerosCounted
<1>1. OneBits(n) \in SUBSET (0 .. FingerprintBits - 1)
  BY DEF OneBits
<1>2. OneBits(n) = {} => CountTrailingZeros(OneBits(n)) = FingerprintBits
  BY DEF CountTrailingZeros
<1> QED BY <1>1, <1>2, LowestCounted

-----------------------------------------------------------------------------
(***************************************************************************)
(* SUM columns.  ColumnSum is the sum that SumConserved takes of a bag.    *)
(***************************************************************************)
ColumnSum(bag, k) == MapThenSumSet(LAMBDA c : bag[c] * c.values[k], DOMAIN bag)
Weighted(bag, k) == [c \in DOMAIN bag |-> bag[c] * c.values[k]]

\* Finitely many contributions, each of them counted, with a number in column k.
Countable(bag, k) ==
    /\ IsFiniteSet(DOMAIN bag)
    /\ \A c \in DOMAIN bag : bag[c] \in Nat /\ c.values[k] \in Int

LEMMA CountableSummable ==
    ASSUME NEW bag, NEW k, Countable(bag, k)
    PROVE  Summable(Weighted(bag, k), DOMAIN bag)
  <1>1. \A n \in Nat, v \in Int : n * v \in Int
    OBVIOUS
  <1> QED BY <1>1 DEF Countable, Summable, Weighted

LEMMA ColumnSumIsSum ==
    ASSUME NEW bag, NEW k, Countable(bag, k)
    PROVE  ColumnSum(bag, k) = SumFunctionOnSet(Weighted(bag, k), DOMAIN bag)
  <1> DEFINE S == DOMAIN bag
             f == Weighted(bag, k)
             Adds(iter) == iter = [s \in SUBSET S |->
                              IF s = {} THEN 0
                              ELSE bag[Chosen(s)] * Chosen(s).values[k] + iter[s \ {Chosen(s)}]]
             h == CHOOSE iter : Adds(iter)
  <1>1. \A s \in SUBSET S : s # {} => f[Chosen(s)] = bag[Chosen(s)] * Chosen(s).values[k]
    BY DEF Chosen, Weighted
  <1>2. \A iter : Iterates(iter, f, S) <=> Adds(iter)
    <2> HIDE DEF f, S
    <2> QED BY <1>1 DEF Iterates
  <1>3. PICK g : SumFunctionOnSet(f, S) = g[S] /\ Iterates(g, f, S)
    BY CountableSummable, SumIsIter
  <1>4. Adds(h)
    <2> HIDE DEF Adds, f, S
    <2> QED BY <1>2, <1>3, Zenon
  <1>5. Iterates(h, f, S)
    BY <1>2, <1>4
  <1>6. ColumnSum(bag, k) = h[S]
    BY Zenon DEF ColumnSum, MapThenSumSet, MapThenFoldSet, Chosen
  <1>7. IsFiniteSet(S)
    BY DEF Countable
  <1> HIDE DEF h, f, S
  <1>8. h[S] = g[S]
    BY <1>3, <1>5, <1>7, IterUnique
  <1> QED BY <1>3, <1>6, <1>8 DEF f, S

LEMMA ColumnSumType ==
    ASSUME NEW bag, NEW k, Countable(bag, k)
    PROVE  ColumnSum(bag, k) \in Int
  BY ColumnSumIsSum, CountableSummable, SumType

\* The union of two bags adds up to the sum of both.
LEMMA ColumnSumUnion ==
    ASSUME NEW B1, NEW B2, NEW k, Countable(B1, k), Countable(B2, k)
    PROVE  /\ Countable(B1 (+) B2, k)
           /\ ColumnSum(B1 (+) B2, k) = ColumnSum(B1, k) + ColumnSum(B2, k)
  <1> DEFINE D == DOMAIN B1 \cup DOMAIN B2
             B == B1 (+) B2
             n(b, c) == IF c \in DOMAIN b THEN b[c] ELSE 0
             part(b) == [c \in D |-> n(b, c) * c.values[k]]
  <1>1. DOMAIN B = D /\ \A c \in D : B[c] = n(B1, c) + n(B2, c)
    BY DEF (+)
  <1>2. \A c \in D : n(B1, c) \in Nat /\ n(B2, c) \in Nat /\ c.values[k] \in Int
    BY DEF Countable
  <1>3. IsFiniteSet(D)
    BY FS_Union DEF Countable
  <1>4. Countable(B, k)
    <2> HIDE DEF n, B
    <2>1. \A c \in D : B[c] \in Nat /\ c.values[k] \in Int
      BY <1>1, <1>2
    <2> QED BY <1>1, <1>3, <2>1 DEF Countable
  <1>5. \A i \in Nat, v \in Int : i * v \in Int
    OBVIOUS
  <1>6. Summable(part(B1), D) /\ Summable(part(B2), D)
    <2> HIDE DEF n, D
    <2> QED BY <1>2, <1>3, <1>5 DEF Summable
  <1>7. ASSUME NEW b \in {B1, B2}
        PROVE  SumFunctionOnSet(part(b), D) = ColumnSum(b, k)
    <2> DEFINE f == part(b)
               w == Weighted(b, k)
    <2>1. DOMAIN b \subseteq D /\ Countable(b, k) /\ Summable(f, D)
      BY <1>6
    <2>2. \A c \in D \ DOMAIN b : f[c] = 0
      BY <1>2
    <2>3. \A c \in DOMAIN b : f[c] = w[c]
      BY DEF Weighted
    <2> HIDE DEF f, w, D, part, n
    <2>4. SumFunctionOnSet(f, D) = SumFunctionOnSet(f, DOMAIN b)
      BY <2>1, <2>2, SumZeros
    <2>5. Summable(f, DOMAIN b)
      BY <2>1, FS_Subset DEF Summable
    <2>6. SumFunctionOnSet(f, DOMAIN b) = SumFunctionOnSet(w, DOMAIN b)
      BY <2>3, <2>5, SumAgree
    <2>7. ColumnSum(b, k) = SumFunctionOnSet(w, DOMAIN b)
      BY <2>1, ColumnSumIsSum DEF w
    <2> QED BY <2>4, <2>6, <2>7 DEF f
  <1>8. \A c \in D : Weighted(B, k)[c] = part(B1)[c] + part(B2)[c]
    <2>1. \A i, j \in Nat, v \in Int : (i + j) * v = i * v + j * v
      OBVIOUS
    <2> HIDE DEF n, B, D
    <2> QED BY <1>1, <1>2, <2>1 DEF Weighted
  <1> HIDE DEF part, B, D, n
  <1>9. SumFunctionOnSet(Weighted(B, k), D) = SumFunctionOnSet(part(B1), D) + SumFunctionOnSet(part(B2), D)
    BY <1>6, <1>8, SumPlus
  <1>10. ColumnSum(B, k) = SumFunctionOnSet(Weighted(B, k), D)
    BY <1>1, <1>4, ColumnSumIsSum
  <1>11. ColumnSum(B, k) = ColumnSum(B1, k) + ColumnSum(B2, k)
    BY <1>7, <1>9, <1>10
  <1> QED BY <1>4, <1>11 DEF B

LEMMA ColumnSumSingle ==
    ASSUME NEW c, NEW k, c.values[k] \in Int
    PROVE  Countable(SetToBag({c}), k) /\ ColumnSum(SetToBag({c}), k) = c.values[k]
  <1> DEFINE bag == SetToBag({c})
  <1>1. DOMAIN bag = {c} /\ bag[c] = 1
    BY DEF SetToBag
  <1>2. Countable(bag, k)
    <2> HIDE DEF bag
    <2>1. IsFiniteSet({c})
      BY FS_Singleton
    <2> QED BY <1>1, <2>1 DEF Countable
  <1>3. Weighted(bag, k)[c] = c.values[k]
    BY <1>1 DEF Weighted
  <1> HIDE DEF bag
  <1>4. SumFunctionOnSet(Weighted(bag, k), {} \cup {c}) = c.values[k] + SumFunctionOnSet(Weighted(bag, k), {})
    <2>1. Summable(Weighted(bag, k), {})
      BY FS_EmptySet DEF Summable
    <2> QED BY <1>3, <2>1, SumInsert
  <1>5. SumFunctionOnSet(Weighted(bag, k), {c}) = c.values[k]
    BY <1>4, SumEmpty
  <1>6. ColumnSum(bag, k) = c.values[k]
    BY <1>1, <1>2, <1>5, ColumnSumIsSum
  <1> QED BY <1>2, <1>6 DEF bag

LEMMA ColumnSumNothing ==
    ASSUME NEW bag, DOMAIN bag = {}, NEW k
    PROVE  Countable(bag, k) /\ ColumnSum(bag, k) = 0
  <1>1. Countable(bag, k)
    BY FS_EmptySet DEF Countable
  <1> QED BY <1>1, ColumnSumIsSum, SumEmpty
\* A finite bag of contributions, which TypeOK does not say of content.
FiniteBag(bag) == IsFiniteSet(DOMAIN bag) /\ \A c \in DOMAIN bag : bag[c] \in Nat
ContentFinite == \A s \in Sketch : FiniteBag(content[s])

LEMMA CountablePart ==
    ASSUME NEW bag, NEW index, NEW k, Countable(bag, k)
    PROVE  Countable(AtIndex(bag, index), k)
  <1> DEFINE part == AtIndex(bag, index)
  <1>1. DOMAIN part \subseteq DOMAIN bag /\ \A c \in DOMAIN part : part[c] = bag[c]
    BY DEF AtIndex
  <1>2. IsFiniteSet(DOMAIN part)
    BY <1>1, FS_Subset DEF Countable
  <1> HIDE DEF part
  <1> QED BY <1>1, <1>2 DEF Countable, part

\* What a register of s has received after a contribution to register index.
LEMMA ReceivedAfter ==
    ASSUME TypeOfMaps, ContentFinite, NEW s \in Sketch, NEW index, NEW values, NEW bag,
           ContributionsTo(s, index, bag), Contribute(s, index, values, bag),
           NEW t \in Sketch, NEW i
    PROVE  AtIndex(content'[t], i) = IF t = s /\ i = index THEN AtIndex(content[t], i) (+) bag
                                     ELSE AtIndex(content[t], i)
  <1>1. content' = [content EXCEPT ![s] = content[s] (+) bag]
    BY DEF Contribute
  <1>2. CASE t # s
    <2>1. content'[t] = content[t]
      BY <1>1, <1>2 DEF TypeOfMaps
    <2> QED BY <1>2, <2>1
  <1>3. CASE t = s
    <2> DEFINE B == content[s]
    <2>1. content'[t] = B (+) bag
      BY <1>1, <1>3 DEF TypeOfMaps
    <2>2. /\ \A c \in DOMAIN bag : c.index = index
          /\ \A c \in DOMAIN B : B[c] \in Nat
      BY DEF ContributionsTo, ContentFinite, FiniteBag
    <2> HIDE DEF B
    <2>3. CASE i = index
      <3>1. AtIndex(B (+) bag, i) = AtIndex(B, i) (+) bag
        <4>1. {c \in DOMAIN (B (+) bag) : c.index = i} = {c \in DOMAIN B : c.index = i} \cup DOMAIN bag
          <5>1. DOMAIN (B (+) bag) = DOMAIN B \cup DOMAIN bag
            BY BagUnionDomain
          <5> QED BY <2>2, <2>3, <5>1
        <4>2. DOMAIN AtIndex(B, i) = {c \in DOMAIN B : c.index = i}
          BY DEF AtIndex
        <4>3. ASSUME NEW c \in {d \in DOMAIN B : d.index = i} \cup DOMAIN bag
              PROVE  (B (+) bag)[c] = (AtIndex(B, i) (+) bag)[c]
          <5>1. c \in DOMAIN B <=> c \in DOMAIN AtIndex(B, i)
            BY <2>2, <2>3, <4>2
          <5>2. c \in DOMAIN AtIndex(B, i) => AtIndex(B, i)[c] = B[c]
            BY DEF AtIndex
          <5> QED BY <4>3, <5>1, <5>2 DEF (+)
        <4>4. DOMAIN (AtIndex(B, i) (+) bag) = {d \in DOMAIN B : d.index = i} \cup DOMAIN bag
          BY <4>2, BagUnionDomain
        <4>5. AtIndex(B (+) bag, i) =
                [c \in {d \in DOMAIN B : d.index = i} \cup DOMAIN bag |-> (B (+) bag)[c]]
          BY <4>1 DEF AtIndex
        <4>6. AtIndex(B, i) (+) bag =
                [c \in {d \in DOMAIN B : d.index = i} \cup DOMAIN bag |-> (AtIndex(B, i) (+) bag)[c]]
          BY <4>2 DEF (+)
        <4> QED BY <4>3, <4>5, <4>6
      <3> QED BY <1>3, <2>1, <2>3, <3>1 DEF B
    <2>4. CASE i # index
      <3>1. {c \in DOMAIN (B (+) bag) : c.index = i} = {c \in DOMAIN B : c.index = i}
        <4>1. DOMAIN (B (+) bag) = DOMAIN B \cup DOMAIN bag
          BY BagUnionDomain
        <4> QED BY <2>2, <2>4, <4>1
      <3>2. ASSUME NEW c \in {d \in DOMAIN B : d.index = i} PROVE (B (+) bag)[c] = B[c]
        <4>1. c \notin DOMAIN bag
          BY <2>2, <2>4
        <4>2. (B (+) bag)[c] = B[c] + 0 /\ B[c] \in Nat
          BY <2>2, <4>1 DEF (+)
        <4>3. \A n \in Nat : n + 0 = n
          OBVIOUS
        <4> QED BY <4>2, <4>3
      <3>3. AtIndex(B (+) bag, i) = AtIndex(B, i)
        BY <3>1, <3>2 DEF AtIndex
      <3> QED BY <1>3, <2>1, <2>4, <3>3 DEF B
    <2> QED BY <2>3, <2>4
  <1> QED BY <1>2, <1>3
\* SumConserved in terms of ColumnSum.
SumsKept ==
    \A s \in Sketch : \A index \in DOMAIN registers[s], k \in Columns(s) :
        ValueFunctions[s][k].aggregator = "SUM" =>
            registers[s][index][k] = Wrapped(ColumnSum(AtIndex(content[s], index), k))

LEMMA SumsKeptConserved == SumsKept <=> SumConserved
  BY Zenon DEF SumsKept, SumConserved, ColumnSum

LEMMA FiniteBagPart ==
    ASSUME NEW bag, NEW index, FiniteBag(bag)
    PROVE  FiniteBag(AtIndex(bag, index))
  <1> DEFINE part == AtIndex(bag, index)
  <1>1. DOMAIN part \subseteq DOMAIN bag /\ \A c \in DOMAIN part : part[c] = bag[c]
    BY DEF AtIndex
  <1>2. IsFiniteSet(DOMAIN part)
    BY <1>1, FS_Subset DEF FiniteBag
  <1> HIDE DEF part
  <1> QED BY <1>1, <1>2 DEF FiniteBag, part

LEMMA FiniteBagUnion ==
    ASSUME NEW B1, NEW B2, FiniteBag(B1), FiniteBag(B2)
    PROVE  FiniteBag(B1 (+) B2)
  <1>1. IsFiniteSet(DOMAIN B1 \cup DOMAIN B2)
    BY FS_Union DEF FiniteBag
  <1>2. DOMAIN (B1 (+) B2) = DOMAIN B1 \cup DOMAIN B2
    BY BagUnionDomain
  <1>3. \A c \in DOMAIN B1 \cup DOMAIN B2 : (B1 (+) B2)[c] \in Nat
    BY DEF FiniteBag, (+)
  <1> QED BY <1>1, <1>2, <1>3 DEF FiniteBag

\* The contributions to a register of s can be added up in every column.
LEMMA RegisterCountable ==
    ASSUME TypeOfMaps, NEW s \in Sketch, FiniteBag(content[s]), NEW index, NEW k \in Columns(s)
    PROVE  Countable(AtIndex(content[s], index), k)
  <1>1. \A c \in DOMAIN content[s] : c.values[k] \in Int
    BY Int64Type DEF TypeOfMaps
  <1>2. Countable(content[s], k)
    BY <1>1 DEF Countable, FiniteBag
  <1> QED BY <1>2, CountablePart

LEMMA ContentStaysFinite ==
    ASSUME TypeOfMaps, ContentFinite, NEW s \in Sketch, NEW index, NEW values, NEW bag,
           FiniteBag(bag), Contribute(s, index, values, bag)
    PROVE  ContentFinite'
  <1>1. content' = [content EXCEPT ![s] = content[s] (+) bag] /\ DOMAIN content = Sketch
    BY DEF Contribute, TypeOfMaps
  <1>2. FiniteBag(content[s] (+) bag)
    BY FiniteBagUnion DEF ContentFinite
  <1>3. ASSUME NEW t \in Sketch PROVE FiniteBag(content'[t])
    BY <1>1, <1>2 DEF ContentFinite
  <1> QED BY <1>3 DEF ContentFinite, FiniteBag

\* A contribution that is worth what its bag adds up to keeps the sums.
LEMMA SumContribute ==
    ASSUME TypeOfMaps, ContentFinite, SumsKept, NEW s \in Sketch, NEW index \in IndexType[s],
           NEW values \in [Columns(s) -> Int64], NEW bag, FiniteBag(bag),
           ContributionsTo(s, index, bag), Contribute(s, index, values, bag),
           \A k \in Columns(s) : ValueFunctions[s][k].aggregator = "SUM" =>
               values[k] = Wrapped(ColumnSum(bag, k))
    PROVE  SumsKept'
  <1> SUFFICES ASSUME NEW t \in Sketch, NEW i \in DOMAIN registers'[t], NEW k \in Columns(t),
                      ValueFunctions[t][k].aggregator = "SUM"
               PROVE  registers'[t][i][k] = Wrapped(ColumnSum(AtIndex(content'[t], i), k))
    BY DEF SumsKept
  <1> DEFINE B == AtIndex(content[t], i)
             C == AtIndex(content'[t], i)
  <1>1. registers' = [registers EXCEPT ![s] = Aggregated(s, index, values)]
    BY DEF Contribute
  <1>2. ASSUME i \in DOMAIN registers[t] PROVE registers[t][i][k] = Wrapped(ColumnSum(B, k))
    BY <1>2 DEF SumsKept
  <1>3. C = IF t = s /\ i = index THEN B (+) bag ELSE B
    BY ReceivedAfter
  <1>4. Countable(B, k)
    BY RegisterCountable DEF ContentFinite
  <1> HIDE DEF B, C
  <1>5. CASE t # s
    <2>1. registers'[t] = registers[t]
      BY <1>1, <1>5 DEF TypeOfMaps
    <2> QED BY <1>2, <1>3, <1>5, <2>1 DEF C
  <1>6. CASE t = s
    <2>1. registers'[t] = Aggregated(s, index, values)
      BY <1>1, <1>6 DEF TypeOfMaps
    <2>2. DOMAIN registers'[t] = DOMAIN registers[t] \cup {index}
      <3>1. registers[s] \in [DOMAIN registers[s] -> [Columns(s) -> Int64]]
        BY DEF TypeOfMaps
      <3>2. DOMAIN Aggregated(s, index, values) = DOMAIN registers[s] \cup {index}
        BY <3>1, AggregatedType
      <3> QED BY <1>6, <2>1, <3>2
    <2>3. CASE i # index
      <3>1. i \in DOMAIN registers[t]
        BY <2>2, <2>3
      <3>2. registers'[t][i] = registers[t][i]
        BY <1>6, <2>1, <2>3, <3>1 DEF Aggregated
      <3> QED BY <1>2, <1>3, <2>3, <3>1, <3>2 DEF C
    <2>4. \A c \in DOMAIN bag : c.values[k] \in Int
      BY <1>6, Int64Type DEF ContributionsTo
    <2>5. Countable(bag, k) /\ values[k] = Wrapped(ColumnSum(bag, k))
      BY <1>6, <2>4 DEF Countable, FiniteBag
    <2>6. ColumnSum(B (+) bag, k) = ColumnSum(B, k) + ColumnSum(bag, k)
      BY <1>4, <2>5, ColumnSumUnion
    <2>7. ColumnSum(B, k) \in Int /\ ColumnSum(bag, k) \in Int
      BY <1>4, <2>5, ColumnSumType
    <2>8. CASE i = index /\ i \notin DOMAIN registers[t]
      <3>1. registers'[t][i] = values
        BY <1>6, <2>1, <2>8 DEF Aggregated
      <3>2. DOMAIN B = {}
        <4>1. DOMAIN B = {c \in DOMAIN content[t] : c.index = i}
          BY DEF AtIndex, B
        <4>2. \A c \in DOMAIN content[t] : c.index # i
          BY <2>8 DEF TypeOfMaps
        <4> QED BY <4>1, <4>2
      <3>3. ColumnSum(B, k) = 0
        BY <3>2, ColumnSumNothing
      <3>4. ColumnSum(C, k) = ColumnSum(bag, k)
        BY <1>3, <1>6, <2>6, <2>7, <2>8, <3>3
      <3> QED BY <2>5, <3>1, <3>4 DEF C
    <2>9. CASE i = index /\ i \in DOMAIN registers[t]
      <3>1. registers'[t][i] =
              [c \in Columns(s) |-> Aggregate(ValueFunctions[s][c].aggregator,
                                              registers[s][index][c], values[c])]
        BY <1>6, <2>1, <2>9 DEF Aggregated
      <3>2. registers'[t][i][k] = Wrapped(registers[t][i][k] + values[k])
        BY <1>6, <2>9, <3>1 DEF Aggregate, SumAggregate
      <3>3. registers'[t][i][k] = Wrapped(Wrapped(ColumnSum(B, k)) + Wrapped(ColumnSum(bag, k)))
        BY <1>2, <2>5, <2>9, <3>2
      <3>4. registers'[t][i][k] = Wrapped(ColumnSum(B, k) + ColumnSum(bag, k))
        BY <2>7, <3>3, WrappedSum
      <3>5. ColumnSum(C, k) = ColumnSum(B, k) + ColumnSum(bag, k)
        BY <1>3, <1>6, <2>6, <2>9
      <3> QED BY <3>4, <3>5 DEF C
    <2> QED BY <2>3, <2>8, <2>9
  <1> QED BY <1>5, <1>6
\* A tuple of the caller or of an item is worth itself.
LEMMA SumFresh ==
    ASSUME TypeOfMaps, ContentFinite, SumsKept, NEW s \in Sketch, NEW index \in IndexType[s],
           NEW values \in [Columns(s) -> Int64], FreshContribution(s, index, values)
    PROVE  SumsKept' /\ ContentFinite'
  <1>1. PICK item, vector :
          Contribute(s, index, values, SetToBag({Contribution(item, index, vector, values)}))
    BY DEF FreshContribution
  <1> DEFINE c == Contribution(item, index, vector, values)
             bag == SetToBag({c})
  <1>2. ContributionsTo(s, index, bag) /\ DOMAIN bag = {c}
    BY SingleContribution
  <1>3. c.values = values
    BY DEF Contribution
  <1>4. bag[c] = 1
    BY DEF SetToBag
  <1>5. Contribute(s, index, values, bag)
    BY <1>1
  <1> HIDE DEF c
  <1>6. ASSUME NEW k \in Columns(s) PROVE values[k] = Wrapped(ColumnSum(bag, k))
    <2>1. values[k] \in Int64
      OBVIOUS
    <2>2. c.values[k] \in Int /\ Wrapped(values[k]) = values[k]
      BY <1>3, <2>1, WrappedSame, Int64Type
    <2>3. ColumnSum(bag, k) = values[k]
      BY <1>3, <2>2, ColumnSumSingle
    <2> QED BY <2>2, <2>3
  <1> HIDE DEF bag
  <1>7. FiniteBag(bag)
    <2>1. IsFiniteSet({c})
      BY FS_Singleton
    <2> QED BY <1>2, <1>4, <2>1 DEF FiniteBag
  <1> QED BY <1>2, <1>5, <1>6, <1>7, SumContribute, ContentStaysFinite

\* A register of a compatible sketch is worth what it has received.
LEMMA SumMerged ==
    ASSUME Compatible, TypeOfMaps, ContentFinite, SumsKept, NEW s \in Sketch,
           NEW index \in IndexType[s], NEW other \in Sketch, MergedContribution(s, index, other)
    PROVE  SumsKept' /\ ContentFinite'
  <1> DEFINE values == registers[other][index]
             bag == AtIndex(content[other], index)
  <1>1. index \in DOMAIN registers[other] /\ Contribute(s, index, values, bag)
    BY DEF MergedContribution
  <1>2. /\ Columns(other) = Columns(s)
        /\ \A k \in Columns(s) :
              ValueFunctions[s][k].aggregator = ValueFunctions[other][k].aggregator
    BY DEF MergedContribution, register_size, Columns, Compatible
  <1>3. values \in [Columns(s) -> Int64]
    BY <1>1, <1>2 DEF TypeOfMaps
  <1>4. ContributionsTo(s, index, bag)
    <2>1. DOMAIN bag = {c \in DOMAIN content[other] : c.index = index}
      BY DEF AtIndex
    <2>2. \E c \in DOMAIN content[other] : c.index = index
      BY <1>1 DEF TypeOfMaps
    <2>3. \A c \in DOMAIN content[other] : c.values \in [Columns(s) -> Int64]
      BY <1>2 DEF TypeOfMaps
    <2> HIDE DEF bag
    <2> QED BY <2>1, <2>2, <2>3 DEF ContributionsTo
  <1>5. \A k \in Columns(s) : ValueFunctions[s][k].aggregator = "SUM" =>
            values[k] = Wrapped(ColumnSum(bag, k))
    BY <1>1, <1>2 DEF SumsKept
  <1>6. FiniteBag(bag)
    BY FiniteBagPart DEF ContentFinite
  <1> HIDE DEF values, bag
  <1> QED BY <1>1, <1>3, <1>4, <1>5, <1>6, SumContribute, ContentStaysFinite

\* Every step is a contribution or leaves the maps alone.
LEMMA StepContributes ==
    ASSUME TypeOK, [Next]_vars
    PROVE  ContributionStep \/ UNCHANGED <<registers, content>>
  <1>1. ASSUME MergeNext \/ MergeReturn \/ UNCHANGED vars
        PROVE  UNCHANGED <<registers, content>>
    BY <1>1 DEF MergeNext, MergeReturn, vars
  <1>2. ASSUME NEW s \in Sketch, NEW others \in MergeList, MergeAll(s, others)
        PROVE  UNCHANGED <<registers, content>>
    BY <1>2 DEF MergeAll
  <1> QED BY <1>1, <1>2, AggregateIntoRegisterStep, InsertStep, MergeRegisterStep
          DEF Next, MergeStep

SumInv == ContentFinite /\ SumsKept

LEMMA SumStep == Compatible /\ TypeOK /\ SumInv /\ [Next]_vars => SumInv'
  <1> SUFFICES ASSUME Compatible, TypeOK, SumInv, [Next]_vars PROVE SumInv'
    OBVIOUS
  <1>1. TypeOfMaps /\ ContentFinite /\ SumsKept
    BY DEF TypeOK, SumInv
  <1>2. ASSUME ContributionStep PROVE SumInv'
    BY <1>1, <1>2, SumFresh, SumMerged DEF ContributionStep, SumInv
  <1>3. ASSUME UNCHANGED <<registers, content>> PROVE SumInv'
    BY <1>1, <1>3 DEF SumInv, SumsKept, ContentFinite
  <1> QED BY <1>2, <1>3, StepContributes

LEMMA SumInit == Init => SumInv
  <1> SUFFICES ASSUME Init PROVE SumInv
    OBVIOUS
  <1>1. ASSUME NEW s \in Sketch PROVE DOMAIN registers[s] = {} /\ DOMAIN content[s] = {}
    BY DEF Init, EmptyBag, SetToBag
  <1>2. IsFiniteSet({})
    BY FS_EmptySet
  <1> QED BY <1>1, <1>2 DEF SumInv, SumsKept, ContentFinite, FiniteBag

(***************************************************************************)
(* Of compatible sketches, a SUM column is the sum of all that ever went   *)
(* into its register, in an int64_t that may have wrapped around on the    *)
(* way: for any number of sketches and any order of inserts and merges.    *)
(***************************************************************************)
THEOREM SumCorrect == ASSUME Compatible PROVE Spec => []SumConserved
  <1>1. Init => TypeOK /\ SumInv
    BY TypeInit, SumInit
  <1>2. TypeOK /\ SumInv /\ [Next]_vars => TypeOK' /\ SumInv'
    BY TypeStep, SumStep
  <1>3. SumInv => SumConserved
    BY SumsKeptConserved DEF SumInv
  <1> QED BY <1>1, <1>2, <1>3, PTL DEF Spec
-----------------------------------------------------------------------------
(***************************************************************************)
(* The registers depend on what went in: the sum of a column can be taken  *)
(* over the different tuples of values, each as often as it was put in.    *)
(***************************************************************************)
Times(bag, S) == MapThenSumSet(LAMBDA c : bag[c], S)
ByValue(bag) ==
    [v \in {c.values : c \in DOMAIN bag} |-> Times(bag, {c \in DOMAIN bag : c.values = v})]

LEMMA ValueBagIs ==
    ASSUME NEW s, NEW index
    PROVE  ValueBag(s, index) = ByValue(AtIndex(content[s], index))
  BY Zenon DEF ValueBag, ByValue, Times

LEMMA TimesIsSum ==
    ASSUME NEW bag, NEW S, Summable(bag, S)
    PROVE  Times(bag, S) = SumFunctionOnSet(bag, S)
  <1> DEFINE h == CHOOSE iter : Iterates(iter, bag, S)
  <1>1. PICK g : SumFunctionOnSet(bag, S) = g[S] /\ Iterates(g, bag, S)
    BY SumIsIter
  <1>2. Iterates(h, bag, S)
    BY <1>1, Zenon
  <1>3. Times(bag, S) = h[S]
    BY Zenon DEF Times, MapThenSumSet, MapThenFoldSet, Chosen, Iterates
  <1>4. IsFiniteSet(S)
    BY DEF Summable
  <1> HIDE DEF h
  <1>5. h[S] = g[S]
    BY <1>1, <1>2, <1>4, IterUnique
  <1> QED BY <1>1, <1>3, <1>5

LEMMA ColumnSumByValue ==
    ASSUME NEW bag, NEW k, Countable(bag, k)
    PROVE  ColumnSum(bag, k)
             = SumFunctionOnSet([v \in DOMAIN ByValue(bag) |-> ByValue(bag)[v] * v[k]],
                                DOMAIN ByValue(bag))
  <1> DEFINE S == DOMAIN bag
             g == [c \in S |-> c.values]
             V == {c.values : c \in S}
             group(v) == {c \in S : g[c] = v}
             h == [v \in DOMAIN ByValue(bag) |-> ByValue(bag)[v] * v[k]]
             f == Weighted(bag, k)
  <1>1. V = DOMAIN ByValue(bag) /\ \A v \in V : ByValue(bag)[v] = Times(bag, group(v))
    <2>1. \A v : group(v) = {c \in S : c.values = v}
      OBVIOUS
    <2> QED BY <2>1 DEF ByValue
  <1>2. IsFiniteSet(S) /\ Summable(f, S)
    BY CountableSummable DEF Countable
  <1>3. IsFiniteSet(V)
    <2>1. V = {g[c] : c \in S}
      OBVIOUS
    <2> HIDE DEF g, V, S
    <2>2. g \in [S -> {g[c] : c \in S}]
      BY DEF g
    <2>3. g \in Surjection(S, V)
      BY <2>1, <2>2 DEF Surjection
    <2> QED BY <1>2, <2>3, FS_Surjection
  <1>4. ASSUME NEW v \in V PROVE h[v] = SumFunctionOnSet(f, group(v))
    <2>1. \A c \in group(v) : bag[c] \in Int /\ v[k] \in Int /\ f[c] = bag[c] * v[k]
      BY DEF Countable, Weighted
    <2>2. v[k] \in Int
      BY DEF Countable
    <2>3. Summable(bag, group(v))
      <3>1. group(v) \subseteq S
        OBVIOUS
      <3> HIDE DEF group, S
      <3> QED BY <1>2, <2>1, <3>1, FS_Subset DEF Summable
    <2>4. h[v] = Times(bag, group(v)) * v[k]
      BY <1>1
    <2> HIDE DEF h, f, group, g
    <2>5. SumFunctionOnSet(f, group(v)) = SumFunctionOnSet(bag, group(v)) * v[k]
      BY <2>1, <2>2, <2>3, SumTimes
    <2> QED BY <2>3, <2>4, <2>5, TimesIsSum
  <1>5. \A c \in S : g[c] \in V
    OBVIOUS
  <1>6. SumFunctionOnSet(f, S) = SumFunctionOnSet(h, V)
    <2>1. \A v \in V : h[v] = SumFunctionOnSet(f, {c \in S : g[c] = v})
      BY <1>4
    <2> HIDE DEF f, S, g, V, h
    <2>2. Grouped(f, S, g, V, h)
      BY <1>2, <1>3, <1>5, <2>1 DEF Grouped
    <2> QED BY <2>2, SumGrouped
  <1> HIDE DEF f, S, V, h, g
  <1> QED BY <1>1, <1>6, ColumnSumIsSum DEF f, S, h

\* A UNIQUE value is determined by what was seen.
LEMMA UniqueDetermined ==
    ASSUME NEW v, NEW w, NEW S, IsUniqueOf(v, S), IsUniqueOf(w, S)
    PROVE  v = w
  BY DEF IsUniqueOf

LEMMA ContentDecides ==
    ASSUME TypeOK, ContentFinite, UniqueSound, SumsKept
    PROVE  ContentDecidesRegisters
  <1> SUFFICES ASSUME NEW s \in Sketch, NEW t \in Sketch, ValueFunctions[s] = ValueFunctions[t],
                      NEW index \in DOMAIN registers[s] \cap DOMAIN registers[t],
                      ValueBag(s, index) = ValueBag(t, index)
               PROVE  registers[s][index] = registers[t][index]
    BY DEF ContentDecidesRegisters
  <1> DEFINE A == AtIndex(content[s], index)
             B == AtIndex(content[t], index)
  <1>1. TypeOfMaps /\ Columns(s) = Columns(t)
    BY DEF TypeOK, Columns
  <1>2. registers[s][index] \in [Columns(s) -> Int64] /\ registers[t][index] \in [Columns(s) -> Int64]
    BY <1>1 DEF TypeOfMaps
  <1>3. ByValue(A) = ByValue(B)
    BY ValueBagIs
  <1>4. ASSUME NEW k \in Columns(s) PROVE registers[s][index][k] = registers[t][index][k]
    <2>1. CASE ValueFunctions[s][k].aggregator = "SUM"
      <3>1. Countable(A, k) /\ Countable(B, k)
        BY <1>1, RegisterCountable DEF ContentFinite
      <3>2. ColumnSum(A, k) = ColumnSum(B, k)
        <4> HIDE DEF A, B
        <4> QED BY <1>3, <3>1, ColumnSumByValue
      <3>3. /\ registers[s][index][k] = Wrapped(ColumnSum(A, k))
            /\ registers[t][index][k] = Wrapped(ColumnSum(B, k))
        BY <1>1, <2>1 DEF SumsKept
      <3> QED BY <3>2, <3>3
    <2>2. CASE ValueFunctions[s][k].aggregator = "UNIQUE"
      <3>1. /\ IsUniqueOf(registers[s][index][k], SeenIn(A, k))
            /\ IsUniqueOf(registers[t][index][k], SeenIn(B, k))
        BY <1>1, <2>2 DEF UniqueSound, Seen, SeenIn
      <3>2. \A bag : SeenIn(bag, k) = {v[k] : v \in DOMAIN ByValue(bag)}
        BY DEF SeenIn, ByValue
      <3>3. SeenIn(A, k) = SeenIn(B, k)
        BY <1>3, <3>2
      <3> QED BY <3>1, <3>3, UniqueDetermined
    <2>3. ValueFunctions[s][k].aggregator \in {"SUM", "UNIQUE"}
      BY ConfigurationAssumption DEF Columns
    <2> QED BY <2>1, <2>2, <2>3
  <1> QED BY <1>2, <1>4

(***************************************************************************)
(* Two sketches with the same value functions whose registers received the *)
(* same tuples of values, each as often, hold the same registers: inserts  *)
(* and merges may come in any order and any grouping.                      *)
(***************************************************************************)
THEOREM ContentCorrect == ASSUME Compatible PROVE Spec => []ContentDecidesRegisters
  <1>1. Init => TypeOK /\ UniqueSound /\ SumInv
    BY TypeInit, UniqueInit, SumInit
  <1>2. TypeOK /\ UniqueSound /\ SumInv /\ [Next]_vars => TypeOK' /\ UniqueSound' /\ SumInv'
    BY TypeStep, UniqueStep, SumStep
  <1>3. TypeOK /\ UniqueSound /\ SumInv => ContentDecidesRegisters
    BY ContentDecides DEF SumInv
  <1> QED BY <1>1, <1>2, <1>3, PTL DEF Spec
-----------------------------------------------------------------------------
(***************************************************************************)
(* GetIndex.  Turn is one turn of its loop, and Walks the function by      *)
(* which FoldLeft is defined, over the sets D of positions in a sequence e. *)
(***************************************************************************)
Turn(acc, ds, vector, k) == Linearize(acc, vector[k] - ds[k].min, size(ds[k]))

Walks(iter, ds, vector, e, D) ==
    iter = [T \in SUBSET D |->
               IF T = {} THEN LinearizeStart
               ELSE Turn(iter[T \ {Max(T)}], ds, vector, e[Max(T)])]

LEMMA WalkExists ==
    ASSUME NEW ds, NEW vector, NEW e, NEW n \in Nat
    PROVE  \E h : Walks(h, ds, vector, e, 1 .. n)
  <1> DEFINE N == {k \in Nat : \E h : Walks(h, ds, vector, e, 1 .. k)}
  <1>1. 0 \in N
    <2> DEFINE h == [T \in SUBSET (1 .. 0) |-> LinearizeStart]
    <2>1. \A T \in SUBSET (1 .. 0) : T = {}
      OBVIOUS
    <2>2. Walks(h, ds, vector, e, 1 .. 0)
      BY <2>1 DEF Walks
    <2> QED BY <2>2
  <1>2. ASSUME NEW k \in Nat, k \in N PROVE k + 1 \in N
    <2>1. PICK h : Walks(h, ds, vector, e, 1 .. k)
      BY <1>2
    <2> DEFINE S == SUBSET (1 .. k + 1)
               next(T) == Turn(h[T \ {k + 1}], ds, vector, e[k + 1])
               g == [T \in S |-> IF k + 1 \in T THEN next(T) ELSE h[T]]
               step(T) == IF T = {} THEN LinearizeStart
                          ELSE Turn(g[T \ {Max(T)}], ds, vector, e[Max(T)])
    <2>2. ASSUME NEW T \in S PROVE g[T] = step(T)
      <3>1. CASE k + 1 \in T
        <4>1. Max(T) = k + 1
          BY <3>1, LastIsMax
        <4>2. g[T \ {k + 1}] = h[T \ {k + 1}] /\ T # {}
          BY <3>1
        <4>3. g[T] = next(T)
          BY <3>1
        <4> QED BY <4>1, <4>2, <4>3
      <3>2. CASE k + 1 \notin T
        <4>1. T \in SUBSET (1 .. k) /\ T \ {Max(T)} \in SUBSET (1 .. k) /\ T \ {Max(T)} \in S
          <5>1. \A x \in 1 .. k + 1 : x # k + 1 => x \in 1 .. k
            OBVIOUS
          <5> QED BY <3>2, <5>1
        <4>2. g[T \ {Max(T)}] = h[T \ {Max(T)}] /\ g[T] = h[T]
          BY <3>2, <4>1
        <4>3. h[T] = IF T = {} THEN LinearizeStart
                     ELSE Turn(h[T \ {Max(T)}], ds, vector, e[Max(T)])
          BY <2>1, <4>1 DEF Walks
        <4> QED BY <4>2, <4>3
      <3> QED BY <3>1, <3>2
    <2>3. g = [T \in S |-> step(T)]
      <3>1. g = [T \in S |-> g[T]]
        OBVIOUS
      <3> HIDE DEF g
      <3> QED BY <2>2, <3>1
    <2>4. Walks(g, ds, vector, e, 1 .. k + 1)
      <3> HIDE DEF g
      <3> QED BY <2>3 DEF Walks
    <2> QED BY <2>4
  <1>3. \A k \in Nat : k \in N
    <2> HIDE DEF N
    <2> QED BY <1>1, <1>2, NatSetInduction
  <1> QED BY <1>3

\* acc holds the accumulators of GetIndex after each turn of its loop.
Accumulates(acc, ds, vector, n) ==
    /\ acc[0] = LinearizeStart
    /\ \A k \in 1 .. n : acc[k] = Turn(acc[k - 1], ds, vector, k)

LEMMA GetIndexTurns ==
    ASSUME NEW ds, NEW vector, NEW n \in Nat, DOMAIN vector = 1 .. n
    PROVE  \E acc : Accumulates(acc, ds, vector, n) /\ GetIndex(ds, vector) = acc[n].linearized
  <1> DEFINE e == [i \in DOMAIN vector |-> i]
             D == DOMAIN e
             h == CHOOSE iter : Walks(iter, ds, vector, e, D)
             acc == [k \in 0 .. n |-> h[1 .. k]]
  <1>1. D = 1 .. n
    OBVIOUS
  <1>2. GetIndex(ds, vector) = h[D].linearized
    BY Zenon DEF GetIndex, FoldLeftDomain, FoldLeft, MapThenFoldSet, Walks, Turn
  <1> HIDE DEF D
  <1>3. Walks(h, ds, vector, e, D)
    <2>1. \E iter : Walks(iter, ds, vector, e, D)
      <3> HIDE DEF e
      <3> QED BY <1>1, WalkExists
    <2> QED BY <2>1, Zenon
  <1>4. e = [i \in 1 .. n |-> i]
    OBVIOUS
  <1> HIDE DEF h, e
  <1>5. acc[0] = LinearizeStart
    <2>1. 1 .. 0 = {} /\ acc[0] = h[1 .. 0]
      OBVIOUS
    <2> QED BY <1>3, <2>1 DEF Walks
  <1>6. ASSUME NEW k \in 1 .. n PROVE acc[k] = Turn(acc[k - 1], ds, vector, k)
    <2>1. /\ 1 .. k \in SUBSET D /\ 1 .. k # {} /\ (1 .. k) \ {k} = 1 .. k - 1
          /\ acc[k] = h[1 .. k] /\ acc[k - 1] = h[1 .. k - 1]
      <3>1. k \in 0 .. n /\ k - 1 \in 0 .. n
        OBVIOUS
      <3>2. \A x : x \in 1 .. k - 1 <=> x \in 1 .. k /\ x # k
        OBVIOUS
      <3>3. \A x \in 1 .. k : x \in 1 .. n
        OBVIOUS
      <3>4. k \in 1 .. k
        OBVIOUS
      <3> QED BY <1>1, <3>1, <3>2, <3>3, <3>4
    <2>2. Max(1 .. k) = k
      BY LastIsMax
    <2>3. e[k] = k
      BY <1>4
    <2> HIDE DEF acc
    <2>4. h[1 .. k] = Turn(h[(1 .. k) \ {Max(1 .. k)}], ds, vector, e[Max(1 .. k)])
      BY <1>3, <2>1 DEF Walks
    <2> QED BY <2>1, <2>2, <2>3, <2>4
  <1>7. acc[n] = h[D]
    BY <1>1
  <1> HIDE DEF acc
  <1> QED BY <1>2, <1>5, <1>6, <1>7 DEF Accumulates
(***************************************************************************)
(* Lists of indexes that GetIndex keeps apart: n distributions, of which   *)
(* each but the first is no larger than the product P of those before it.  *)
(* M bounds the register numbers, which have to fit a uint64_t.            *)
(***************************************************************************)
NarrowBy(ds, n, P, M) ==
    /\ P[0] = 1 /\ M[0] = 1
    /\ \A k \in 1 .. n :
          /\ ds[k].min \in Int /\ ds[k].max \in Int
          /\ P[k] = P[k - 1] * size(ds[k])
          /\ M[k] = IF k = 1 THEN size(ds[k]) ELSE P[k - 1] * M[k - 1]
          /\ k = 1 \/ size(ds[k]) <= P[k - 1]
          /\ P[k - 1] < Word /\ M[k] <= Word

NarrowIndexes(ds) ==
    \E n \in Nat : DOMAIN ds = 1 .. n /\ \E P, M \in [0 .. n -> Nat \ {0}] : NarrowBy(ds, n, P, M)

\* The vectors of indexes that ApplyAll may give.
IndexVector(ds, v) ==
    DOMAIN v = DOMAIN ds /\ \A k \in DOMAIN ds : v[k] \in ds[k].min .. ds[k].max

Part(ds, v, k) == v[k] - ds[k].min

\* What the accumulators hold as long as nothing wraps around.
Exact(acc, ds, v, P, M, k) ==
    /\ acc[k].product = P[k] % Word
    /\ acc[k].linearized \in 0 .. M[k] - 1
    /\ k >= 1 => acc[k].linearized = P[k - 1] * acc[k - 1].linearized + Part(ds, v, k)

\* A digit below p on top of p times a number below m.
LEMMA DigitBound ==
    ASSUME NEW p \in Nat, NEW m \in Nat, NEW l \in 0 .. m - 1, NEW d \in 0 .. p - 1
    PROVE  p * l + d \in 0 .. p * m - 1
  <1>1. p * l <= p * (m - 1)
    BY TimesMonotonic
  <1>2. p * (m - 1) = p * m - p
    OBVIOUS
  <1>3. p * l \in Nat /\ p * m \in Nat
    OBVIOUS
  <1> QED BY <1>1, <1>2, <1>3

LEMMA DigitsDistinct ==
    ASSUME NEW p \in Nat, NEW l1 \in Nat, NEW l2 \in Nat, NEW d1 \in 0 .. p - 1, NEW d2 \in 0 .. p - 1,
           p * l1 + d1 = p * l2 + d2
    PROVE  l1 = l2 /\ d1 = d2
  <1>1. ASSUME NEW a \in Nat, NEW b \in Nat, a < b PROVE p * a + p <= p * b
    <2>1. p * (a + 1) <= p * b
      BY <1>1, TimesMonotonic
    <2>2. p * (a + 1) = p * a + p
      OBVIOUS
    <2> QED BY <2>1, <2>2
  <1>2. p * l1 \in Int /\ p * l2 \in Int
    OBVIOUS
  <1>3. l1 = l2
    BY <1>1, <1>2
  <1> QED BY <1>2, <1>3

\* v is a vector of such indexes and acc what GetIndex makes of it.
Runs(acc, ds, v, n, P, M) ==
    /\ DOMAIN ds = 1 .. n /\ P \in [0 .. n -> Nat \ {0}] /\ M \in [0 .. n -> Nat \ {0}]
    /\ NarrowBy(ds, n, P, M)
    /\ IndexVector(ds, v) /\ Accumulates(acc, ds, v, n)

LEMMA ExactNext ==
    ASSUME NEW acc, NEW ds, NEW v, NEW n \in Nat, NEW P, NEW M, Runs(acc, ds, v, n, P, M),
           NEW k \in 1 .. n, Exact(acc, ds, v, P, M, k - 1)
    PROVE  Exact(acc, ds, v, P, M, k)
  <1> DEFINE d == ds[k]
             z == size(d)
             p == Part(ds, v, k)
             l == acc[k - 1].linearized
             j == k - 1
             value == P[j] * l + p
  <1>1. j \in 0 .. n /\ k \in 0 .. n /\ k >= 1
    OBVIOUS
  <1>2. /\ P[k] = P[j] * z
        /\ M[k] = IF k = 1 THEN z ELSE P[j] * M[j]
        /\ k = 1 \/ z <= P[j]
        /\ P[j] < Word /\ M[k] <= Word
        /\ d.min \in Int /\ d.max \in Int
    BY Zenon DEF NarrowBy, Runs
  <1>3. P[j] \in Nat \ {0} /\ M[j] \in Nat \ {0} /\ M[k] \in Nat \ {0}
    BY <1>1 DEF Runs
  <1>4. acc[k] = Linearize(acc[j], p, z)
    BY Zenon DEF Accumulates, Runs, Turn, Part
  <1>5. p \in 0 .. z - 1 /\ z \in Int
    <2>1. v[k] \in d.min .. d.max
      BY <1>1 DEF IndexVector, Runs
    <2>2. \A i, m \in Int : \A x \in i .. m : x - i \in 0 .. (m - i + 1) - 1 /\ m - i + 1 \in Int
      OBVIOUS
    <2> HIDE DEF d
    <2>3. v[k] - d.min \in 0 .. (d.max - d.min + 1) - 1 /\ d.max - d.min + 1 \in Int
      BY <1>2, <2>1, <2>2
    <2> QED BY <2>3 DEF size, Part, d
  <1>6. acc[j].product = P[j] /\ l \in 0 .. M[j] - 1
    <2>1. P[j] % Word = P[j]
      BY <1>2, <1>3, SmallModWord
    <2> QED BY <2>1 DEF Exact
  <1>7. value \in 0 .. M[k] - 1
    <2>1. CASE k = 1
      <3>1. l = 0
        <4>1. acc[0].linearized = 0
          BY DEF Accumulates, LinearizeStart, Runs
        <4> QED BY <2>1, <4>1
      <3>2. P[j] * 0 = 0
        BY <1>3
      <3>3. value = p
        BY <1>5, <3>1, <3>2
      <3> QED BY <1>2, <1>5, <2>1, <3>3
    <2>2. CASE k # 1
      <3> HIDE DEF p, l, j, z
      <3>1. z <= P[j] /\ M[k] = P[j] * M[j]
        BY <1>2, <2>2
      <3>2. p \in 0 .. P[j] - 1
        BY <1>3, <1>5, <3>1
      <3>3. P[j] * l + p \in 0 .. P[j] * M[j] - 1
        BY <1>3, <1>6, <3>2, DigitBound
      <3> QED BY <3>1, <3>3
    <2> QED BY <2>1, <2>2
  <1>8. acc[k] = [linearized |-> value % Word, product |-> P[k] % Word]
    BY <1>2, <1>4, <1>6 DEF Linearize
  <1>9. value % Word = value
    <2> HIDE DEF value
    <2>1. value \in Nat /\ value < Word
      BY <1>2, <1>3, <1>7, WordAssumption
    <2> QED BY <2>1, SmallModWord
  <1> HIDE DEF p
  <1>10. acc[k].linearized = value /\ acc[k].product = P[k] % Word
    BY <1>8, <1>9
  <1> QED BY <1>7, <1>10 DEF Exact, p

LEMMA ExactTurns ==
    ASSUME NEW acc, NEW ds, NEW v, NEW n \in Nat, NEW P, NEW M, Runs(acc, ds, v, n, P, M)
    PROVE  \A k \in 0 .. n : Exact(acc, ds, v, P, M, k)
  <1> DEFINE N == {k \in Nat : k <= n => Exact(acc, ds, v, P, M, k)}
  <1>1. 0 \in N
    <2>1. acc[0].linearized = 0 /\ acc[0].product = 1 /\ P[0] = 1 /\ M[0] = 1
      BY DEF Accumulates, LinearizeStart, NarrowBy, Runs
    <2>2. 1 % Word = 1
      BY SmallModWord, WordAssumption
    <2> QED BY <2>1, <2>2 DEF Exact
  <1>2. ASSUME NEW k \in Nat, k \in N PROVE k + 1 \in N
    <2> SUFFICES ASSUME k + 1 <= n PROVE Exact(acc, ds, v, P, M, k + 1)
      OBVIOUS
    <2>1. PICK i \in 1 .. n : i = k + 1 /\ i - 1 = k
      OBVIOUS
    <2>2. Exact(acc, ds, v, P, M, i - 1)
      BY <1>2, <2>1
    <2>3. Exact(acc, ds, v, P, M, i)
      BY <2>2, ExactNext
    <2> QED BY <2>1, <2>3
  <1>3. \A k \in Nat : k \in N
    <2> HIDE DEF N
    <2> QED BY <1>1, <1>2, NatSetInduction
  <1> QED BY <1>3

BothRun(a, b, ds, v, w, n, P, M) ==
    n \in Nat /\ Runs(a, ds, v, n, P, M) /\ Runs(b, ds, w, n, P, M)

SameSuffix(a, b, v, w, n) ==
    \A k \in 1 .. n :
        a[k].linearized = b[k].linearized =>
            v[k] = w[k] /\ a[k - 1].linearized = b[k - 1].linearized

\* The last position of a common register number had the same index and the
\* same number before it in both vectors.
LEMMA SameBefore ==
    ASSUME NEW a, NEW b, NEW ds, NEW v, NEW w, NEW n, NEW P, NEW M,
           BothRun(a, b, ds, v, w, n, P, M)
    PROVE  SameSuffix(a, b, v, w, n)
  <1> SUFFICES ASSUME NEW k \in 1 .. n, a[k].linearized = b[k].linearized
               PROVE  v[k] = w[k] /\ a[k - 1].linearized = b[k - 1].linearized
    BY DEF SameSuffix
  <1>0. n \in Nat /\ Runs(a, ds, v, n, P, M) /\ Runs(b, ds, w, n, P, M)
    BY DEF BothRun
  <1> DEFINE j == k - 1
             la == a[j].linearized
             lb == b[j].linearized
             p == Part(ds, v, k)
             q == Part(ds, w, k)
  <1>1. j \in 0 .. n /\ k \in 0 .. n /\ k >= 1
    BY <1>0
  <1>2. /\ Exact(a, ds, v, P, M, k) /\ Exact(b, ds, w, P, M, k)
        /\ Exact(a, ds, v, P, M, j) /\ Exact(b, ds, w, P, M, j)
    BY <1>0, <1>1, ExactTurns
  <1>3. P[j] * la + p = P[j] * lb + q
    BY <1>1, <1>2 DEF Exact
  <1>4. P[j] \in Nat \ {0} /\ M[j] \in Nat \ {0}
    BY <1>0, <1>1 DEF Runs
  <1>5. la \in Nat /\ lb \in Nat
    BY <1>2, <1>4 DEF Exact
  <1>6. /\ ds[k].min \in Int /\ ds[k].max \in Int
        /\ k = 1 \/ size(ds[k]) <= P[j]
    BY <1>0, Zenon DEF NarrowBy, Runs
  <1>7. v[k] \in ds[k].min .. ds[k].max /\ w[k] \in ds[k].min .. ds[k].max
    BY <1>0, <1>1 DEF IndexVector, Runs
  <1>8. p \in Int /\ q \in Int /\ (p = q => v[k] = w[k])
    <2>1. \A m, x, y \in Int : x - m \in Int /\ (x - m = y - m => x = y)
      OBVIOUS
    <2>2. v[k] \in Int /\ w[k] \in Int
      BY <1>6, <1>7
    <2> QED BY <1>6, <2>1, <2>2 DEF Part
  <1>9. la = lb /\ p = q
    <2>1. CASE k = 1
      <3>1. la = 0 /\ lb = 0
        BY <1>0, <2>1 DEF Accumulates, LinearizeStart, Runs
      <3>2. P[j] * 0 = 0
        BY <1>4
      <3> HIDE DEF p, q, j
      <3>3. 0 + p = p /\ 0 + q = q
        BY <1>8
      <3> QED BY <1>3, <3>1, <3>2, <3>3
    <2>2. CASE k # 1
      <3>1. \A m, x, z \in Int : x \in m .. z => x - m \in 0 .. (z - m + 1) - 1
        OBVIOUS
      <3>2. p \in 0 .. size(ds[k]) - 1 /\ q \in 0 .. size(ds[k]) - 1
        <4>1. v[k] \in Int /\ w[k] \in Int
          BY <1>6, <1>7
        <4> QED BY <1>6, <1>7, <3>1, <4>1 DEF Part, size
      <3>3. size(ds[k]) \in Int
        BY <1>6 DEF size
      <3>4. p \in 0 .. P[j] - 1 /\ q \in 0 .. P[j] - 1
        <4> HIDE DEF p, q, j
        <4> QED BY <1>4, <1>6, <2>2, <3>2, <3>3
      <3> HIDE DEF p, q, j, la, lb
      <3> QED BY <1>3, <1>4, <1>5, <3>4, DigitsDistinct
    <2> QED BY <2>1, <2>2
  <1> QED BY <1>8, <1>9

(***************************************************************************)
(* GetIndex sends different vectors of indexes to different registers,     *)
(* however many indexes there are, as long as none of them has more values *)
(* than those before it have together and the register numbers fit a       *)
(* uint64_t.                                                               *)
(***************************************************************************)
THEOREM IndexesInjective ==
    ASSUME NEW ds, NarrowIndexes(ds), NEW v, NEW w, IndexVector(ds, v), IndexVector(ds, w),
           GetIndex(ds, v) = GetIndex(ds, w)
    PROVE  \A k \in DOMAIN ds : v[k] = w[k]
  <1>1. PICK n \in Nat : DOMAIN ds = 1 .. n /\
                         \E P, M \in [0 .. n -> Nat \ {0}] : NarrowBy(ds, n, P, M)
    BY DEF NarrowIndexes
  <1>2. PICK P \in [0 .. n -> Nat \ {0}], M \in [0 .. n -> Nat \ {0}] : NarrowBy(ds, n, P, M)
    BY <1>1
  <1>3. DOMAIN v = 1 .. n /\ DOMAIN w = 1 .. n
    BY <1>1 DEF IndexVector
  <1>4. PICK a : Accumulates(a, ds, v, n) /\ GetIndex(ds, v) = a[n].linearized
    BY <1>3, GetIndexTurns
  <1>5. PICK b : Accumulates(b, ds, w, n) /\ GetIndex(ds, w) = b[n].linearized
    BY <1>3, GetIndexTurns
  <1>6. BothRun(a, b, ds, v, w, n, P, M)
    BY <1>1, <1>2, <1>4, <1>5 DEF Runs, BothRun
  <1> DEFINE Same(k) == a[k].linearized = b[k].linearized => \A i \in 1 .. k : v[i] = w[i]
             N == {k \in Nat : k <= n => Same(k)}
  <1>7. 0 \in N
    OBVIOUS
  <1>8. ASSUME NEW k \in Nat, k \in N PROVE k + 1 \in N
    <2> SUFFICES ASSUME k + 1 <= n, a[k + 1].linearized = b[k + 1].linearized,
                        NEW i \in 1 .. k + 1
                 PROVE  v[i] = w[i]
      OBVIOUS
    <2>1. PICK m \in 1 .. n : m = k + 1 /\ m - 1 = k
      OBVIOUS
    <2>2. v[m] = w[m] /\ a[m - 1].linearized = b[m - 1].linearized
      <3>1. SameSuffix(a, b, v, w, n)
        BY <1>6, SameBefore
      <3> QED BY <2>1, <3>1 DEF SameSuffix
    <2>3. \A x \in 1 .. k : v[x] = w[x]
      <3>1. k <= n => Same(k)
        BY <1>8
      <3>2. k <= n
        BY <2>1
      <3> HIDE DEF Same
      <3>3. Same(k)
        BY <3>1, <3>2
      <3> QED BY <2>1, <2>2, <3>3 DEF Same
    <2>4. i = m \/ i \in 1 .. k
      BY <2>1
    <2> QED BY <2>2, <2>3, <2>4
  <1>9. \A k \in Nat : k \in N
    <2> HIDE DEF N
    <2> QED BY <1>7, <1>8, NatSetInduction
  <1>10. n <= n => Same(n)
    BY <1>9
  <1>11. n <= n
    OBVIOUS
  <1> QED BY <1>1, <1>4, <1>5, <1>10, <1>11

\* The two sides of the merge of sketches of one width index alike, with
\* lists of indexes that GetIndex keeps apart.
SameIndexes ==
    /\ \A s \in Sketch : NarrowIndexes(IndexDists[s])
    /\ \A s, t \in Sketch :
          register_size(s) = register_size(t) => IndexDists[s] = IndexDists[t]

\* Every vector on record is one of its sketch's indexes and gave the register.
VectorsIndexed ==
    \A s \in Sketch : \A c \in DOMAIN content[s] : IndexedBy(s, c.index, c.vector)

LEMMA IndexVectorOf ==
    ASSUME NEW ds, NEW v \in VectorsOf(ds)
    PROVE  IndexVector(ds, v) /\ v = [k \in DOMAIN ds |-> v[k]]
  BY DEF VectorsOf, IndexVector

LEMMA IndexedContribute ==
    ASSUME TypeOfMaps, VectorsIndexed, NEW s \in Sketch, NEW index, NEW values, NEW bag,
           Contribute(s, index, values, bag),
           \A c \in DOMAIN bag : IndexedBy(s, c.index, c.vector)
    PROVE  VectorsIndexed'
  <1>1. /\ content'[s] = content[s] (+) bag
        /\ \A t \in Sketch \ {s} : content'[t] = content[t]
    BY DEF Contribute, TypeOfMaps
  <1>2. DOMAIN content'[s] = DOMAIN content[s] \cup DOMAIN bag
    BY <1>1, BagUnionDomain
  <1>3. ASSUME NEW t \in Sketch, NEW c \in DOMAIN content'[t]
        PROVE  IndexedBy(t, c.index, c.vector)
    BY <1>1, <1>2 DEF VectorsIndexed
  <1> QED BY <1>3 DEF VectorsIndexed, IndexedBy

LEMMA IndexedStep == SameIndexes /\ TypeOK /\ VectorsIndexed /\ [Next]_vars => VectorsIndexed'
  <1> SUFFICES ASSUME SameIndexes, TypeOK, VectorsIndexed, [Next]_vars PROVE VectorsIndexed'
    OBVIOUS
  <1>0. TypeOfMaps
    BY DEF TypeOK
  <1>1. ASSUME NEW s \in Sketch, NEW index \in IndexType[s], NEW values \in [Columns(s) -> Int64],
               FreshContribution(s, index, values)
        PROVE  VectorsIndexed'
    <2>1. PICK item, vector :
            /\ IndexedBy(s, index, vector)
            /\ Contribute(s, index, values, SetToBag({Contribution(item, index, vector, values)}))
      BY <1>1 DEF FreshContribution
    <2> DEFINE c == Contribution(item, index, vector, values)
               bag == SetToBag({c})
    <2>2. DOMAIN bag = {c}
      BY SingleContribution
    <2>3. c.index = index /\ c.vector = vector
      BY DEF Contribution
    <2>4. Contribute(s, index, values, bag)
      BY <2>1
    <2> HIDE DEF c, bag
    <2>5. \A d \in DOMAIN bag : IndexedBy(s, d.index, d.vector)
      BY <2>1, <2>2, <2>3
    <2> QED BY <1>0, <2>4, <2>5, IndexedContribute
  <1>2. ASSUME NEW s \in Sketch, NEW index \in IndexType[s], NEW other \in Sketch,
               MergedContribution(s, index, other)
        PROVE  VectorsIndexed'
    <2> DEFINE values == registers[other][index]
               bag == AtIndex(content[other], index)
    <2>1. Contribute(s, index, values, bag) /\ IndexDists[s] = IndexDists[other]
      BY <1>2 DEF MergedContribution, SameIndexes
    <2>2. DOMAIN bag \subseteq DOMAIN content[other]
      BY DEF AtIndex
    <2> HIDE DEF values, bag
    <2>3. ASSUME NEW c \in DOMAIN bag PROVE IndexedBy(s, c.index, c.vector)
      <3>1. IndexedBy(other, c.index, c.vector)
        BY <2>2 DEF VectorsIndexed
      <3> QED BY <2>1, <3>1 DEF IndexedBy
    <2> QED BY <1>0, <2>1, <2>3, IndexedContribute
  <1>3. ASSUME UNCHANGED <<registers, content>> PROVE VectorsIndexed'
    BY <1>3 DEF VectorsIndexed, IndexedBy
  <1> QED BY <1>1, <1>2, <1>3, StepContributes DEF ContributionStep

LEMMA IndexedVectorsApart == SameIndexes /\ VectorsIndexed => OneVectorPerRegister
  <1> SUFFICES ASSUME SameIndexes, VectorsIndexed, NEW s \in Sketch,
                      NEW c \in DOMAIN content[s], NEW d \in DOMAIN content[s],
                      c.vector # << >>, d.vector # << >>, c.index = d.index
               PROVE  c.vector = d.vector
    BY DEF OneVectorPerRegister
  <1> DEFINE ds == IndexDists[s]
  <1>1. PICK i, j \in Item : c.vector \in ApplyAll(ds, i) /\ d.vector \in ApplyAll(ds, j)
    BY DEF VectorsIndexed, IndexedBy
  <1>2. GetIndex(ds, c.vector) = GetIndex(ds, d.vector)
    BY DEF VectorsIndexed, IndexedBy
  <1>3. NarrowIndexes(ds)
    BY DEF SameIndexes
  <1> HIDE DEF ds
  <1>4. /\ IndexVector(ds, c.vector) /\ c.vector = [k \in DOMAIN ds |-> c.vector[k]]
        /\ IndexVector(ds, d.vector) /\ d.vector = [k \in DOMAIN ds |-> d.vector[k]]
    BY <1>1, ApplyAllVector, IndexVectorOf
  <1>5. \A k \in DOMAIN ds : c.vector[k] = d.vector[k]
    BY <1>2, <1>3, <1>4, IndexesInjective
  <1>6. [k \in DOMAIN ds |-> c.vector[k]] = [k \in DOMAIN ds |-> d.vector[k]]
    BY <1>5
  <1> QED BY <1>4, <1>6

(***************************************************************************)
(* Of sketches that index alike, by lists of indexes that GetIndex keeps   *)
(* apart, items with different vectors of indexes never share a register,  *)
(* after any inserts and merges.                                           *)
(***************************************************************************)
THEOREM OneVectorCorrect == ASSUME SameIndexes PROVE Spec => []OneVectorPerRegister
  <1>1. Init => TypeOK /\ VectorsIndexed
    <2>1. Init => VectorsIndexed
      BY DEF Init, EmptyBag, SetToBag, VectorsIndexed
    <2> QED BY <2>1, TypeInit
  <1>2. TypeOK /\ VectorsIndexed /\ [Next]_vars => TypeOK' /\ VectorsIndexed'
    BY TypeStep, IndexedStep
  <1>3. VectorsIndexed => OneVectorPerRegister
    BY IndexedVectorsApart
  <1> QED BY <1>1, <1>2, <1>3, PTL DEF Spec

(***************************************************************************)
(* The other way round it fails: with two indexes of which the second has  *)
(* more values, GetIndex gives two vectors the same register.              *)
(***************************************************************************)
THEOREM LargerSecondIndexCollides ==
    ASSUME NEW ds, DOMAIN ds = 1 .. 2, \A k \in 1 .. 2 : ds[k].min \in Int /\ ds[k].max \in Int,
           1 < size(ds[1]), size(ds[1]) < size(ds[2]), size(ds[1]) < Word
    PROVE  \E v, w : /\ IndexVector(ds, v) /\ IndexVector(ds, w) /\ v # w
                     /\ GetIndex(ds, v) = GetIndex(ds, w)
  <1> DEFINE n == size(ds[1])
             m1 == ds[1].min
             m2 == ds[2].min
             v == [k \in 1 .. 2 |-> IF k = 1 THEN m1 ELSE m2 + n]
             w == [k \in 1 .. 2 |-> IF k = 1 THEN m1 + 1 ELSE m2]
  <1>0. /\ m1 \in Int /\ m2 \in Int /\ ds[1].max \in Int /\ ds[2].max \in Int
        /\ 1 \in 1 .. 2 /\ 2 \in 1 .. 2 /\ 2 \in Nat /\ 2 - 1 = 1 /\ 1 - 1 = 0
    OBVIOUS
  <1>1. n \in Nat /\ n = ds[1].max - m1 + 1 /\ size(ds[2]) = ds[2].max - m2 + 1
    BY <1>0 DEF size
  <1>2. /\ m1 <= ds[1].max /\ m1 + 1 <= ds[1].max
        /\ m2 <= ds[2].max /\ m2 + n <= ds[2].max
    <2> HIDE DEF n
    <2> QED BY <1>0, <1>1 DEF n
  <1>3. /\ DOMAIN v = 1 .. 2 /\ v[1] = m1 /\ v[2] = m2 + n
        /\ DOMAIN w = 1 .. 2 /\ w[1] = m1 + 1 /\ w[2] = m2
    OBVIOUS
  <1> HIDE DEF v, w, n, m1, m2
  <1>4. IndexVector(ds, v) /\ IndexVector(ds, w)
    <2>1. v[1] \in m1 .. ds[1].max /\ v[2] \in m2 .. ds[2].max
      BY <1>0, <1>1, <1>2, <1>3
    <2>2. w[1] \in m1 .. ds[1].max /\ w[2] \in m2 .. ds[2].max
      BY <1>0, <1>1, <1>2, <1>3
    <2>3. \A k \in 1 .. 2 : k = 1 \/ k = 2
      OBVIOUS
    <2> QED BY <1>3, <2>1, <2>2, <2>3 DEF IndexVector, m1, m2
  <1>5. v # w
    BY <1>0, <1>3
  <1>50. ASSUME NEW x, NEW t \in Nat, DOMAIN x = 1 .. t
        PROVE  \E acc : Accumulates(acc, ds, x, t) /\ GetIndex(ds, x) = acc[t].linearized
    BY <1>50, GetIndexTurns
  <1>6. PICK a : Accumulates(a, ds, v, 2) /\ GetIndex(ds, v) = a[2].linearized
    BY <1>0, <1>3, <1>50
  <1>7. PICK b : Accumulates(b, ds, w, 2) /\ GetIndex(ds, w) = b[2].linearized
    BY <1>0, <1>3, <1>50
  <1>8. /\ Part(ds, v, 1) = 0 /\ Part(ds, v, 2) = n
        /\ Part(ds, w, 1) = 1 /\ Part(ds, w, 2) = 0
    <2>1. \A x, y \in Int : x - x = 0 /\ (x + y) - x = y
      OBVIOUS
    <2> QED BY <1>0, <1>1, <1>3, <2>1 DEF Part, m1, m2
  <1>9. /\ a[1] = Linearize(LinearizeStart, 0, n) /\ a[2] = Linearize(a[1], n, size(ds[2]))
        /\ b[1] = Linearize(LinearizeStart, 1, n) /\ b[2] = Linearize(b[1], 0, size(ds[2]))
    BY <1>0, <1>6, <1>7, <1>8 DEF Accumulates, Turn, Part, n
  <1>10. 0 % Word = 0 /\ 1 % Word = 1 /\ n % Word = n
    BY <1>1, SmallModWord, WordAssumption DEF n
  <1>11. /\ 1 * 0 + 0 = 0 /\ 1 * 0 + 1 = 1 /\ 1 * n = n
         /\ n * 0 + n = n /\ n * 1 + 0 = n
    BY <1>1
  <1>12. /\ a[1] = [linearized |-> 0, product |-> n]
         /\ b[1] = [linearized |-> 1, product |-> n]
    BY <1>9, <1>10, <1>11 DEF Linearize, LinearizeStart
  <1>13. a[2].linearized = b[2].linearized
    BY <1>9, <1>11, <1>12 DEF Linearize
  <1> QED BY <1>4, <1>5, <1>6, <1>7, <1>13
=============================================================================
