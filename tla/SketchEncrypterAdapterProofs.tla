-------------------- MODULE SketchEncrypterAdapterProofs --------------------
(***************************************************************************)
(* A client of the adapter, for all workers, keys, requests, options,      *)
(* distributions and limits of the attempts: one call runs at a time,      *)
(* noise lies within its threshold, combined keys are sums, the workers    *)
(* can decrypt every answer, and an answer is complete.                    *)
(*                                                                         *)
(* The invariant has three parts: NoiseInv about the noisers, KeysInv      *)
(* about the keys and the loop that combines them, ClientInv about the     *)
(* calls.                                                                  *)
(***************************************************************************)
EXTENDS SketchEncrypterAdapter, FoldLemmas, TLAPS

(***************************************************************************)
(* The noise.                                                              *)
(***************************************************************************)

\* The first of the two variables was accepted, so it is within the threshold.
FirstKept ==
    NoiseAt("polya_b") /\ noise.options.p # NaN =>
        /\ noise.polya_a >= 0
        /\ Truncates => noise.polya_a <= noise.options.truncate_threshold

\* A call has the request it was made with, and only asks for noise if that does.
RequestKept ==
    ~EncryptAt("none") =>
        /\ {"pc", "request"} \subseteq DOMAIN encrypt
        /\ encrypt.request \in EncryptSketchRequest
        /\ EncryptAt("noise") => HasNoiseParameter

NoiseInv ==
    /\ NoiseAt("none") \/ noise \in NoiseLocals
    /\ ~NoiseAt("none") => FirstKept /\ NoiseInRange
    /\ RequestKept

LEMMA InitNoise == Init => NoiseInv
BY DEF Init, NoiseInit, NoNoise, NoiseInv, NoiseAt, NoEncrypt, EncryptAt, RequestKept

\* A noiser that is called with proper options keeps the invariant.
LEMMA CallKeeps ==
    ASSUME NEW options \in Options, GenerateNoiseComponent(options)
    PROVE  noise' \in NoiseLocals /\ FirstKept' /\ NoiseInRange'
BY NoisersAssumption DEF GenerateNoiseComponent, NoiseLocals, FirstKept, NoiseInRange, NoiseAt

\* Each draw keeps it.
LEMMA StepKeeps ==
    ASSUME NoiseInv, NoiseStep
    PROVE  noise' \in NoiseLocals /\ FirstKept' /\ NoiseInRange'
<1>0. noise \in NoiseLocals /\ FirstKept /\ NoiseInRange
  BY DEF NoiseStep, NoiseInv, NoiseAt, RejectContributors, SeedError, RejectP, StartDrawing,
         GetTruncatedPolyaRandomVariable, DrawGaussian, AcceptGaussian, RejectGaussian
<1>1. noise.options.truncate_threshold \in Int /\ noise.options.shift_offset \in Int
  BY <1>0 DEF NoiseLocals, Options
<1>2. ASSUME NEW status \in {"InvalidArgument", "Internal"}, NoiseFails(status)
      PROVE  noise' \in NoiseLocals /\ FirstKept' /\ NoiseInRange'
  BY <1>0, <1>2 DEF NoiseFails, NoiseLocals, NoiseResults, FirstKept, NoiseInRange, NoiseAt
<1>3. CASE RejectContributors \/ SeedError \/ RejectP
  BY <1>2, <1>3 DEF RejectContributors, SeedError, RejectP
<1>4. CASE StartDrawing
  BY <1>0, <1>4 DEF StartDrawing, NoiseLocals, NoiseAt, FirstKept, NoiseInRange
<1>5. CASE GetTruncatedPolyaRandomVariable
  <2>1. PICK polya \in Drawn : (~TooLarge(polya) /\ KeepPolya(polya)) \/ RetryPolya(polya)
    BY <1>5 DEF GetTruncatedPolyaRandomVariable
  <2>2. polya \in Int /\ (noise.options.p # NaN => polya >= 0)
    BY NoisersAssumption DEF Drawn, AnyInt
  <2>3. CASE ~TooLarge(polya) /\ KeepPolya(polya)
    <3>1. CASE NoiseAt("polya_a")
      <4>1. noise' = [noise EXCEPT !.pc = "polya_b", !.polya_a = polya, !.attempts = 0]
        BY <2>3, <3>1 DEF KeepPolya, NoiseAt
      <4>2. noise' \in NoiseLocals
        <5>1. 0 \in 0 .. MaximumAttempts - 1
          BY NoisersAssumption
        <5>2. QED  BY <1>0, <2>2, <4>1, <5>1 DEF NoiseLocals
      <4>3. /\ noise'.pc = "polya_b" /\ noise'.polya_a = polya
            /\ noise'.options = noise.options
        BY <1>0, <4>1 DEF NoiseLocals
      <4>4. Truncates => polya <= noise.options.truncate_threshold
        BY <1>1, <2>2, <2>3 DEF TooLarge
      <4>5. QED  BY <2>2, <4>2, <4>3, <4>4 DEF FirstKept, NoiseInRange, NoiseAt, Truncates
    <3>2. CASE NoiseAt("polya_b")
      <4>1. noise' = [noise EXCEPT !.pc = "Ok",
                        !.value = noise.options.shift_offset + noise.polya_a - polya]
        BY <2>3, <3>2 DEF KeepPolya, NoiseAt
      <4>2. noise.polya_a \in Int
        BY <1>0 DEF NoiseLocals
      <4>3. noise' \in NoiseLocals
        <5>1. noise.options.shift_offset + noise.polya_a - polya \in Int
          BY <1>1, <2>2, <4>2
        <5>2. QED  BY <1>0, <4>1, <5>1 DEF NoiseLocals, NoiseResults
      <4>4. /\ noise'.pc = "Ok" /\ noise'.options = noise.options
            /\ noise'.value = noise.options.shift_offset + noise.polya_a - polya
        BY <1>0, <4>1 DEF NoiseLocals
      <4>5. noise.options.p # NaN =>
              /\ polya >= 0 /\ noise.polya_a >= 0
              /\ Truncates => /\ polya <= noise.options.truncate_threshold
                              /\ noise.polya_a <= noise.options.truncate_threshold
        BY <1>0, <1>1, <2>2, <2>3, <3>2 DEF TooLarge, FirstKept
      <4>6. NoiseInRange'
        BY <1>1, <2>2, <4>2, <4>4, <4>5 DEF NoiseInRange, Truncates, NoiseAt
      <4>7. QED  BY <4>3, <4>4, <4>6 DEF FirstKept, NoiseAt
    <3>3. QED  BY <2>3, <3>1, <3>2 DEF KeepPolya
  <2>4. CASE RetryPolya(polya)
    <3>1. CASE MayRetry /\ noise' = [noise EXCEPT !.attempts = NextAttempt]
      <4>1. NextAttempt \in 0 .. MaximumAttempts - 1
        BY <1>0, <3>1, NoisersAssumption DEF NoiseLocals, MayRetry, NextAttempt
      <4>2. noise' \in NoiseLocals
        BY <1>0, <3>1, <4>1 DEF NoiseLocals
      <4>3. /\ noise'.pc = noise.pc /\ noise'.options = noise.options
            /\ noise'.polya_a = noise.polya_a /\ noise'.value = noise.value
        BY <1>0, <3>1 DEF NoiseLocals
      <4>4. QED  BY <1>0, <4>2, <4>3 DEF FirstKept, NoiseInRange, Truncates, NoiseAt
    <3>2. CASE NoiseFails("Internal")
      BY <1>2, <3>2
    <3>3. QED  BY <2>4, <3>1, <3>2 DEF RetryPolya, GiveUp
  <2>5. QED  BY <2>1, <2>3, <2>4
<1>6. CASE DrawGaussian
  <2>1. PICK a \in Geometric, b \in Geometric :
           noise' = [noise EXCEPT !.pc = "bernoulli", !.value = a - b]
    BY <1>6 DEF DrawGaussian
  <2>2. a - b \in Int
    BY NoisersAssumption
  <2>3. QED  BY <1>0, <2>1, <2>2 DEF NoiseLocals, NoiseAt, FirstKept, NoiseInRange
<1>7. CASE AcceptGaussian
  <2>1. /\ NoiseAt("bernoulli") /\ InThreshold(noise.value)
        /\ noise' = [noise EXCEPT !.pc = "Ok", !.value = noise.options.shift_offset + noise.value]
    BY <1>7 DEF AcceptGaussian
  <2>2. noise.value \in Int
    BY <1>0 DEF NoiseLocals
  <2>3. noise' \in NoiseLocals
    <3>1. noise.options.shift_offset + noise.value \in Int
      BY <1>1, <2>2
    <3>2. QED  BY <1>0, <2>1, <3>1 DEF NoiseLocals, NoiseResults
  <2>4. /\ noise'.pc = "Ok" /\ noise'.options = noise.options
        /\ noise'.value = noise.options.shift_offset + noise.value
    BY <1>0, <2>1 DEF NoiseLocals
  <2>5. NoiseInRange'
    BY <1>1, <2>1, <2>2, <2>4 DEF NoiseInRange, Truncates, NoiseAt, InThreshold
  <2>6. QED  BY <2>3, <2>4, <2>5 DEF FirstKept, NoiseAt
<1>8. CASE RejectGaussian
  <2>1. noise' \in NoiseLocals
    <3>1. 0 \in Int /\ noise' = [noise EXCEPT !.pc = "gaussian", !.value = 0]
      BY <1>8 DEF RejectGaussian
    <3>2. QED  BY <1>0, <3>1, Zenon DEF NoiseLocals
  <2>2. noise'.pc = "gaussian"
    BY <1>0, <1>8 DEF RejectGaussian, NoiseLocals
  <2>3. QED  BY <2>1, <2>2 DEF FirstKept, NoiseInRange, NoiseAt
<1>9. QED  BY <1>3, <1>4, <1>5, <1>6, <1>7, <1>8 DEF NoiseStep

\* The options of a publisher are proper ones, whatever its parameters are.
LEMMA GeometricOptions ==
    ASSUME NEW params \in [p : Probability, mu : Int]
    PROVE  GetGeometricPublisherNoiseOptions(params) \subseteq Options
<1>1. ToInt(params.mu) \subseteq Int
  BY NoisersAssumption DEF ToInt, AnyInt
<1>2. QED  BY <1>1 DEF GetGeometricPublisherNoiseOptions, PublisherOptions, Options

LEMMA StepNoise == NoiseInv /\ [Next]_vars => NoiseInv'
<1> SUFFICES ASSUME NoiseInv, [Next]_vars PROVE NoiseInv'
  OBVIOUS
<1>1. CASE UNCHANGED vars
  BY <1>1 DEF vars, NoiseInv, NoiseAt, EncryptAt, HasNoiseParameter, RequestKept, FirstKept,
              NoiseInRange, Truncates
<1>2. CASE CombineElGamalPublicKeys
  BY <1>2 DEF CombineElGamalPublicKeys, NoNoise, NoEncrypt, NoiseInv, NoiseAt, EncryptAt, RequestKept
<1>3. CASE CallNoiser
  <2>1. PICK options \in NoiseOptions : GenerateNoiseComponent(options)
    BY <1>3 DEF CallNoiser
  <2>2. noise' \in NoiseLocals /\ FirstKept' /\ NoiseInRange'
    BY <2>1, CallKeeps, NoisersAssumption
  <2>3. QED  BY <1>3, <2>2 DEF CallNoiser, NoEncrypt, NoiseInv, EncryptAt, RequestKept
<1>4. CASE EncryptSketch
  BY <1>4 DEF EncryptSketch, NoNoise, NoiseInv, NoiseAt, EncryptAt, RequestKept
<1>5. CASE CombineStep /\ UNCHANGED <<noise, encrypt>>
  BY <1>5 DEF NoiseInv, NoiseAt, EncryptAt, HasNoiseParameter, RequestKept, FirstKept, NoiseInRange, Truncates
<1>6. CASE NoiseStep /\ UNCHANGED <<known, combine, encrypt>>
  BY <1>6, StepKeeps DEF NoiseInv, EncryptAt, HasNoiseParameter, RequestKept, NoiseAt
<1>7. CASE DrawNoiseCount
  <2>1. encrypt.request \in EncryptSketchRequest /\ HasNoiseParameter
    BY <1>7 DEF DrawNoiseCount, EncryptAt, NoiseInv, RequestKept
  <2>2. NoiseParams \in encrypt.request.noise
    BY <2>1 DEF NoiseParams, HasNoiseParameter
  <2>3. NoiseParams \in [p : Probability, mu : Int]
    BY <2>1, <2>2, AdapterAssumption
  <2>4. noise' \in NoiseLocals /\ FirstKept' /\ NoiseInRange'
    <3>1. PICK options \in GetGeometricPublisherNoiseOptions(NoiseParams) :
             GenerateNoiseComponent(options)
      BY <1>7 DEF DrawNoiseCount
    <3>2. options \in Options
      BY <2>3, GeometricOptions
    <3>3. QED  BY <3>1, <3>2, CallKeeps
  <2>5. RequestKept'
    BY <1>7 DEF DrawNoiseCount, NoiseInv, RequestKept, EncryptAt
  <2>6. QED  BY <2>4, <2>5 DEF NoiseInv
<1>8. CASE EncryptStep /\ ~DrawNoiseCount
  <2>1. UNCHANGED noise
    BY <1>8 DEF EncryptStep, ParseError, CreateWithPublicKey, RejectPublicKey, Encrypt, EncryptError,
       RejectValueCount, NoiseError, NoNoiseNeeded, AppendNoiseRegisters
  <2>2. RequestKept /\ ~EncryptAt("none")
    BY <1>8 DEF NoiseInv, EncryptStep, ParseError, CreateWithPublicKey, RejectPublicKey, Encrypt,
       EncryptError, RejectValueCount, NoiseError, NoNoiseNeeded, AppendNoiseRegisters, EncryptAt
  <2>3. RequestKept'
    <3>1. CASE Encrypt
      BY <2>2, <3>1 DEF Encrypt, RequestKept, EncryptAt, HasNoiseParameter
    <3>2. CASE Fail
      BY <2>2, <3>2 DEF Fail, RequestKept, EncryptAt
    <3>3. CASE CreateWithPublicKey
      BY <2>2, <3>3 DEF CreateWithPublicKey, RequestKept, EncryptAt
    <3>4. CASE NoNoiseNeeded
      BY <2>2, <3>4 DEF NoNoiseNeeded, RequestKept, EncryptAt
    <3>5. CASE AppendNoiseRegisters
      <4>1. PICK randoms \in [Turns(noise.value) -> RandomPoint] :
               encrypt' = [encrypt EXCEPT !.pc = "Ok",
                             !.out = encrypt.out \o Service!NoiseRegisters(ValueCount, randoms)]
        BY <3>5 DEF AppendNoiseRegisters
      <4>2. QED  BY <2>2, <4>1 DEF RequestKept, EncryptAt
    <3>6. QED
      BY <1>8, <3>1, <3>2, <3>3, <3>4, <3>5 DEF EncryptStep, ParseError, RejectPublicKey, EncryptError,
         RejectValueCount, NoiseError
  <2>4. QED  BY <2>1, <2>3 DEF NoiseInv, NoiseAt, FirstKept, NoiseInRange, Truncates
<1>9. QED  BY <1>1, <1>2, <1>3, <1>4, <1>5, <1>6, <1>7, <1>8 DEF Next, Step

(***************************************************************************)
(* Every component of noise is within the threshold around its offset.     *)
(***************************************************************************)
THEOREM NoiseCorrect == Spec => []NoiseInRange
<1>1. NoiseInv => NoiseInRange
  BY DEF NoiseInv, NoiseInRange, NoiseAt
<1>2. QED  BY InitNoise, StepNoise, <1>1, PTL DEF Spec
-----------------------------------------------------------------------------
(***************************************************************************)
(* The keys.                                                               *)
(***************************************************************************)
Entry == [key : [generator : Int, element : Int], parts : [Worker -> Nat]]

\* The key is the sum of usable keys with its generator.
Good(entry) ==
    /\ entry.key.element = SumOfParts(entry.parts)
    /\ \A w \in Worker : entry.parts[w] > 0 =>
          WorkerKey[w].element \in Point /\ WorkerKey[w].generator = entry.key.generator

\* A key somebody has: a sum, or a key that nothing has validated yet.
Kept(entry) ==
    /\ entry \in Entry /\ PartsCount(entry.parts) > 0
    /\ Good(entry) \/ \E w \in Worker : entry = Own(w)

\* What has gone into the element after n turns of the loop.
PartsUpTo(keys, n) ==
    [w \in Worker |-> SumFunctionOnSet([j \in DOMAIN keys |-> keys[j].parts[w]], 1 .. n)]

Weighted(parts) == [w \in Worker |-> parts[w] * WorkerKey[w].element]

LEMMA WeightedSummable ==
    ASSUME NEW parts \in [Worker -> Nat]
    PROVE  /\ Summable(parts, Worker) /\ Summable(Weighted(parts), Worker)
           /\ SumOfParts(parts) = SumFunctionOnSet(Weighted(parts), Worker) % Order
<1>1. \A w \in Worker : parts[w] \in Int /\ WorkerKey[w].element \in Int
  BY KeysAssumption
<1>2. \A i, j \in Int : i * j \in Int
  OBVIOUS
<1>3. QED  BY <1>1, <1>2, KeysAssumption DEF Summable, Weighted, SumOfParts

\* What two keys are made from together.
LEMMA PartsAdd ==
    ASSUME NEW a \in [Worker -> Nat], NEW b \in [Worker -> Nat], NEW c \in [Worker -> Nat],
           \A w \in Worker : c[w] = a[w] + b[w]
    PROVE  /\ PartsCount(c) = PartsCount(a) + PartsCount(b)
           /\ SumOfParts(c) = (SumOfParts(a) + SumOfParts(b)) % Order
<1>1. PartsCount(c) = PartsCount(a) + PartsCount(b)
  BY WeightedSummable, SumPlus DEF PartsCount
<1> DEFINE wa == Weighted(a)
           wb == Weighted(b)
           wc == Weighted(c)
<1>2. \A w \in Worker : wc[w] = wa[w] + wb[w]
  <2> SUFFICES ASSUME NEW w \in Worker PROVE wc[w] = wa[w] + wb[w]
    OBVIOUS
  <2>1. a[w] \in Int /\ b[w] \in Int /\ WorkerKey[w].element \in Int
    BY KeysAssumption
  <2>2. \A i, j, k \in Int : (i + j) * k = i * k + j * k
    OBVIOUS
  <2>3. QED  BY <2>1, <2>2 DEF Weighted
<1>3. /\ Summable(wa, Worker) /\ Summable(wb, Worker)
      /\ SumOfParts(a) = SumFunctionOnSet(wa, Worker) % Order
      /\ SumOfParts(b) = SumFunctionOnSet(wb, Worker) % Order
      /\ SumOfParts(c) = SumFunctionOnSet(wc, Worker) % Order
  BY WeightedSummable
<1> HIDE DEF wa, wb, wc
<1>4. SumFunctionOnSet(wc, Worker) = SumFunctionOnSet(wa, Worker) + SumFunctionOnSet(wb, Worker)
  BY <1>2, <1>3, SumPlus
<1>5. PICK x \in Int, y \in Int :
         x = SumFunctionOnSet(wa, Worker) /\ y = SumFunctionOnSet(wb, Worker)
  BY <1>3, SumType
<1>6. (x + y) % Order = ((x % Order) + (y % Order)) % Order
  <2>0. \A i \in Int, w \in Nat \ {0} : i % w \in Int
    OBVIOUS
  <2>1. PICK r \in Int : r = x % Order
    BY <2>0, KeysAssumption
  <2>2. (r + y) % Order = (x + y) % Order
    BY <2>1, ModSum, KeysAssumption
  <2>3. ((y % Order) + r) % Order = (y + r) % Order
    BY ModSum, KeysAssumption
  <2>4. PICK s \in Int : s = y % Order
    BY <2>0, KeysAssumption
  <2>5. r + s = s + r /\ r + y = y + r
    OBVIOUS
  <2>6. QED  BY <2>1, <2>2, <2>3, <2>4, <2>5
<1>7. QED  BY <1>1, <1>3, <1>4, <1>5, <1>6

\* A worker's own key has one part ...
LEMMA OwnParts ==
    ASSUME NEW v \in Worker
    PROVE  Own(v) \in Entry /\ PartsCount(Own(v).parts) = 1
<1> DEFINE parts == [w \in Worker |-> IF w = v THEN 1 ELSE 0]
<1>1. Own(v) \in Entry /\ Own(v).parts = parts /\ parts \in [Worker -> Nat]
  BY KeysAssumption DEF Own, Entry
<1>2. SumFunctionOnSet(parts, Worker) = SumFunctionOnSet(parts, {v})
  <2>1. Summable(parts, Worker) /\ \A w \in Worker \ {v} : parts[w] = 0
    BY KeysAssumption DEF Summable
  <2> HIDE DEF parts
  <2>2. QED  BY <2>1, SumZeros
<1>3. SumFunctionOnSet(parts, {v}) = 1
  <2>1. Summable(parts, {}) /\ parts[v] = 1
    BY FS_EmptySet DEF Summable
  <2> HIDE DEF parts
  <2>2. SumFunctionOnSet(parts, {} \cup {v}) = 1 + SumFunctionOnSet(parts, {})
    <3>1. SumFunctionOnSet(parts, {} \cup {v}) = parts[v] + SumFunctionOnSet(parts, {})
      <4>1. parts[v] \in Int
        BY <2>1
      <4>2. QED  BY <2>1, <4>1, SumInsert
    <3>2. QED  BY <2>1, <3>1
  <2>3. {} \cup {v} = {v}
    OBVIOUS
  <2>4. QED  BY <2>2, <2>3, SumEmpty
<1>4. QED  BY <1>1, <1>2, <1>3 DEF PartsCount

\* ... and is its sum, if its element is a point.
LEMMA OwnGood ==
    ASSUME NEW v \in Worker, WorkerKey[v].element \in Point
    PROVE  Good(Own(v))
<1> DEFINE parts == [w \in Worker |-> IF w = v THEN 1 ELSE 0]
           x == WorkerKey[v].element
<1>1. Own(v).key = WorkerKey[v] /\ Own(v).parts = parts /\ parts \in [Worker -> Nat]
  BY DEF Own
<1>2. x \in Int /\ (x % Order) = x
  BY KeysAssumption DEF Point
<1>3. /\ Summable(Weighted(parts), Worker)
      /\ SumOfParts(parts) = SumFunctionOnSet(Weighted(parts), Worker) % Order
  <2> HIDE DEF parts
  <2>1. QED  BY <1>1, WeightedSummable
<1>4. \A w \in Worker : Weighted(parts)[w] = IF w = v THEN x ELSE 0
  <2>1. \A w \in Worker : WorkerKey[w].element \in Int
    BY KeysAssumption
  <2>2. \A i \in Int : 1 * i = i /\ 0 * i = 0
    OBVIOUS
  <2>3. QED  BY <2>1, <2>2 DEF Weighted
<1> DEFINE weighted == Weighted(parts)
<1>5. SumFunctionOnSet(weighted, Worker) = x
  <2> HIDE DEF weighted, parts, x
  <2>1. SumFunctionOnSet(weighted, Worker) = SumFunctionOnSet(weighted, {v})
    <3>1. \A w \in Worker \ {v} : weighted[w] = 0
      BY <1>4 DEF weighted
    <3>2. Summable(weighted, Worker)
      BY <1>3 DEF weighted
    <3>3. QED  BY <3>1, <3>2, SumZeros
  <2>2. Summable(weighted, {}) /\ weighted[v] = x
    BY <1>4, FS_EmptySet DEF Summable, weighted
  <2>3. SumFunctionOnSet(weighted, {} \cup {v}) = x + SumFunctionOnSet(weighted, {})
    BY <1>2, <2>2, SumInsert
  <2>4. {} \cup {v} = {v}
    OBVIOUS
  <2>5. QED  BY <1>2, <2>1, <2>3, <2>4, SumEmpty
<1>6. \A w \in Worker : parts[w] > 0 => w = v
  OBVIOUS
<1>7. QED  BY <1>1, <1>2, <1>3, <1>5, <1>6 DEF Good

LEMMA KeptGood ==
    ASSUME NEW entry, Kept(entry), entry.key.element \in Point
    PROVE  Good(entry)
BY OwnGood DEF Kept, Own

LEMMA PartsSummable ==
    ASSUME NEW keys \in Seq(Entry), NEW w \in Worker
    PROVE  \A n \in 0 .. Len(keys) : Summable([j \in DOMAIN keys |-> keys[j].parts[w]], 1 .. n)
<1> SUFFICES ASSUME NEW n \in 0 .. Len(keys)
             PROVE  Summable([j \in DOMAIN keys |-> keys[j].parts[w]], 1 .. n)
  OBVIOUS
<1>1. \A j \in DOMAIN keys : keys[j] \in Entry
  OBVIOUS
<1>2. \A j \in DOMAIN keys : keys[j].parts[w] \in Int
  BY <1>1 DEF Entry
<1>3. Len(keys) \in Nat /\ DOMAIN keys = 1 .. Len(keys)
  OBVIOUS
<1>4. 1 .. n \subseteq DOMAIN keys /\ IsFiniteSet(1 .. n)
  BY <1>3, FS_Interval
<1>5. QED  BY <1>2, <1>4 DEF Summable

LEMMA PartsMore ==
    ASSUME NEW keys \in Seq(Entry), NEW n \in Nat, n + 1 <= Len(keys),
           PartsUpTo(keys, n) \in [Worker -> Nat]
    PROVE  /\ PartsUpTo(keys, n + 1) \in [Worker -> Nat]
           /\ \A w \in Worker :
                 PartsUpTo(keys, n + 1)[w] = PartsUpTo(keys, n)[w] + keys[n + 1].parts[w]
<1>0. n + 1 \in DOMAIN keys /\ keys[n + 1] \in Entry /\ n \in 0 .. Len(keys)
  OBVIOUS
<1>1. ASSUME NEW w \in Worker
      PROVE  PartsUpTo(keys, n + 1)[w] = PartsUpTo(keys, n)[w] + keys[n + 1].parts[w]
  <2> DEFINE f == [j \in DOMAIN keys |-> keys[j].parts[w]]
  <2>1. Summable(f, 1 .. n)
    BY <1>0, PartsSummable
  <2>2. f[n + 1] = keys[n + 1].parts[w] /\ keys[n + 1].parts[w] \in Nat
    BY <1>0 DEF Entry
  <2>3. PartsUpTo(keys, n)[w] = SumFunctionOnSet(f, 1 .. n)
    BY DEF PartsUpTo
  <2>4. PartsUpTo(keys, n + 1)[w] = SumFunctionOnSet(f, 1 .. (n + 1))
    BY DEF PartsUpTo
  <2>5. 1 .. (n + 1) = (1 .. n) \cup {n + 1} /\ n + 1 \notin 1 .. n
    OBVIOUS
  <2> HIDE DEF f
  <2>6. f[n + 1] \in Int
    BY <2>2
  <2>7. SumFunctionOnSet(f, (1 .. n) \cup {n + 1}) = f[n + 1] + SumFunctionOnSet(f, 1 .. n)
    BY <2>1, <2>5, <2>6, SumInsert
  <2>8. PartsUpTo(keys, n)[w] \in Nat
    OBVIOUS
  <2>9. PartsUpTo(keys, n + 1)[w] = keys[n + 1].parts[w] + PartsUpTo(keys, n)[w]
    BY <2>2, <2>3, <2>4, <2>5, <2>7, Zenon
  <2>10. \A i, j \in Nat : i + j = j + i
    OBVIOUS
  <2>11. QED  BY <2>2, <2>8, <2>9, <2>10
<1>2. \A w \in Worker : keys[n + 1].parts[w] \in Nat /\ PartsUpTo(keys, n)[w] \in Nat
  BY <1>0 DEF Entry
<1>3. \A w \in Worker : PartsUpTo(keys, n + 1)[w] \in Nat
  BY <1>1, <1>2
<1>4. PartsUpTo(keys, n + 1) = [w \in Worker |-> PartsUpTo(keys, n + 1)[w]]
  BY DEF PartsUpTo
<1>5. QED  BY <1>1, <1>3, <1>4

LEMMA PartsFirst ==
    ASSUME NEW keys \in Seq(Entry), keys # << >>
    PROVE  PartsUpTo(keys, 1) = keys[1].parts
<1>0. Len(keys) \in Nat /\ 0 + 1 <= Len(keys) /\ 1 \in DOMAIN keys /\ keys[1] \in Entry
  OBVIOUS
<1>1. \A w \in Worker : PartsUpTo(keys, 0)[w] = 0
  <2>1. 1 .. 0 = {}
    OBVIOUS
  <2>2. QED  BY <2>1, SumEmpty DEF PartsUpTo
<1>2. PartsUpTo(keys, 0) \in [Worker -> Nat]
  BY <1>1 DEF PartsUpTo
<1>3. /\ PartsUpTo(keys, 0 + 1) \in [Worker -> Nat]
      /\ \A w \in Worker : PartsUpTo(keys, 0 + 1)[w] = PartsUpTo(keys, 0)[w] + keys[0 + 1].parts[w]
  BY <1>0, <1>2, PartsMore
<1>4. keys[1].parts \in [Worker -> Nat] /\ 0 + 1 = 1
  BY <1>0 DEF Entry
<1>5. \A w \in Worker : PartsUpTo(keys, 1)[w] = keys[1].parts[w]
  BY <1>1, <1>3, <1>4
<1>6. QED  BY <1>3, <1>4, <1>5

LEMMA PartsAll ==
    ASSUME NEW keys \in Seq(Entry)
    PROVE  PartsUpTo(keys, Len(keys)) = PartsOf(keys)
<1>1. DOMAIN keys = 1 .. Len(keys)
  OBVIOUS
<1>2. \A w \in Worker : SumFunction([j \in DOMAIN keys |-> keys[j].parts[w]])
         = SumFunctionOnSet([j \in DOMAIN keys |-> keys[j].parts[w]], 1 .. Len(keys))
  BY <1>1 DEF SumFunction
<1>3. QED  BY <1>2 DEF PartsUpTo, PartsOf

\* What the loop has added up after n of the keys.
Summed(keys, n, element) ==
    /\ PartsUpTo(keys, n) \in [Worker -> Nat] /\ PartsCount(PartsUpTo(keys, n)) > 0
    /\ element = SumOfParts(PartsUpTo(keys, n))
    /\ \A w \in Worker : PartsUpTo(keys, n)[w] > 0 =>
          WorkerKey[w].element \in Point /\ WorkerKey[w].generator = keys[1].key.generator

LEMMA SummedFirst ==
    ASSUME NEW keys \in Seq(Entry), keys # << >>, Kept(keys[1]), keys[1].key.element \in Point
    PROVE  Summed(keys, 1, keys[1].key.element)
<1>1. Good(keys[1]) /\ keys[1] \in Entry /\ PartsCount(keys[1].parts) > 0
  BY KeptGood DEF Kept
<1>2. keys[1].parts \in [Worker -> Nat]
  BY <1>1 DEF Entry
<1>3. QED  BY <1>1, <1>2, PartsFirst DEF Summed, Good

LEMMA SummedNext ==
    ASSUME NEW keys \in Seq(Entry), NEW n \in Nat \ {0}, n + 1 <= Len(keys), NEW element,
           Summed(keys, n, element), Kept(keys[n + 1]), keys[n + 1].key.element \in Point,
           keys[n + 1].key.generator = keys[1].key.generator
    PROVE  Summed(keys, n + 1, (element + keys[n + 1].key.element) % Order)
<1> DEFINE key == keys[n + 1]
           a == PartsUpTo(keys, n)
           c == PartsUpTo(keys, n + 1)
<1>1. Good(key) /\ key.parts \in [Worker -> Nat] /\ PartsCount(key.parts) > 0
  BY KeptGood DEF Kept, Entry
<1>2. a \in [Worker -> Nat] /\ PartsCount(a) > 0
  BY DEF Summed
<1>3. c \in [Worker -> Nat] /\ \A w \in Worker : c[w] = a[w] + key.parts[w]
  BY <1>2, PartsMore
<1> HIDE DEF a, c
<1>4. /\ PartsCount(c) = PartsCount(a) + PartsCount(key.parts)
      /\ SumOfParts(c) = (SumOfParts(a) + SumOfParts(key.parts)) % Order
  BY <1>1, <1>2, <1>3, PartsAdd
<1>5. PartsCount(c) > 0
  <2>1. PartsCount(a) \in Int /\ PartsCount(key.parts) \in Int
    BY <1>1, <1>2, WeightedSummable, SumType DEF PartsCount
  <2>2. QED  BY <1>1, <1>2, <1>4, <2>1
<1>6. SumOfParts(c) = (element + key.key.element) % Order
  BY <1>1, <1>4 DEF Summed, Good, a
<1>7. ASSUME NEW w \in Worker, c[w] > 0
      PROVE  WorkerKey[w].element \in Point /\ WorkerKey[w].generator = keys[1].key.generator
  <2>1. a[w] \in Nat /\ key.parts[w] \in Nat
    BY <1>1, <1>2
  <2>2. a[w] > 0 \/ key.parts[w] > 0
    BY <1>3, <1>7, <2>1
  <2>3. QED  BY <1>1, <2>2 DEF Summed, Good, a
<1>8. QED  BY <1>3, <1>5, <1>6, <1>7 DEF Summed, c

(***************************************************************************)
(* The inductive invariant of the keys.  The loop keeps the sum of what    *)
(* it has passed, and adds only usable keys; whatever else was handed in   *)
(* and came back alone is one of the keys the workers published.           *)
(***************************************************************************)
KeysInv ==
    /\ \A entry \in known : Kept(entry)
    /\ combine \in [pc : {"none", "call", "add"}, curve : BOOLEAN, keys : Seq(known),
                    i : Nat, element : Int]
    /\ CombineAt("add") =>
          /\ combine.i \in 2 .. Len(combine.keys) + 1
          /\ Summed(combine.keys, combine.i - 1, combine.element)

LEMMA InitKeys == Init => KeysInv
<1> SUFFICES ASSUME Init PROVE KeysInv
  OBVIOUS
<1>1. \A entry \in known : Kept(entry)
  <2>1. \A w \in Worker : Kept(Own(w))
    BY OwnParts DEF Kept
  <2>2. QED  BY <2>1 DEF Init, CombineInit
<1>2. combine = NoCombine
  BY DEF Init, CombineInit
<1>3. QED  BY <1>1, <1>2 DEF KeysInv, NoCombine, CombineAt

\* What a call returns is kept, and the call is over.
LEMMA ReturnKeeps ==
    ASSUME KeysInv, NEW key, CombineOk(key),
           Kept([key |-> key, parts |-> PartsOf(combine.keys)])
    PROVE  KeysInv'
<1>1. /\ known' = known \cup {[key |-> key, parts |-> PartsOf(combine.keys)]}
      /\ combine' = NoCombine
  BY DEF CombineOk
<1>2. \A entry \in known' : Kept(entry)
  BY <1>1 DEF KeysInv
<1>3. combine' \in [pc : {"none", "call", "add"}, curve : BOOLEAN, keys : Seq(known'),
                    i : Nat, element : Int]
  BY <1>1 DEF NoCombine
<1>4. ~CombineAt("add")'
  BY <1>1 DEF NoCombine, CombineAt
<1>5. (\A entry \in known : Kept(entry))'
  BY <1>2 DEF Kept, Entry, Good, Own, PartsCount, SumOfParts
<1>6. QED  BY <1>3, <1>4, <1>5 DEF KeysInv
\* A call that does not return yet leaves known alone.
LEMMA CallGoesOn ==
    ASSUME KeysInv, UNCHANGED known,
           combine' \in [pc : {"none", "call", "add"}, curve : BOOLEAN, keys : Seq(known),
                         i : Nat, element : Int],
           combine'.pc = "add" =>
             /\ combine'.i \in 2 .. Len(combine'.keys) + 1
             /\ Summed(combine'.keys, combine'.i - 1, combine'.element)
    PROVE  KeysInv'
<1>1. (\A entry \in known : Kept(entry))'
  BY DEF KeysInv, Kept, Entry, Good, Own, PartsCount, SumOfParts
<1>2. (CombineAt("add") =>
          /\ combine.i \in 2 .. Len(combine.keys) + 1
          /\ Summed(combine.keys, combine.i - 1, combine.element))'
  BY DEF CombineAt, Summed, PartsUpTo, PartsCount, SumOfParts
<1>3. QED  BY <1>1, <1>2 DEF KeysInv

LEMMA FailKeeps ==
    ASSUME KeysInv, CombineFails
    PROVE  KeysInv'
<1>1. combine' = NoCombine /\ UNCHANGED known
  BY DEF CombineFails
<1>2. combine' \in [pc : {"none", "call", "add"}, curve : BOOLEAN, keys : Seq(known),
                    i : Nat, element : Int]
  BY <1>1 DEF NoCombine
<1>3. combine'.pc = "none"
  BY <1>1 DEF NoCombine
<1>4. QED  BY <1>1, <1>2, <1>3, CallGoesOn

\* The keys of a call are kept ones, and so is the generator a number.
LEMMA KeysOfCall ==
    ASSUME KeysInv
    PROVE  /\ combine.keys \in Seq(Entry)
           /\ \A j \in 1 .. Len(combine.keys) :
                 /\ combine.keys[j] \in known /\ Kept(combine.keys[j])
                 /\ combine.keys[j].key \in [generator : Int, element : Int]
<1>1. known \subseteq Entry
  BY DEF KeysInv, Kept
<1>2. combine.keys \in Seq(known)
  BY DEF KeysInv
<1>3. \A j \in 1 .. Len(combine.keys) : combine.keys[j] \in known
  BY <1>2
<1>4. combine.keys \in Seq(Entry)
  BY <1>1, <1>2, <1>3
<1>5. QED  BY <1>1, <1>3, <1>4 DEF KeysInv, Entry

LEMMA CallKeys == KeysInv /\ CallCombine => KeysInv'
<1> SUFFICES ASSUME KeysInv, CallCombine PROVE KeysInv'
  OBVIOUS
<1>1. PICK keys \in BoundedSeq(known, MaxKeys), curve \in BOOLEAN :
         combine' = [NoCombine EXCEPT !.pc = "call", !.keys = keys, !.curve = curve]
  BY DEF CallCombine
<1>2. keys \in Seq(known)
  <2>1. PICK n \in 0 .. MaxKeys : keys \in [1 .. n -> known]
    BY Zenon DEF BoundedSeq, SeqOf
  <2>2. n \in Nat
    BY KeysAssumption
  <2>3. QED  BY <2>1, <2>2
<1>3. /\ combine' \in [pc : {"none", "call", "add"}, curve : BOOLEAN, keys : Seq(known),
                       i : Nat, element : Int]
      /\ combine'.pc = "call"
  <2>1. combine' = [pc |-> "call", curve |-> curve, keys |-> keys, i |-> 0, element |-> 0]
    BY <1>1 DEF NoCombine
  <2>2. QED  BY <1>2, <2>1
<1>4. UNCHANGED known
  BY DEF CallCombine
<1>5. QED  BY <1>3, <1>4, CallGoesOn

LEMMA StepKeys == KeysInv /\ CombineStep => KeysInv'
<1> SUFFICES ASSUME KeysInv, CombineStep PROVE KeysInv'
  OBVIOUS
<1>0. /\ combine \in [pc : {"none", "call", "add"}, curve : BOOLEAN, keys : Seq(known),
                      i : Nat, element : Int]
      /\ combine.keys \in Seq(Entry) /\ Len(combine.keys) \in Nat
  BY KeysOfCall DEF KeysInv
<1>1. CASE RejectEmpty \/ RejectFirst \/ RejectKey \/ CurveError
  BY <1>1, FailKeeps DEF RejectEmpty, RejectFirst, RejectKey, CurveError
<1>2. CASE ReturnSole
  <2>1. Len(combine.keys) = 1 /\ CombineOk(combine.keys[1].key)
    BY <1>2 DEF ReturnSole
  <2>2. Kept(combine.keys[1]) /\ combine.keys[1] \in Entry
    BY <2>1, KeysOfCall DEF Kept
  <2>3. PartsOf(combine.keys) = combine.keys[1].parts
    <3>1. combine.keys # << >>
      BY <1>0, <2>1
    <3>2. QED  BY <1>0, <2>1, <3>1, PartsAll, PartsFirst
  <2>4. combine.keys[1] = [key |-> combine.keys[1].key, parts |-> combine.keys[1].parts]
    BY <2>2 DEF Entry
  <2>5. Kept([key |-> combine.keys[1].key, parts |-> PartsOf(combine.keys)])
    BY <2>2, <2>3, <2>4
  <2>6. QED  BY <2>1, <2>5, ReturnKeeps
<1>3. CASE FirstElement
  <2>1. /\ Len(combine.keys) > 1 /\ combine.keys[1].key.element \in Point
        /\ combine' = [combine EXCEPT !.pc = "add", !.i = 2,
                                      !.element = combine.keys[1].key.element]
        /\ UNCHANGED known
    BY <1>3 DEF FirstElement, KeyElement, LoopStart
  <2>2. Kept(combine.keys[1]) /\ combine.keys[1].key.element \in Int /\ combine.keys # << >>
    BY <1>0, <2>1, KeysOfCall
  <2>3. Summed(combine.keys, 1, combine.keys[1].key.element)
    BY <1>0, <2>1, <2>2, SummedFirst
  <2>4. /\ combine' \in [pc : {"none", "call", "add"}, curve : BOOLEAN, keys : Seq(known),
                         i : Nat, element : Int]
        /\ combine'.keys = combine.keys /\ combine'.i = 2
        /\ combine'.element = combine.keys[1].key.element
    BY <1>0, <2>1, <2>2
  <2>5. combine'.i \in 2 .. Len(combine'.keys) + 1 /\ combine'.i - 1 = 1
    BY <1>0, <2>1, <2>4
  <2>6. QED  BY <2>1, <2>3, <2>4, <2>5, CallGoesOn
<1>4. CASE AddElement
  <2> DEFINE i == combine.i
             key == combine.keys[i].key
  <2>1. /\ CombineAt("add") /\ i <= Len(combine.keys)
        /\ key.generator = combine.keys[1].key.generator /\ key.element \in Point
        /\ combine' = [combine EXCEPT !.i = i + 1, !.element = (combine.element + key.element) % Order]
        /\ UNCHANGED known
    BY <1>4 DEF AddElement, Adding, generator, KeyElement
  <2>2. i \in Nat /\ i >= 2 /\ i <= Len(combine.keys) /\ Summed(combine.keys, i - 1, combine.element)
    BY <1>0, <2>1 DEF KeysInv
  <2>3. PICK n \in Nat \ {0} : i = n + 1
    <3>1. i - 1 \in Nat \ {0} /\ i = (i - 1) + 1
      BY <2>2
    <3>2. QED  BY <3>1
  <2>4. n + 1 <= Len(combine.keys) /\ Summed(combine.keys, n, combine.element)
    <3>1. i - 1 = n
      BY <2>3
    <3>2. QED  BY <2>2, <2>3, <3>1
  <2>5. Kept(combine.keys[n + 1]) /\ combine.keys[n + 1].key \in [generator : Int, element : Int]
    <3>1. n + 1 \in 1 .. Len(combine.keys)
      BY <1>0, <2>4
    <3>2. QED  BY <3>1, KeysOfCall
  <2> DEFINE sum == (combine.element + combine.keys[n + 1].key.element) % Order
  <2>6. Summed(combine.keys, n + 1, sum)
    BY <1>0, <2>1, <2>3, <2>4, <2>5, SummedNext
  <2>7. sum \in Int
    <3>1. \A x, y \in Int, w \in Nat \ {0} : (x + y) % w \in Int
      OBVIOUS
    <3>2. combine.element \in Int /\ combine.keys[n + 1].key.element \in Int
      BY <1>0, <2>5
    <3>3. QED  BY <3>1, <3>2, KeysAssumption
  <2> DEFINE next == (n + 1) + 1
  <2>8. combine' = [combine EXCEPT !.i = next, !.element = sum] /\ next \in Nat
    BY <2>1, <2>3
  <2> HIDE DEF sum, next
  <2>9. /\ combine' \in [pc : {"none", "call", "add"}, curve : BOOLEAN, keys : Seq(known),
                         i : Nat, element : Int]
        /\ combine'.keys = combine.keys /\ combine'.i = next /\ combine'.element = sum
    BY <1>0, <2>7, <2>8
  <2>10. combine'.i \in 2 .. Len(combine'.keys) + 1 /\ combine'.i - 1 = n + 1
    BY <1>0, <2>4, <2>9 DEF next
  <2>11. QED  BY <2>1, <2>6, <2>9, <2>10, CallGoesOn
<1>5. CASE ReturnCombined
  <2> DEFINE key == [generator |-> combine.keys[1].key.generator, element |-> combine.element]
             parts == PartsOf(combine.keys)
  <2>1. CombineAt("add") /\ combine.i > Len(combine.keys) /\ CombineOk(key)
    BY <1>5 DEF ReturnCombined, generator
  <2>2. Len(combine.keys) > 0 /\ Summed(combine.keys, Len(combine.keys), combine.element)
    <3>1. combine.i \in 2 .. Len(combine.keys) + 1 /\ Summed(combine.keys, combine.i - 1, combine.element)
      BY <2>1 DEF KeysInv
    <3>2. Len(combine.keys) > 0 /\ combine.i - 1 = Len(combine.keys)
      BY <1>0, <2>1, <3>1
    <3>3. QED  BY <3>1, <3>2
  <2>3. /\ parts \in [Worker -> Nat] /\ PartsCount(parts) > 0 /\ combine.element = SumOfParts(parts)
        /\ \A w \in Worker : parts[w] > 0 =>
              WorkerKey[w].element \in Point
                /\ WorkerKey[w].generator = combine.keys[1].key.generator
    BY <1>0, <2>2, PartsAll DEF Summed
  <2>4. combine.keys[1].key.generator \in Int /\ combine.element \in Int
    BY <1>0, <2>2, KeysOfCall
  <2> HIDE DEF parts
  <2>5. Kept([key |-> key, parts |-> parts])
    BY <2>3, <2>4 DEF Kept, Entry, Good
  <2>6. QED  BY <2>1, <2>5, ReturnKeeps DEF parts
<1>6. QED  BY <1>1, <1>2, <1>3, <1>4, <1>5 DEF CombineStep
-----------------------------------------------------------------------------
(***************************************************************************)
(* What a call of EncryptSketch puts out.                                  *)
(***************************************************************************)
Ciphertext == {"text", "times", "flag", "noise", "random"} \X (Int \cup RandomPoint)

\* The encoding of EncryptionService for a given maximum m.
Counter(n, m) == Service!Times(Service!Smaller(n, m + 1))

EncodedRegister(reg, req, m) ==
    LET width == Len(reg.values) IN
    IF ~Service!IsRegisterDestroyed(reg, req.aggregators)
    THEN <<Service!Text(reg.index)>> \o
         [i \in 1 .. width |->
            IF req.aggregators[i] = "UNIQUE" THEN Service!Text(reg.values[i])
            ELSE Counter(reg.values[i], m)]
    ELSE IF req.strategy = "FLAGGED_KEY"
    THEN <<Service!Text(reg.index)>> \o Service!Repeat(Service!Flag, width)
    ELSE <<Service!Text(reg.index)>> \o Service!Repeat(Counter(1, m), width) \o
         <<Service!Text(reg.index)>> \o Service!Repeat(Counter(2, m), width)

EncodedRegisters(req, m) ==
    [r \in DOMAIN req.registers |-> EncodedRegister(req.registers[r], req, m)]

Encoding(req, m) == FlattenSeq(EncodedRegisters(req, m))

\* EncryptionService has the library's operators under names of its own.
LEMMA ServiceFlattens == \A e : Service!FlattenSeq(e) = FlattenSeq(e)
BY Zenon DEF Service!FlattenSeq, FlattenSeq

LEMMA ServiceEncodes ==
    \A req : Service!EncodedSketch(req) = Encoding(req, encrypt.max_counter_value)
<1> SUFFICES ASSUME NEW req
             PROVE  Service!EncodedSketch(req) = Encoding(req, encrypt.max_counter_value)
  OBVIOUS
<1>1. \A reg : Service!EncodedRegister(reg, req) = EncodedRegister(reg, req, encrypt.max_counter_value)
  BY Zenon DEF Service!EncodedRegister, Service!CounterPoint, EncodedRegister, Counter
<1>2. [r \in DOMAIN req.registers |-> Service!EncodedRegister(req.registers[r], req)]
         = EncodedRegisters(req, encrypt.max_counter_value)
  BY <1>1 DEF EncodedRegisters
<1>3. QED  BY <1>2, ServiceFlattens, Zenon DEF Service!EncodedSketch, Encoding

LEMMA RepeatCiphertext ==
    ASSUME NEW c \in Ciphertext, NEW n \in Nat
    PROVE  Service!Repeat(c, n) \in Seq(Ciphertext) /\ Len(Service!Repeat(c, n)) = n
<1>1. Service!Repeat(c, n) \in [1 .. n -> Ciphertext]
  BY DEF Service!Repeat
<1>2. QED  BY <1>1

LEMMA RegisterType ==
    ASSUME NEW reg \in [index : Int, values : Seq(Int)], NEW req, NEW m \in Int
    PROVE  EncodedRegister(reg, req, m) \in Seq(Ciphertext)
<1> DEFINE width == Len(reg.values)
           start == <<Service!Text(reg.index)>>
<1>1. width \in Nat /\ \A i \in 1 .. width : reg.values[i] \in Int
  <2>1. reg.values \in Seq(Int)
    OBVIOUS
  <2>2. QED  BY <2>1
<1>2. \A n \in Int : Service!Text(n) \in Ciphertext /\ Counter(n, m) \in Ciphertext
  BY DEF Ciphertext, Counter, Service!Text, Service!Times, Service!Smaller
<1>3. Service!Flag \in Ciphertext
  BY DEF Ciphertext, Service!Flag
<1>4. start \in Seq(Ciphertext)
  BY <1>2
<1> DEFINE plain == [i \in 1 .. width |->
                       IF req.aggregators[i] = "UNIQUE" THEN Service!Text(reg.values[i])
                       ELSE Counter(reg.values[i], m)]
           flags == Service!Repeat(Service!Flag, width)
           ones == Service!Repeat(Counter(1, m), width)
           twos == Service!Repeat(Counter(2, m), width)
<1>5. plain \in Seq(Ciphertext)
  <2>1. plain \in [1 .. width -> Ciphertext]
    BY <1>1, <1>2
  <2> HIDE DEF plain
  <2>2. QED  BY <1>1, <2>1
<1>6. flags \in Seq(Ciphertext) /\ ones \in Seq(Ciphertext) /\ twos \in Seq(Ciphertext)
  BY <1>1, <1>2, <1>3, RepeatCiphertext
<1>7. /\ start \o plain \in Seq(Ciphertext) /\ start \o flags \in Seq(Ciphertext)
      /\ start \o ones \o start \o twos \in Seq(Ciphertext)
  <2> HIDE DEF start, plain, flags, ones, twos
  <2>1. QED  BY <1>4, <1>5, <1>6
<1>8. EncodedRegister(reg, req, m) \in {start \o plain, start \o flags, start \o ones \o start \o twos}
  BY Zenon DEF EncodedRegister
<1>9. QED  BY <1>7, <1>8

LEMMA EncodingType ==
    ASSUME NEW req \in EncryptSketchRequest, NEW m \in Int
    PROVE  Encoding(req.sketch, m) \in Seq(Ciphertext)
<1> DEFINE sketch == req.sketch
           e == EncodedRegisters(sketch, m)
<1>1. sketch.registers \in Seq([index : Int, values : Seq(Int)])
  BY AdapterAssumption
<1>2. PICK n \in Nat : sketch.registers \in [1 .. n -> [index : Int, values : Seq(Int)]]
  <2> DEFINE Register == [index : Int, values : Seq(Int)]
  <2>1. \A s \in Seq(Register) : Len(s) \in Nat /\ s \in [1 .. Len(s) -> Register]
    <3> HIDE DEF Register
    <3>1. QED  OBVIOUS
  <2>2. QED  BY <1>1, <2>1
<1>3. \A r \in 1 .. n : sketch.registers[r] \in [index : Int, values : Seq(Int)]
  BY <1>2
<1>4. \A r \in 1 .. n : EncodedRegister(sketch.registers[r], sketch, m) \in Seq(Ciphertext)
  BY <1>3, RegisterType
<1>5. DOMAIN sketch.registers = 1 .. n
  BY <1>2
<1>6. e \in [1 .. n -> Seq(Ciphertext)]
  BY <1>4, <1>5 DEF EncodedRegisters
<1>7. QED  BY <1>6, FlattenType DEF Encoding

LEMMA NoiseLength ==
    ASSUME NEW width \in Nat, NEW n \in Nat, NEW randoms \in [1 .. n -> RandomPoint]
    PROVE  /\ Service!NoiseRegisters(width, randoms) \in Seq(Ciphertext)
           /\ Len(Service!NoiseRegisters(width, randoms)) = n * (width + 1)
<1> DEFINE run(r) == <<Service!NoiseId>> \o Service!Repeat(Service!Random(randoms[r]), width)
           e == [r \in DOMAIN randoms |-> run(r)]
<1>1. Service!NoiseId \in Ciphertext /\ \A p \in RandomPoint : Service!Random(p) \in Ciphertext
  BY DEF Ciphertext, Service!NoiseId, Service!Random
<1>2. ASSUME NEW r \in 1 .. n
      PROVE  run(r) \in Seq(Ciphertext) /\ Len(run(r)) = width + 1
  <2> DEFINE s == Service!Repeat(Service!Random(randoms[r]), width)
             head == <<Service!NoiseId>>
  <2>1. s \in Seq(Ciphertext) /\ Len(s) = width
    BY <1>1, RepeatCiphertext
  <2>2. head \in Seq(Ciphertext) /\ Len(head) = 1
    BY <1>1
  <2> HIDE DEF s, head
  <2>3. head \o s \in Seq(Ciphertext) /\ Len(head \o s) = Len(head) + Len(s)
    <3>1. \A X : \A a, b \in Seq(X) : a \o b \in Seq(X) /\ Len(a \o b) = Len(a) + Len(b)
      OBVIOUS
    <3>2. QED  BY <2>1, <2>2, <3>1
  <2>4. QED  BY <2>1, <2>2, <2>3 DEF s, head
<1>3. e \in [1 .. n -> Seq(Ciphertext)] /\ \A r \in 1 .. n : Len(e[r]) = width + 1
  <2>1. DOMAIN randoms = 1 .. n
    OBVIOUS
  <2> HIDE DEF run
  <2>2. QED  BY <1>2, <2>1
<1>4. Service!NoiseRegisters(width, randoms) = FlattenSeq(e)
  BY ServiceFlattens, Zenon DEF Service!NoiseRegisters
<1> HIDE DEF e
<1>5. FlattenSeq(e) \in Seq(Ciphertext)
  BY <1>3, FlattenType
<1>6. width + 1 \in Nat
  OBVIOUS
<1>7. Len(FlattenSeq(e)) = n * (width + 1)
  BY <1>3, <1>6, FlattenLength
<1>8. QED  BY <1>4, <1>5, <1>7
-----------------------------------------------------------------------------
(***************************************************************************)
(* The calls of a client, of which one runs at a time.                     *)
(***************************************************************************)
EncryptLocals ==
    [pc : {"call", "encrypt", "noise", "noise_count", "Ok", "Error"},
     request : EncryptSketchRequest, curve : BOOLEAN, entry : known,
     max_counter_value : Int, out : Seq(Ciphertext)]

\* The encoding of the sketch of a call, and the noise it asks for.
SketchOf(call) == Encoding(call.request.sketch, call.max_counter_value)
Asks(call) == call.request.noise # {}
AskedFor(call) == CHOOSE params \in call.request.noise : TRUE
WidthOf(call) == Len(call.request.sketch.aggregators)

\* SketchThenNoise of a call for which the noiser has drawn value.
Whole(call, value) ==
    /\ IsPrefix(SketchOf(call), call.out)
    /\ Len(call.out) = Len(SketchOf(call))
                         + (IF Asks(call) /\ value > 0 THEN value ELSE 0) * (WidthOf(call) + 1)
    /\ Asks(call) /\ AskedFor(call).p # NaN /\ AskedFor(call).mu \in 0 .. IntMax =>
          value \in 0 .. 2 * AskedFor(call).mu

\* What the parts of a call leave for the later ones.
CallInv(call) ==
    /\ call.pc = "Error" => call.out = << >>
    /\ call.pc \in {"encrypt", "noise", "noise_count", "Ok"} => UsableKey(call.entry.key)
    /\ call.pc \in {"noise", "noise_count"} => call.out = SketchOf(call) /\ Asks(call)

\* The noiser was called with the options of the request.
NoiserInv ==
    EncryptAt("noise_count") =>
        ~NoiseAt("none") /\ noise.options \in GetGeometricPublisherNoiseOptions(AskedFor(encrypt))

ClientInv ==
    /\ ~CombineAt("none") => NoiseReturned /\ EncryptReturned
    /\ ~NoiseReturned => encrypt.pc \in {"none", "noise_count"}
    /\ EncryptAt("none") \/ encrypt \in EncryptLocals
    /\ CallInv(encrypt)
    /\ NoiserInv
    /\ EncryptAt("Ok") => Whole(encrypt, noise.value)

Inv == NoiseInv /\ KeysInv /\ ClientInv

LEMMA InitClient == Init => Inv
<1> SUFFICES ASSUME Init PROVE Inv
  OBVIOUS
<1>1. ClientInv
  BY DEF Init, CombineInit, NoCombine, NoiseInit, NoNoise, NoEncrypt, ClientInv, CallInv, NoiserInv,
     CombineAt, NoiseAt, EncryptAt, NoiseReturned, EncryptReturned
<1>2. QED  BY <1>1, InitNoise, InitKeys DEF Inv

\* A draw does not change the options.
LEMMA OptionsStay ==
    ASSUME noise \in NoiseLocals, NoiseStep
    PROVE  noise'.options = noise.options
<1>1. CASE RejectContributors \/ SeedError \/ RejectP
  BY <1>1 DEF RejectContributors, SeedError, RejectP, NoiseFails, NoiseLocals
<1>2. CASE StartDrawing
  BY <1>2 DEF StartDrawing, NoiseLocals
<1>3. CASE GetTruncatedPolyaRandomVariable
  BY <1>3 DEF GetTruncatedPolyaRandomVariable, KeepPolya, RetryPolya, GiveUp, NoiseFails, NoiseLocals
<1>4. CASE DrawGaussian
  <2>1. PICK a \in Geometric, b \in Geometric :
           noise' = [noise EXCEPT !.pc = "bernoulli", !.value = a - b]
    BY <1>4 DEF DrawGaussian
  <2>2. QED  BY <2>1 DEF NoiseLocals
<1>5. CASE AcceptGaussian \/ RejectGaussian
  BY <1>5 DEF AcceptGaussian, RejectGaussian, NoiseLocals
<1>6. QED  BY <1>1, <1>2, <1>3, <1>4, <1>5 DEF NoiseStep

\* A draw is only made in a call of a noiser.
LEMMA NoiseRuns ==
    ASSUME NoiseInv, NoiseStep
    PROVE  ~NoiseReturned /\ ~NoiseAt("none") /\ noise \in NoiseLocals
<1>1. ~NoiseReturned
  BY DEF NoiseStep, NoiseReturned, NoiseResults, NoiseAt, RejectContributors, SeedError, RejectP,
     StartDrawing, GetTruncatedPolyaRandomVariable, DrawGaussian, AcceptGaussian, RejectGaussian
<1>2. QED  BY <1>1 DEF NoiseReturned, NoiseAt, NoiseInv

\* The noise of a publisher whose mu is an int is one of 0 .. 2 mu.
LEMMA PublisherNoise ==
    ASSUME NoiseInv, NoiseAt("Ok"), NEW params \in [p : Probability, mu : Int],
           noise.options \in GetGeometricPublisherNoiseOptions(params),
           params.p # NaN, params.mu \in 0 .. IntMax
    PROVE  noise.value \in 0 .. 2 * params.mu
<1>1. ToInt(params.mu) = {params.mu}
  BY NoisersAssumption DEF ToInt, AnyInt
<1>2. /\ noise.options.truncate_threshold = params.mu /\ noise.options.shift_offset = params.mu
      /\ noise.options.p = params.p
  BY <1>1 DEF GetGeometricPublisherNoiseOptions, PublisherOptions
<1>3. noise \in NoiseLocals /\ NoiseInRange
  BY DEF NoiseInv, NoiseAt
<1>4. noise.value \in Int /\ params.mu \in Int
  BY <1>3 DEF NoiseLocals
<1>5. QED  BY <1>2, <1>3, <1>4 DEF NoiseInRange, Truncates
\* What a call is like that has begun, and what it has to keep.
LEMMA CallRuns ==
    ASSUME ClientInv, EncryptStep
    PROVE  encrypt \in EncryptLocals /\ CombineAt("none") /\ ~EncryptReturned
<1>1. encrypt.pc \in {"call", "encrypt", "noise", "noise_count"}
  BY DEF EncryptStep, ParseError, CreateWithPublicKey, RejectPublicKey, Encrypt, EncryptError,
     RejectValueCount, DrawNoiseCount, NoiseError, NoNoiseNeeded, AppendNoiseRegisters, EncryptAt
<1>2. QED  BY <1>1 DEF ClientInv, EncryptReturned, EncryptAt

LEMMA CallKept ==
    ASSUME ClientInv, encrypt' \in EncryptLocals, UNCHANGED <<known, combine>>, CombineAt("none"),
           CallInv(encrypt'), NoiseReturned' \/ encrypt'.pc = "noise_count",
           encrypt'.pc = "noise_count" =>
             noise'.pc # "none"
               /\ noise'.options \in GetGeometricPublisherNoiseOptions(AskedFor(encrypt')),
           encrypt'.pc = "Ok" => Whole(encrypt', noise'.value)
    PROVE  ClientInv'
<1>1. CombineAt("none")'
  BY DEF CombineAt
<1>2. encrypt' \in EncryptLocals'
  BY DEF EncryptLocals
<1>3. (~NoiseReturned => encrypt.pc \in {"none", "noise_count"})'
  OBVIOUS
<1>4. CallInv(encrypt)' /\ NoiserInv' /\ (EncryptAt("Ok") => Whole(encrypt, noise.value))'
  BY DEF CallInv, NoiserInv, Whole, EncryptAt, NoiseAt, UsableKey, SketchOf, Asks, AskedFor, WidthOf
<1>5. QED  BY <1>1, <1>2, <1>3, <1>4 DEF ClientInv

LEMMA FailClient ==
    ASSUME ClientInv, encrypt \in EncryptLocals, CombineAt("none"), NoiseReturned, Fail,
           UNCHANGED <<known, combine, noise>>
    PROVE  ClientInv'
<1>1. encrypt' = [encrypt EXCEPT !.pc = "Error", !.out = << >>]
  BY DEF Fail
<1>2. encrypt' \in EncryptLocals /\ encrypt'.pc = "Error" /\ encrypt'.out = << >>
  <2>1. << >> \in Seq(Ciphertext)
    OBVIOUS
  <2>2. QED  BY <1>1, <2>1 DEF EncryptLocals
<1>3. NoiseReturned'
  BY DEF NoiseReturned
<1>4. CallInv(encrypt')
  BY <1>2 DEF CallInv
<1>5. QED  BY <1>2, <1>3, <1>4, CallKept

LEMMA EncryptClient ==
    ASSUME Inv, NoiseInv', EncryptStep
    PROVE  ClientInv'
<1>0. /\ encrypt \in EncryptLocals /\ CombineAt("none") /\ ~EncryptReturned /\ ClientInv
      /\ CallInv(encrypt) /\ encrypt.request \in EncryptSketchRequest
  BY CallRuns DEF Inv, ClientInv, EncryptLocals
<1>1. encrypt.pc # "noise_count" => NoiseReturned
  BY <1>0 DEF ClientInv, EncryptReturned
<1>2. CASE ParseError \/ RejectPublicKey \/ EncryptError \/ RejectValueCount
  <2>1. Fail /\ UNCHANGED <<known, combine, noise>> /\ NoiseReturned
    BY <1>1, <1>2 DEF ParseError, RejectPublicKey, EncryptError, RejectValueCount, EncryptAt
  <2>2. QED  BY <1>0, <2>1, FailClient
<1>3. CASE NoiseError
  BY <1>0, <1>3, FailClient DEF NoiseError
<1>4. CASE CreateWithPublicKey
  <2> DEFINE m == SizeT(encrypt.request.maximum_value)
  <2>1. /\ encrypt.pc = "call" /\ UsableKey(encrypt.entry.key)
        /\ encrypt' = [encrypt EXCEPT !.pc = "encrypt", !.max_counter_value = m]
        /\ UNCHANGED <<known, combine, noise>>
    BY <1>4 DEF CreateWithPublicKey, EncryptAt
  <2>2. m \in Int
    <3>1. \A x \in Int, w \in Nat \ {0} : x % w \in Int
      OBVIOUS
    <3>2. encrypt.request.maximum_value \in Int
      BY <1>0, AdapterAssumption
    <3>3. QED  BY <3>1, <3>2, AdapterAssumption DEF SizeT
  <2> HIDE DEF m
  <2>3. encrypt' \in EncryptLocals /\ encrypt'.pc = "encrypt" /\ encrypt'.entry = encrypt.entry
    BY <1>0, <2>1, <2>2 DEF EncryptLocals
  <2>4. CallInv(encrypt')
    BY <2>1, <2>3 DEF CallInv
  <2>5. NoiseReturned'
    BY <1>1, <2>1 DEF NoiseReturned
  <2>6. QED  BY <1>0, <2>1, <2>3, <2>4, <2>5, CallKept
<1>5. CASE Encrypt
  <2> DEFINE out == SketchOf(encrypt)
             pc == IF HasNoiseParameter THEN "noise" ELSE "Ok"
  <2>1. /\ encrypt.pc = "encrypt" /\ encrypt' = [encrypt EXCEPT !.pc = pc, !.out = out]
        /\ UNCHANGED <<known, combine, noise>>
    BY <1>5, ServiceEncodes, Zenon DEF Encrypt, EncryptAt, SketchOf
  <2>2. out \in Seq(Ciphertext)
    <3>1. encrypt.max_counter_value \in Int
      BY <1>0 DEF EncryptLocals
    <3>2. QED  BY <1>0, <3>1, EncodingType DEF SketchOf
  <2>3. pc \in {"noise", "Ok"} /\ (pc = "noise" <=> Asks(encrypt))
    BY DEF HasNoiseParameter, Asks
  <2> HIDE DEF out, pc
  <2>4. /\ encrypt' \in EncryptLocals /\ encrypt'.pc = pc /\ encrypt'.out = out
        /\ encrypt'.entry = encrypt.entry /\ encrypt'.request = encrypt.request
        /\ encrypt'.max_counter_value = encrypt.max_counter_value
    BY <1>0, <2>1, <2>2, <2>3 DEF EncryptLocals
  <2>5. SketchOf(encrypt') = out /\ (Asks(encrypt') <=> Asks(encrypt))
    BY <2>4 DEF SketchOf, Asks, out
  <2>6. CallInv(encrypt')
    BY <1>0, <2>1, <2>3, <2>4, <2>5 DEF CallInv
  <2>7. NoiseReturned'
    BY <1>1, <2>1 DEF NoiseReturned
  <2>8. encrypt'.pc = "Ok" => Whole(encrypt', noise'.value)
    <3> SUFFICES ASSUME encrypt'.pc = "Ok" PROVE Whole(encrypt', noise'.value)
      OBVIOUS
    <3>1. ~Asks(encrypt')
      BY <2>3, <2>4, <2>5
    <3>2. WidthOf(encrypt') \in Nat
      BY <1>0, <2>4, AdapterAssumption DEF WidthOf
    <3>3. \A n \in Nat, k \in Nat : n = n + 0 * (k + 1)
      OBVIOUS
    <3>4. Len(out) \in Nat /\ IsPrefix(out, out)
      BY <2>2 DEF IsPrefix
    <3>5. QED  BY <2>4, <2>5, <3>1, <3>2, <3>3, <3>4 DEF Whole
  <2>9. encrypt'.pc # "noise_count"
    BY <2>3, <2>4
  <2>10. QED  BY <1>0, <2>1, <2>4, <2>6, <2>7, <2>8, <2>9, CallKept
<1>6. CASE DrawNoiseCount
  <2>1. /\ encrypt.pc = "noise" /\ encrypt' = [encrypt EXCEPT !.pc = "noise_count"]
        /\ UNCHANGED <<known, combine>>
    BY <1>6 DEF DrawNoiseCount, EncryptAt
  <2>2. PICK options \in GetGeometricPublisherNoiseOptions(AskedFor(encrypt)) :
           GenerateNoiseComponent(options)
    BY <1>6 DEF DrawNoiseCount, NoiseParams, AskedFor
  <2>3. /\ encrypt' \in EncryptLocals /\ encrypt'.pc = "noise_count" /\ encrypt'.out = encrypt.out
        /\ encrypt'.entry = encrypt.entry /\ encrypt'.request = encrypt.request
        /\ encrypt'.max_counter_value = encrypt.max_counter_value
    BY <1>0, <2>1 DEF EncryptLocals
  <2>4. /\ SketchOf(encrypt') = SketchOf(encrypt) /\ (Asks(encrypt') <=> Asks(encrypt))
        /\ AskedFor(encrypt') = AskedFor(encrypt)
    BY <2>3 DEF SketchOf, Asks, AskedFor
  <2>5. CallInv(encrypt')
    BY <1>0, <2>1, <2>3, <2>4 DEF CallInv
  <2>6. noise'.pc = "call" /\ noise'.options = options
    BY <2>2 DEF GenerateNoiseComponent
  <2>7. QED  BY <1>0, <2>1, <2>2, <2>3, <2>4, <2>5, <2>6, CallKept
<1>7. CASE NoNoiseNeeded \/ AppendNoiseRegisters
  <2>1. /\ encrypt.pc = "noise_count" /\ NoiseAt("Ok") /\ UNCHANGED <<known, combine, noise>>
    BY <1>7 DEF NoNoiseNeeded, AppendNoiseRegisters, EncryptAt
  <2>2. /\ UsableKey(encrypt.entry.key) /\ encrypt.out = SketchOf(encrypt) /\ Asks(encrypt)
        /\ noise.options \in GetGeometricPublisherNoiseOptions(AskedFor(encrypt))
    BY <1>0, <2>1 DEF CallInv, ClientInv, NoiserInv, EncryptAt
  <2>3. noise.value \in Int /\ WidthOf(encrypt) \in Nat /\ encrypt.out \in Seq(Ciphertext)
    <3>1. noise \in NoiseLocals
      BY <2>1 DEF Inv, NoiseInv, NoiseAt
    <3>2. QED  BY <1>0, <3>1, AdapterAssumption DEF NoiseLocals, WidthOf, EncryptLocals
  <2>4. AskedFor(encrypt).p # NaN /\ AskedFor(encrypt).mu \in 0 .. IntMax =>
           noise.value \in 0 .. 2 * AskedFor(encrypt).mu
    <3>1. AskedFor(encrypt) \in encrypt.request.noise
      BY <2>2 DEF AskedFor, Asks
    <3>2. encrypt.request.noise \subseteq [p : Probability, mu : Int]
      BY <1>0, AdapterAssumption
    <3>3. PICK params \in [p : Probability, mu : Int] : params = AskedFor(encrypt)
      BY <3>1, <3>2
    <3>4. params.p # NaN /\ params.mu \in 0 .. IntMax => noise.value \in 0 .. 2 * params.mu
      BY <2>1, <2>2, <3>3, PublisherNoise DEF Inv
    <3>5. QED  BY <3>3, <3>4
  <2>5. ASSUME NEW out \in Seq(Ciphertext), encrypt' = [encrypt EXCEPT !.pc = "Ok", !.out = out],
               IsPrefix(encrypt.out, out),
               Len(out) = Len(encrypt.out)
                            + (IF noise.value > 0 THEN noise.value ELSE 0) * (WidthOf(encrypt) + 1)
        PROVE  ClientInv'
    <3>1. /\ encrypt' \in EncryptLocals /\ encrypt'.pc = "Ok" /\ encrypt'.out = out
          /\ encrypt'.entry = encrypt.entry /\ encrypt'.request = encrypt.request
          /\ encrypt'.max_counter_value = encrypt.max_counter_value
      BY <1>0, <2>5 DEF EncryptLocals
    <3>2. /\ SketchOf(encrypt') = SketchOf(encrypt) /\ (Asks(encrypt') <=> Asks(encrypt))
          /\ AskedFor(encrypt') = AskedFor(encrypt) /\ WidthOf(encrypt') = WidthOf(encrypt)
      BY <3>1 DEF SketchOf, Asks, AskedFor, WidthOf
    <3>3. CallInv(encrypt')
      BY <2>2, <3>1 DEF CallInv
    <3>4. Whole(encrypt', noise'.value)
      BY <2>1, <2>2, <2>4, <2>5, <3>1, <3>2 DEF Whole
    <3>5. NoiseReturned'
      BY <2>1 DEF NoiseReturned, NoiseResults, NoiseAt
    <3>6. QED  BY <1>0, <2>1, <3>1, <3>3, <3>4, <3>5, CallKept
  <2>6. CASE NoNoiseNeeded
    <3>1. noise.value < 1 /\ encrypt' = [encrypt EXCEPT !.pc = "Ok"]
      BY <2>6 DEF NoNoiseNeeded
    <3>2. encrypt' = [encrypt EXCEPT !.pc = "Ok", !.out = encrypt.out]
      BY <1>0, <3>1 DEF EncryptLocals
    <3>3. IsPrefix(encrypt.out, encrypt.out) /\ Len(encrypt.out) \in Nat
      BY <2>3 DEF IsPrefix
    <3>4. \A n \in Nat, k \in Nat : n = n + 0 * (k + 1)
      OBVIOUS
    <3>5. ~(noise.value > 0)
      BY <2>3, <3>1
    <3>6. QED  BY <2>3, <2>5, <3>2, <3>3, <3>4, <3>5
  <2>7. CASE AppendNoiseRegisters
    <3>1. PICK randoms \in [1 .. noise.value -> RandomPoint] :
             encrypt' = [encrypt EXCEPT !.pc = "Ok",
                           !.out = encrypt.out \o Service!NoiseRegisters(WidthOf(encrypt), randoms)]
      BY <2>7 DEF AppendNoiseRegisters, Turns, ValueCount, WidthOf
    <3>2. noise.value \in Nat /\ noise.value > 0
      BY <2>3, <2>7 DEF AppendNoiseRegisters
    <3>3. PICK tail \in Seq(Ciphertext) :
             /\ tail = Service!NoiseRegisters(WidthOf(encrypt), randoms)
             /\ Len(tail) = noise.value * (WidthOf(encrypt) + 1)
      BY <2>3, <3>2, NoiseLength
    <3>4. \A s, t \in Seq(Ciphertext) :
             s \o t \in Seq(Ciphertext) /\ IsPrefix(s, s \o t) /\ Len(s \o t) = Len(s) + Len(t)
      <4>1. \A s, t \in Seq(Ciphertext) :
               s \o t \in Seq(Ciphertext) /\ Len(s \o t) = Len(s) + Len(t)
        OBVIOUS
      <4>2. \A s, t \in Seq(Ciphertext) : IsPrefix(s, s \o t)
        <5> SUFFICES ASSUME NEW s \in Seq(Ciphertext), NEW t \in Seq(Ciphertext)
                     PROVE  IsPrefix(s, s \o t)
          OBVIOUS
        <5>1. PICK u \in Seq(Ciphertext) : u = s \o t
          BY <4>1
        <5>2. BeginningOf(s, u, Ciphertext)
          BY <5>1 DEF BeginningOf, Cat
        <5>3. QED  BY <5>1, <5>2, BeginningIsPrefix DEF IsPrefix
      <4>3. QED  BY <4>1, <4>2
    <3>5. QED  BY <2>3, <2>5, <3>1, <3>2, <3>3, <3>4
  <2>8. QED  BY <1>7, <2>6, <2>7
<1>8. QED  BY <1>2, <1>3, <1>4, <1>5, <1>6, <1>7 DEF EncryptStep

LEMMA StepClient == Inv /\ [Next]_vars => Inv'
<1> SUFFICES ASSUME Inv, [Next]_vars PROVE Inv'
  OBVIOUS
<1>0. NoiseInv /\ NoiseInv' /\ KeysInv /\ ClientInv
  BY StepNoise DEF Inv
<1>1. ASSUME UNCHANGED <<known, combine>> PROVE KeysInv'
  <2>1. combine' = combine /\ UNCHANGED known
    BY <1>1
  <2>2. /\ combine' \in [pc : {"none", "call", "add"}, curve : BOOLEAN, keys : Seq(known),
                         i : Nat, element : Int]
        /\ combine'.pc = "add" =>
             /\ combine'.i \in 2 .. Len(combine'.keys) + 1
             /\ Summed(combine'.keys, combine'.i - 1, combine'.element)
    BY <1>0, <2>1 DEF KeysInv, CombineAt
  <2>3. QED  BY <1>0, <2>1, <2>2, CallGoesOn
<1>2. CASE UNCHANGED vars
  <2>1. UNCHANGED <<known, combine, noise, encrypt>>
    BY <1>2 DEF vars
  <2>2. ClientInv'
    BY <1>0, <2>1 DEF ClientInv, CallInv, NoiserInv, Whole, EncryptLocals, EncryptAt, NoiseAt, CombineAt,
       NoiseReturned, EncryptReturned, UsableKey, SketchOf, Asks, AskedFor, WidthOf
  <2>3. QED  BY <1>0, <1>1, <2>1, <2>2 DEF Inv
<1>3. CASE CombineElGamalPublicKeys
  <2>1. KeysInv'
    BY <1>0, <1>3, CallKeys DEF CombineElGamalPublicKeys
  <2>2. noise' = NoNoise /\ encrypt' = NoEncrypt
    BY <1>3 DEF CombineElGamalPublicKeys
  <2>3. ClientInv'
    BY <2>2 DEF NoNoise, NoEncrypt, ClientInv, CallInv, NoiserInv, EncryptAt, NoiseAt,
       NoiseReturned, EncryptReturned
  <2>4. QED  BY <1>0, <2>1, <2>3 DEF Inv
<1>4. CASE CallNoiser
  <2>1. encrypt' = NoEncrypt /\ UNCHANGED <<known, combine>> /\ CombineAt("none")
    BY <1>4 DEF CallNoiser, Idle
  <2>2. ClientInv'
    BY <2>1 DEF NoEncrypt, ClientInv, CallInv, NoiserInv, EncryptAt, CombineAt
  <2>3. QED  BY <1>0, <1>1, <2>1, <2>2 DEF Inv
<1>5. CASE EncryptSketch
  <2>1. /\ noise' = NoNoise /\ UNCHANGED <<known, combine>> /\ CombineAt("none")
    BY <1>5 DEF EncryptSketch, Idle
  <2>2. PICK req \in EncryptSketchRequest, entry \in known, curve \in BOOLEAN :
           encrypt' = [pc |-> "call", request |-> req, curve |-> curve, entry |-> entry,
                       max_counter_value |-> 0, out |-> << >>]
    BY <1>5 DEF EncryptSketch
  <2>3. encrypt' \in EncryptLocals /\ encrypt'.pc = "call"
    BY <2>2 DEF EncryptLocals
  <2>4. CallInv(encrypt') /\ NoiseReturned'
    BY <2>1, <2>3 DEF CallInv, NoiseReturned, NoNoise
  <2>5. ClientInv'
    BY <1>0, <2>1, <2>3, <2>4, CallKept
  <2>6. QED  BY <1>0, <1>1, <2>1, <2>5 DEF Inv
<1>6. CASE CombineStep /\ UNCHANGED <<noise, encrypt>>
  <2>1. KeysInv'
    BY <1>0, <1>6, StepKeys
  <2>2. ~CombineAt("none")
    BY <1>6 DEF CombineStep, RejectEmpty, ReturnSole, FirstElement, RejectFirst, RejectKey, Adding,
       AddElement, CurveError, ReturnCombined, CombineAt
  <2>3. NoiseReturned /\ EncryptReturned
    BY <1>0, <2>2 DEF ClientInv
  <2>4. known \subseteq known'
    BY <1>6 DEF CombineStep, RejectEmpty, ReturnSole, FirstElement, RejectFirst, RejectKey,
       AddElement, CurveError, ReturnCombined, CombineOk, CombineFails
  <2>5. EncryptAt("none")' \/ encrypt' \in EncryptLocals'
    <3>1. EncryptAt("none") \/ encrypt \in EncryptLocals
      BY <1>0 DEF ClientInv
    <3>2. EncryptLocals \subseteq EncryptLocals'
      BY <2>4 DEF EncryptLocals
    <3>3. QED  BY <1>6, <3>1, <3>2 DEF EncryptAt
  <2>6. ClientInv'
    BY <1>0, <1>6, <2>3, <2>5 DEF ClientInv, CallInv, NoiserInv, Whole, EncryptAt, NoiseAt,
       NoiseReturned, EncryptReturned, UsableKey, SketchOf, Asks, AskedFor, WidthOf
  <2>7. QED  BY <1>0, <2>1, <2>6 DEF Inv
<1>7. CASE NoiseStep /\ UNCHANGED <<known, combine, encrypt>>
  <2>1. /\ ~NoiseReturned /\ noise \in NoiseLocals /\ noise'.options = noise.options
        /\ noise' \in NoiseLocals
    BY <1>0, <1>7, NoiseRuns, OptionsStay, StepKeeps
  <2>2. CombineAt("none") /\ encrypt.pc \in {"none", "noise_count"}
    BY <1>0, <2>1 DEF ClientInv
  <2>3. noise'.pc # "none"
    BY <2>1 DEF NoiseLocals, NoiseResults
  <2>4. ASSUME EncryptAt("none") PROVE ClientInv'
    BY <1>0, <1>7, <2>2, <2>4 DEF ClientInv, CallInv, NoiserInv, EncryptAt, CombineAt
  <2>5. ASSUME EncryptAt("noise_count") PROVE ClientInv'
    <3>1. encrypt' \in EncryptLocals /\ encrypt'.pc = "noise_count" /\ encrypt' = encrypt
      BY <1>0, <1>7, <2>5 DEF ClientInv, EncryptAt
    <3>2. CallInv(encrypt') /\ noise'.options \in GetGeometricPublisherNoiseOptions(AskedFor(encrypt'))
      BY <1>0, <2>1, <2>5, <3>1 DEF ClientInv, NoiserInv
    <3>3. UNCHANGED <<known, combine>>
      BY <1>7
    <3>4. QED  BY <1>0, <2>2, <2>3, <3>1, <3>2, <3>3, CallKept
  <2>6. ClientInv'
    BY <2>2, <2>4, <2>5 DEF EncryptAt
  <2>7. QED  BY <1>0, <1>1, <1>7, <2>6 DEF Inv
<1>8. CASE EncryptStep
  <2>1. UNCHANGED <<known, combine>>
    BY <1>8 DEF EncryptStep, ParseError, CreateWithPublicKey, RejectPublicKey, Encrypt, EncryptError,
       RejectValueCount, DrawNoiseCount, NoiseError, NoNoiseNeeded, AppendNoiseRegisters
  <2>2. QED  BY <1>0, <1>1, <1>8, <2>1, EncryptClient DEF Inv
<1>9. QED  BY <1>2, <1>3, <1>4, <1>5, <1>6, <1>7, <1>8 DEF Next, Step

(***************************************************************************)
(* The types hold, and no two calls of a client overlap.                   *)
(***************************************************************************)
THEOREM TypeCorrect == Spec => []TypeOK
<1>1. Inv => TypeOK
  <2> SUFFICES ASSUME Inv PROVE TypeOK
    OBVIOUS
  <2>1. \A entry \in known : entry.parts \in [Worker -> Nat] /\ PartsCount(entry.parts) > 0
    BY DEF Inv, KeysInv, Kept, Entry
  <2>2. ~EncryptAt("none") => encrypt.entry \in known
    BY DEF Inv, ClientInv, EncryptLocals
  <2>3. ~NoiseAt("none") => noise \in NoiseLocals
    BY DEF Inv, NoiseInv
  <2>4. QED  BY <2>1, <2>2, <2>3 DEF Inv, KeysInv, ClientInv, TypeOK
<1>2. QED  BY InitClient, StepClient, <1>1, PTL DEF Spec

(***************************************************************************)
(* A combined key is the sum of the keys it was made from, whatever the    *)
(* workers, the order of the keys and the number of calls it took.         *)
(***************************************************************************)
THEOREM CombinedCorrect == Spec => []CombinedIsSum
<1>1. Inv => CombinedIsSum
  <2> SUFFICES ASSUME Inv, NEW entry \in known, PartsCount(entry.parts) > 1
               PROVE  Good(entry)
    BY DEF CombinedIsSum, Good
  <2>1. Kept(entry)
    BY DEF Inv, KeysInv
  <2>2. \A w \in Worker : entry # Own(w)
    <3>1. \A w \in Worker : PartsCount(Own(w).parts) = 1
      BY OwnParts
    <3>2. QED  BY <3>1
  <2>3. QED  BY <2>1, <2>2 DEF Kept
<1>2. QED  BY InitClient, StepClient, <1>1, PTL DEF Spec

(***************************************************************************)
(* The workers can decrypt every answer of EncryptSketch, with every       *)
(* worker counted as often as its key was combined.                        *)
(***************************************************************************)
THEOREM DecryptCorrect == Spec => []WorkersCanDecrypt
<1>1. Inv => WorkersCanDecrypt
  <2> SUFFICES ASSUME Inv, EncryptAt("Ok") PROVE WorkersCanDecrypt
    BY DEF WorkersCanDecrypt
  <2>1. encrypt.entry \in known /\ UsableKey(encrypt.entry.key)
    BY DEF Inv, ClientInv, CallInv, EncryptAt, EncryptLocals
  <2>2. Good(encrypt.entry) /\ encrypt.entry.key.generator \in Point
    <3>1. Kept(encrypt.entry)
      BY <2>1 DEF Inv, KeysInv
    <3>2. QED  BY <2>1, <3>1, KeptGood DEF UsableKey
  <2>3. QED  BY <2>1, <2>2, Zenon DEF Good, UsableKey, WorkersCanDecrypt
<1>2. QED  BY InitClient, StepClient, <1>1, PTL DEF Spec

(***************************************************************************)
(* An answer is the whole sketch and whole noise registers, for every      *)
(* sketch and all parameters of the noise, and an error is no answer.      *)
(***************************************************************************)
THEOREM AnswerCorrect == Spec => []SketchThenNoise
<1>1. Inv => SketchThenNoise
  <2> SUFFICES ASSUME Inv PROVE SketchThenNoise
    OBVIOUS
  <2>1. /\ EncryptAt("Ok") => Whole(encrypt, noise.value)
        /\ EncryptAt("Error") => encrypt.out = << >>
    BY DEF Inv, ClientInv, CallInv, EncryptAt
  <2>2. Service!EncodedSketch(encrypt.request.sketch) = SketchOf(encrypt)
    BY ServiceEncodes DEF SketchOf
  <2>3. /\ (HasNoiseParameter <=> Asks(encrypt)) /\ NoiseParams = AskedFor(encrypt)
        /\ ValueCount = WidthOf(encrypt)
    BY DEF HasNoiseParameter, Asks, NoiseParams, AskedFor, ValueCount, WidthOf
  <2>4. QED  BY <2>1, <2>2, <2>3, Zenon DEF Whole, SketchThenNoise
<1>2. QED  BY InitClient, StepClient, <1>1, PTL DEF Spec
=============================================================================
