# A verification development for any-sketch

This directory models the core of any-sketch in TLA+, checks the models with
TLC on small instances and proves with TLAPS, for all values of the constants,
every invariant that TLC checks and the refinement of the encryption service.
All paths are relative to the root of the repository.

## The system

any-sketch turns a set of users into a *sketch* (a sparse map from a register
index to a tuple of values), encrypts sketches so that several parties can
combine them without seeing the registers, and offers the arithmetic around
that: estimation, secret sharing, pseudorandom numbers, shuffling and noise.

| Component | State | Operations | Talks to |
|---|---|---|---|
| Sketch (`any_sketch/any_sketch.cc`, `aggregators.cc`) | `registers_`: index -> values; the configuration is immutable | `Insert`, `AggregateIntoRegister`, `Merge`, `MergeAll`, iteration | distributions, aggregators, other sketches |
| Distributions (`any_sketch/distributions.cc`) | none | `Apply` of the oracle, uniform, geometric and exponential distribution | farmhash fingerprints |
| Cardinality estimator (`estimation/estimators.cc`) | locals of one call | `EstimateCardinalityLiquidLegions`, `InvertMonotonic` | nothing |
| Sketch encrypter (`any_sketch/crypto/sketch_encrypter.cc`) | mutex, cipher, OpenSSL context, two caches of curve points, the maximum | `Encrypt`, `AppendNoiseRegisters`, `CombineElGamalPublicKeys` | the elliptic curve library, the noiser |
| Encrypter adapter (`any_sketch/crypto/sketch_encrypter_adapter.cc`) | none | `EncryptSketch`, `CombineElGamalPublicKeys` on serialized requests | the encrypter |
| Pseudorandom generator (`math/open_ssl_uniform_random_generator.cc`) | the position in the AES-CTR stream of a seed | `GeneratePseudorandomBytes`, `GenerateUniformRandomRange`, `GenerateNonZeroUniformRandomRange` | OpenSSL |
| Secret sharing (`frequency_count/`) | none | `GenerateSecretShares` and its adapter | the generator; a second party that expands the same seed |
| Shuffle (`crypto/shuffle.cc`) | the vector | `SecureShuffleWithSeed` | the generator |
| Noise (`math/distributed_*_noiser.cc`, `noise_parameters_computation.cc`) | options | `GenerateNoiseComponent` | random numbers |

**What is hard here.**  Only the encrypter is concurrent: one object is shared
by threads, and its cipher, its context and its caches survive from call to
call.  Everything else is hard in another way.  A sketch reaches a state by a
long sequence of inserts, failing inserts, merges and failing merges, and the
result must not depend on their order; `Merge` walks a hash map of unspecified
order and may write to the map it walks.  Two parties that hold the same seed
must expand it to the same numbers although rejection sampling reads batches
whose sizes come from an expectation.  And much arithmetic sits at the edge of
its type: the mixed radix of `GetIndex`, a SUM column, the two ends of the binary
search, the clamp of a counter, the shift by the bit length of a modulus, the
number of random bytes that OpenSSL takes as an `int`, the threshold of the
noise, a double that is converted to an `int` unchecked.

**What makes each component correct.**

* Sketch: no insert or merge loses or repeats a contribution; a destroyed UNIQUE
  value stays destroyed; the registers depend on what went in and not on how;
  different vectors of indexes do not share a register; a merge is the sketch of
  the union, which the header promises and SUM columns do not keep.
* Distributions: a value is in the declared range or there is an error; the
  bit masks of `CountTrailingZeros` count trailing zeros at every position.
* Estimator: where the function reaches the target the search ends, never wraps,
  and is at most one off, and the rounded division by the sampling rate leaves
  the estimate within one of it.
* Encrypter: calls of several threads answer as if each ran alone without
  caches; a destroyed register stays recognizable; every call returns.
* Generator: the values asked for, in their range, the same for every holder
  of the seed, and an end to every call.
* Secret sharing: the two shares add up to the input, also after each of its
  two holders has shuffled its share.
* Shuffle: a permutation of the vector, each equally likely, the same one for
  every holder of the seed, and none at all if the call fails.
* Noise: a component within the threshold around the offset, and an end.
* Adapter: the workers can decrypt what was encrypted with the keys they
  published, however these were combined; an answer is the whole sketch and
  whole noise registers, and an error is no answer.

## The modules

`Distributions` <- `AnySketch` <- `AnySketchProofs`;
`Estimators` <- `EstimatorsProofs`;
`EncryptionService` <- `SketchEncrypter` (by `INSTANCE`) <- `SketchEncrypterProofs`;
`KeyCombiner`, `Noisers`, `EncryptionService` (by `INSTANCE`) <-
`SketchEncrypterAdapter` <- `SketchEncrypterAdapterProofs`;
`PseudorandomGenerator` <- `PseudorandomGeneratorProofs`, `SecretSharing`;
`SecretSharing`, `PseudorandomGeneratorProofs` <- `SecretSharingProofs`;
`SecureShuffle`, `SecretSharing` (by `INSTANCE`) <- `ShareShuffle`;
`ShareShuffle`, `SecretSharingProofs` (by `INSTANCE`) <- `ShareShuffleProofs`;
`FoldLemmas` <- `AnySketchProofs`, `PseudorandomGeneratorProofs`,
`SketchEncrypterProofs`, `SketchEncrypterAdapterProofs`.
An `MC...` module and its `.cfg` files instantiate each of them for TLC.
Operators whose comment begins with "Mutant of" are faulty variants of the
definition that follows them.  No specification uses them: they document which
mistake each property detects.

**Distributions** has one operator for each distribution.  A `StatusOr<int64_t>` is
a set with at most one element, and the empty set is an error. `CountTrailingZeros`
works on the set of one bits and tests the six masks of the code.  Every
distribution that hashes has a fingerprinter of its own, so the parts of an index
are independent: an item is a record of its fingerprints, by fingerprinter, and its
metadata.  The floating point formula of the exponential distribution is a table
`ExpBucket` about which only what the formula gives is assumed: it is monotonic,
starts at 0 and reaches `n` itself for the largest fingerprint, where `u` is exactly
1.0 and `Apply` has to reject the value.

**AnySketch** has several sketches side by side, each with distributions and
value functions of its own.  `registers[s]` is `registers_`.  `Insert` and
`AggregateIntoRegister` are one step each, with all their early returns.
`Merge` and `MergeAll` are loops: `call` holds the sketch that is written, the
sketches still to merge and the registers still to visit, and each visit is a
step, in any order.  `content` is a history variable, the bag of all
contributions, each with its item, its vector of indexes and its values.  Sums
are taken in an `int64_t` that wraps (`Wrapped`), as builds do.  Two properties
speak of sums.  `SumConserved` is what the code keeps: a register is the sum of the
*bag*, so an insert or merge is neither lost nor repeated.  `MergeIsUnion` is what
`any_sketch.h:105` says, that a merge equals sketching the *union of the sets*;
it fails for every overlap (`merge_union`).  `IndexType`, the registers a sketch
may have, is made from the declared ranges of the distributions and not from what
`Apply` returns, so that a value out of range would be noticed.

**Estimators** has the two loops of `InvertMonotonic` step by step, over every
non-decreasing function of a word of `Word` values, and the division of the result
by the sampling rate.  Init has what the code asserts: `f(0)` is at most the target,
and the target is less than the number of registers.  That the function ever reaches
the target (`InReach`) no line makes sure of, so it is a precondition of the
properties and not of the behaviours.  The division is that of doubles: the result
of the search is rounded to a double, converted to `int64_t`, divided by the rate
with rounding to the nearest double, ties to even, and truncated (`Nearest`,
`Parts`, `Units`, `Truncated`).  The significand of a double is below `Precision`,
2^53 in the code and 8 in the run, and `Scale` is the set of powers of two.  So 5 /
0.1 is 50 as in the code, although the double 0.1 is larger than 1/10 and the exact
quotient is below 50.  A double that is no `int64_t` may become any `int64_t`: the
conversion is undefined behaviour.

**EncryptionService** is what the encrypter promises: a call returns the
encoding of its sketch, or its string extended by whole noise registers, as if
it ran alone.  A ciphertext stands for the point it decrypts to.
**SketchEncrypter** is the code: the mutex, one small step for each use of the
curve library, the caches, the clamp of counters, every error return.  The
library and the context compute through memory of their own; `scratch` is that
memory, written in one step and read in a later one, so that a call which did
not hold the mutex would disturb another.  `Implements == Service!Spec` is
the refinement, with identity on `max_counter_value`, `request` and `response`.

**PseudorandomGenerator** has several generators created from one seed.  A seed
stands for a byte stream, which is periodic to bound the model, and each
generator has a position in it.  The two loops of rejection sampling run turn
by turn.  Bytes have `ByteBits` bits and words `WordBits`; a shift at the
width of a word does what the compiled code does.  Where the `for` loop counts
bytes although it means values, it can read beyond the vector: `SampleBeyond`
takes an arbitrary value there.  The size of a byte call reaches OpenSSL as an
`int`: `Filled` bytes of the vector are encrypted, the rest keeps its zeros, and
`TooManyBytes`, a negative `int`, is an error.

**SecretSharing** composes two generators: the dealer that runs
`GenerateSecretShares` and a helper that got the seed and expands it.  An error of
the generator is returned with its own status, one of `SubMod` as an invalid
argument.

**SecureShuffle** has several parties that each shuffle a vector of their own in
place, one swap at a time.  `Rand[s]` is the sequence of numbers a seed expands
to, which the code generates in one call before the first swap; `RandRange` is
the number of elements whose random bytes an unsigned `int` cannot count any more
(2^28 in the code), from where on numbers are missing.  `orders[p]` is a history
variable, the permutations after each turn.

**ShareShuffle** composes secret sharing and shuffle the way the library's
callers use them: dealer and helper get their shares, agree on a seed, and
shuffle apart from each other, at any time after they have their share.  The
calls of the generators are those that the requests lead to (`Expansion`).  Nothing
in the repository calls both, so the agreement on the seed is an assumption about
the callers.  Parties that have nothing to share shuffle any vectors with any
seeds.

**KeyCombiner** is the loop of `CombineElGamalPublicKeys`, key by key, with
every check in the place where the code has it.  The element `x g` of the
cyclic group is represented by `x`.  `known` holds the keys somebody has, each
with the history of the workers whose keys went into it; what a call returns
joins it and may be combined again.  That bytes are rejected when they are no
point or the neutral one is what the external curve library does.

**Noisers** has `GenerateNoiseComponent` of both noisers, one draw a step.  A
distribution is the set of what it may draw, which also covers what
`OpenSslUniformRandomGenerator` returns when `RAND_bytes` fails and its result is
ignored.  The options for publishers are sets: a `mu` that is no `int` becomes
the largest or the smallest one, or zero.  `p` may be `NaN`, which the check of the code
lets pass because its comparisons are false (`OutOfUnit`); what is drawn then is
any `int` (`Drawn`).

**SketchEncrypterAdapter** composes these: one client calls
`CombineElGamalPublicKeys`, `EncryptSketch` and the noisers, one call after
another.  `EncryptSketch` creates an encrypter for one request, which nobody shares,
so it is represented by the answers of `EncryptionService`, the specification that
`SketchEncrypter` is proved to implement.  `EncryptError` and `NoiseError` may
happen at any time, because the curve library may fail. The formulas for the
parameters of the noise are numbers `p` and `mu` of the request, of which `mu` may
be negative or no `int` and `p` may be `NaN`, because only assertions restrict
`epsilon` and `delta`; what the code makes of them is
`GetGeometricPublisherNoiseOptions`. The values of negative `maximum_value`s are
left to `SketchEncrypter`.

## The runs

| Run | What it shows |
|---|---|
| `sketch_operations` | Two sketches of one configuration (3 x 2 indexes, a UNIQUE and a SUM column) and a narrower one; inserts that succeed, inserts whose key is missing or out of range, a direct contribution of a destroyed register, merges in both directions, of a sketch into itself, and of a list with a sketch that does not fit between two that do, sums that wrap around.  Every invariant of `AnySketch`. |
| `merge_union` | Finding: merging sketches that have an item in common counts it twice in a SUM column. |
| `index_collision` | Finding: with sizes 2 and 3, in this order, two vectors of indexes share a register. |
| `inverse_search` | Every staircase function with up to three steps over a five bit word, targets in its reach, for which the call returns, and out of it, for which the right end wraps to zero and the doubling never ends, and sampling rates of 1, 7/32 and 3/8 in double arithmetic, with quotients that are rounded up to an integer and estimates that are no `int64_t`. |
| `shared_encrypter` | Two threads, eight kinds of sketch and two of noise, failing curve operations, an ordinary maximum and the largest `size_t`: mutual exclusion, undisturbed memory, sound caches, counters clamped in every answer, the refinement of `EncryptionService`, and that calls return. |
| `encrypter_zero_maximum` | Finding: the two registers of a destroyed register are equal when the maximum is 0. |
| `prng_same_seed` | Two generators run the same calls: as many values as were asked for and in range, equal results, nothing skipped or repeated between batches whose bytes an `int` counts, bytes of the stream, and an end.  Byte calls below, at and above what an `int` holds. |
| `prng_large_modulus` | Finding: a modulus whose bit length is that of the word draws nothing, for ever. |
| `share_shuffle` | Requests over rings 0, 2, 3 and 4 and vectors of up to three elements, invalid ones included: the shares add up, before and after each party has shuffled its own.  Vectors of up to three elements, equal ones included, good and bad seeds, a generator that may fail: permutations, equal ones for equal seeds, one choice of swaps for each permutation. |
| `large_shuffle` | Finding: a vector with 2^28 elements is not shuffled at all, whatever the seed, and the call says Ok. |
| `secret_sharing_two_bytes` | Finding: with two bytes per element and a modulus that is no power of two the helper expands something else. |
| `client_of_adapter` | Four workers, two of them broken; keys combined in every order and in two stages, sketches encrypted with whatever key the client has, with and without noise, for thresholds that are an `int`, negative, or no `int`; both noisers called with good and bad options, a `NaN` among them: keys are sums, answers can be decrypted and are complete, errors hold nothing, noise is in range, every call returns. |

### Bounds, and why they are enough

* `sketch_operations`: `MaxContent = 3` contributions per sketch.  Two are needed to
  destroy a UNIQUE value, and a third to revive it or to count twice after a merge.
  Register indexes that are equal, that differ, and an index part that is out of
  range all occur.  `Word = 256` lets two contributions of 100 leave the range of an
  `int64_t`.
* `inverse_search`: the code's behaviour depends on where the target lies between
  the steps and on the parities of the ends.  Staircases over 32 values give every
  combination, steps that coincide included.  Doubles with significands below 8 have
  every integer up to 8; with the rates 7/32 and 3/8 quotients are exact, rounded
  down, rounded up to the next integer (1 / (7/32) is 4.57, and 5 as a double), and
  beyond an `int64_t`. The largest scale, 2^8, exceeds every quotient.
* `shared_encrypter`: a race, a deadlock or a spoiled cache needs two threads.
  Values below, at and above the maximum plus one occur in one sketch.
* `prng_same_seed`: the nine periods of four bytes that begin with a byte modulus 3
  rejects and end with one it accepts; as a call may begin anywhere in the period, a
  batch begins or ends with rejected bytes, has several or none.  Sizes go up to
  three, so that a batch can be too small and be followed by another one.  With
  bytes of two bits, moduli of one byte, of two bytes and of the width of the word
  all occur.
* `share_shuffle`: three elements have six permutations and six choices of swaps,
  each of which some seed makes, some of them with numbers larger than the
  interval.  The naive shuffle already differs from Fisher-Yates here.  Rings 2 and
  4 are powers of two, ring 3 rejects bytes, and rings 0 and frequencies that are
  not below the modulus are rejected themselves.  Two agreed seeds, one of them of
  the wrong length, are enough for shares: what a seed does to a vector is explored
  with the vectors that are no shares.
* `large_shuffle`: with `RandRange = 4` three elements are an error and four need as
  many bytes as an unsigned `int` counts.
* `client_of_adapter`: `MaxKeys = 3` takes the loop past its first turn,
  `MaxCombined = 2` combines a combined key, and a group of seven points lets a sum
  reach the neutral element and a key go into a sum twice.  `MaximumAttempts = 2`
  (20 in the code) and draws on both sides of the threshold let a variable succeed
  at once, after a retry, and not at all.  `IntMax = 3` puts one of the thresholds
  beyond an `int`.
* `Script`, `Requests`, `Modulus` and `Vector` of the MC modules name the inputs a
  run uses.

### Fairness

The loops of the estimator, the generators and the two parties of secret sharing are
single threaded and nothing blocks them, so weak fairness of the loop's step is what
running the program gives.  With it `Terminates` holds: the call returns if the function reaches the
target at the largest power of two of the word, and doubles for ever if it does not.  The loops of a merge and of a shuffle run over a fixed range; no liveness is
claimed of them.  In the encrypter every thread gets weak fairness of its own
steps.  `absl::Mutex` does not promise that a particular waiting thread gets the
lock, so the property says only that the call of the holder returns and gives the
mutex back, and that a waiting call lets *some* call in.  The Gaussian noiser has a
loop without a limit; strong fairness of "some draw in range" and of "it is
accepted" stands for their positive probabilities.  The geometric noiser gets
nothing of the kind: it ends because its attempts are counted.  The generator ends
with probability one in the code; the model replaces probability by the condition
`MostlyAccepted` on the stream, which every stream that is not a near-constant
sequence of rejected bytes meets eventually.

## What is proved

Each component has a module of proofs; `FoldLemmas` holds what they share.  Every
invariant of a passing run is the subject of a theorem.  The proofs rest on the
`ASSUME`s of the modules, which TLC evaluates on its instances, and on the
hypotheses named below.

`FoldLemmas`.  The library defines sums over sets and concatenations of
sequences by folds, and its induction theorems cannot be instantiated by the
provers.  But induction can be stated about a *set*: a set of numbers that has 0
and is closed under the successor has every number, and a set of subsets of a
finite set that has each subset all of whose strict subsets it has, has them all.
From these follow that a fold exists and is unique, then how sums behave under
insertion, union, multiples and grouping, how concatenations behave under `Head`,
`Append`, `IsPrefix` and length, and that remainders of sums do not depend on when
they are taken.

### The sketch: `AnySketchProofs`

For every configuration, any number of sketches, items, contributions and merges:

* `TypeCorrect`: `Spec => []TypeOK`, inductive by itself.  A merge in progress
  refers to registers that exist, because a merge only adds.
* `MergeCorrect`: `Spec => []MergeExactlyOnce`, a loop invariant over any order
  of the hash map; a sketch that is merged into itself is part of it.
* `UniqueCorrect`, `SumCorrect` and `ContentCorrect`: `Spec => []UniqueSound`,
  `[]SumConserved` and `[]ContentDecidesRegisters`, under the hypothesis
  `Compatible` that sketches of the same width agree on the aggregators of their
  columns.  The code checks only the width.  The sums need `ContentFinite`, that
  the bags of contributions are finite, and a lemma that the sum of a column over
  the sum of two bags is the sum of the sums; in `Wrapped` the wrapping of
  single steps disappears in the wrapping of the total.  Registers with equal
  contents are equal, because a UNIQUE column is decided by the set and a SUM
  column by the bag of its contributions.
* `IndexesInjective`: `GetIndex` is injective on vectors of any number of indexes
  under `NarrowIndexes`: each index has no more values than those before it have
  together, and the register numbers fit the word.  `OneVectorCorrect`:
  `Spec => []OneVectorPerRegister` under `SameIndexes`, that this holds of every
  sketch and that sketches of equal width have the same indexes.
  `LargerSecondIndexCollides`: with a second index larger than the first,
  `GetIndex` always collides, which is the finding of `index_collision` for every
  size, and why `NarrowIndexes` is needed.
* `CountsTrailingZeros`, for words of up to 64 bits: the six masks find the
  lowest one bit of every number that is not zero.  Isolating that bit leaves one
  of 64 cases, which the solver decides.

### The estimator: `EstimatorsProofs`

For every word, function, rate, precision of doubles and target:

* `TypeCorrect`, `SearchCorrect` and `InverseCorrect` share the invariant
  `VariablesOK /\ (InReach => IInv)`: the types hold for all arguments, and for
  targets in reach `IInv` has the interval `SearchInterval` and bounds on the two
  ends that exclude wrapping (the ends start at powers of two below half the word).
* `EstimateCorrect`: `Spec => []EstimateWithinOne`, from the same invariant,
  `Emptied` (the interval is empty when the search has ended) and `Quotient`.
  `NoUnits` and `TruncatedBetween` say of doubles that a quotient below
  `Precision` is rounded to a multiple of a whole fraction, so that the integers
  on both sides of it are doubles and rounding does not pass them;
  `ToDoubleExact`, that integers below `Precision` are doubles.  Hence the
  preconditions `mid < Precision` and quotient below `Precision` (2^53).

### The encrypter: `SketchEncrypterProofs`

For any number of threads, sketches of any length, any answers of the curve library:

* `TypeCorrect`, `ExclusiveCorrect`, `ScratchCorrect` and `CacheCorrect` are
  conjuncts of one inductive invariant `Inv`: a call that runs holds the
  mutex, so no other call writes the memory of the library between two of its
  steps, so what is stored in a cache is the point of its number, so a hit
  returns what the multiplication would.
* `ClampCorrect`: `Spec => []CountersClamped`, from `Inv` and `ClearInv`, that
  neither the output of a running call nor what it is about to append holds a
  counter outside the range.
* `ServiceInvCorrect`: `Spec => []ServiceInv`.  Its `CallInv` relates every place
  of a running call to the answer of the service: what has been put out, followed
  by what the current run and the jobs that are left will append, is the
  concatenation of the encoded registers; for noise it is whole registers of
  random points.
* `ImplementsService`: `Spec => Implements`, every behaviour of the encrypter is
  one of `EncryptionService`.  A step that answers is a step of the service, by
  `ServiceInv`; a call and the entry into the mutex map to a step or a
  stutter; every other step is a stutter.  The hypothesis `WrapMayFail` says that
  operations of the library may fail where the largest `size_t` may be the
  maximum: with it counters cannot be encrypted and a valid sketch is answered
  with an error, which the service gives only for a failure of the library.
* `ConflictingKeysCorrect`: `Spec => []ConflictingKeysDiffer` if zero is not a
  maximum.  `encrypter_zero_maximum` shows that this hypothesis is needed.

### The generator: `PseudorandomGeneratorProofs`

For any streams, scripts of calls, generators and widths:

* `RequestedCorrect` and `BytesCorrect`, from one invariant `Inv` about the
  locals of a call at each of its places: what it has kept so far is in range and
  not more than was asked for, also where the loop reads beyond its vector.
* `TypeCorrect`: with `ShapeInv`, the positions in the stream and the lengths of
  the batches.  The sample sizes divide by a modulus or its complement, never
  by zero.
* `SameSeedCorrect`: `Spec => []SameSeedSameResults`.  As long as no call may pass
  the bytes it drew (`WithinDraw`), a step of a generator is a function `Succ` of
  its state.  So all generators are on one trajectory of `Succ`, each somewhere
  (`OnTrajectory`), and what they returned they have in common, however their
  steps are interleaved.  A trajectory exists for every length, by induction.
* `RangeFiltersCorrect`: `Spec => []RangeFiltersStream`.  `ReadInv` says of a
  running call how many values of the stream it has read, that it has kept the
  acceptable ones among them, and that the rest of the batch is what follows in
  the stream.  As the stream is periodic, no call reads more than
  `size * Len(stream)` values.  The property has the precondition `Countable`, an
  `int` counts the bytes of each batch: without it the proof failed in the step
  that draws, because a larger batch is encrypted in part or not at all.

### Secret sharing: `SecretSharingProofs`

For any requests, with one hypothesis: `RingsFit`, every modulus needs one byte or
has as many elements as its mask.  `secret_sharing_two_bytes` is what happens
without it.  (`SharingAssumption` says that requests are messages of words; the
module below derives it from the assumptions of `ShareShuffle`.)

* `SharingGenerates`: the dealer and the helper run the generators' `Spec`, so
  everything above holds of them, `SameSeedSameResults` in particular.
* `ReconstructCorrect`: `SharingSpec => []SharesReconstruct`.  `SharesInv` keeps that
  the second share is the difference of the data and of what the dealer's
  generator returned; `SubModAddsBack`: a difference of two ring elements in a
  wrapping `uint32_t` is an element again, and adding back gives what it was
  taken from.
* `FitsCorrect`: the same with the invariant, and that both shares are vectors over
  the ring as long as the data.

### The shuffle, and both together: `ShareShuffleProofs`

The shuffle, for any parties, vectors, elements and seeds:

* `TypeCorrect`: the loop stays inside the vector and its random numbers.
* `RearrangedCorrect`: the vector is a permutation of its input at every
  moment; a swap composes the permutation with a transposition.
* `FailureCorrect`: a call which has not reached the loop has not touched its
  vector, which the histories of the permutations say.
* `SameOrderCorrect`: `Spec => []SameSeedSameOrder`.  The permutation after every
  turn is kept in `orders`; the invariant says that each follows from the one
  before by the swap its random number names (`Histories`), and that two parties
  whose numbers name the same places up to a turn have the same permutation there.
* `SwapsDecideCorrect`: `Spec => []SwapsDecideOrder` if every vector has fewer
  than `RandRange` elements.  The other direction of `Decided`: what a turn has
  settled no later turn moves, so equal results have drawn equal places, from the
  first to the last.  `large_shuffle` shows that the condition is needed.

The composition, under `RingsFit`:

* `SharesCorrect`: `SharedSpec => []SharesReconstruct`.  The variables of sharing
  take only its own steps, so the theorems of `SecretSharingProofs` are cited.
* `ImplementsShuffle`: `SharedSpec => Spec`, so the theorems of the shuffle hold of
  shares.  What a party shuffles is a vector over the ring, by `FitsCorrect`.
* `ShuffledSharesCorrect`: `SharedSpec => []ShuffledSharesReconstruct`.
  `OwnShares`: each party shuffles its own share, both with one seed.  Then
  `SharesReconstruct` and `SameSeedSameOrder` give that the sums are the data in the
  common order.

### The adapter: `SketchEncrypterAdapterProofs`

For any finite set of workers, any keys, requests, options, distributions and limit
of attempts:

* `NoiseCorrect`: `Spec => []NoiseInRange`, whatever int `mu` becomes, for every `p`
  that is a number.  The strengthening `FirstKept` remembers that the first of the two variables was
  within the threshold, and `RequestKept` that the options of a publisher come
  from its request.
* `CombinedCorrect`: `Spec => []CombinedIsSum`.  `KeysInv`: the loop of
  `CombineElGamalPublicKeys` keeps the sum of the prefix it has passed, and
  each key that is known is a valid sum or what a worker published and nobody
  checked yet.  Sums of combined keys regroup to sums over workers.
* `TypeCorrect`, `DecryptCorrect` and `AnswerCorrect`: `[]TypeOK`,
  `[]WorkersCanDecrypt`, `[]SketchThenNoise`.  `ClientInv` says for each place of
  a call what it leaves for the later ones: one call runs at a time, the key
  that encrypts is usable, the noiser was asked with options of the request, an
  answer is the encoded sketch with whole noise registers behind it, and an error
  is empty.  A usable key that is known is the sum of keys with its own generator,
  each as often as it went in, since a key may be combined with itself.

### Only model-checked

All liveness: `Terminates`, `SharingEnds` and the three `CallsReturn`, which need
fairness and `ENABLED`.  The formula of `OneVectorPerRegister` outside
`NarrowIndexes`, that is, whether a particular larger index collides, is what
`index_collision` decides for its sizes.  The runs that show findings.

## Findings

Each of these is shown by a run:

1. `any_sketch.cc:82` (`index_collision`): the multiplier of a later index is the
   product of the sizes of the earlier ones, applied to the accumulated value
   instead of the new one, so vectors of indexes can collide.
2. `any_sketch.cc:117` (`merge_union`): merging adds the SUM columns of sketches that
   have items in common, or of one sketch twice; `any_sketch.h:105` and `:109`
   promise the sketch of the union of the sets.  UNIQUE columns keep that promise.
3. `sketch_encrypter.cc:303` (`encrypter_zero_maximum`): with a maximum of zero the
   two registers that shall conflict are equal.
4. `open_ssl_uniform_random_generator.cc:131` (`prng_large_modulus`): an endless loop
   for moduli above 2^31.
5. `open_ssl_uniform_random_generator.cc:138` (`secret_sharing_two_bytes`): the loop
   counts bytes, not values.
6. `shuffle.cc:46` with `open_ssl_uniform_random_generator.cc:85` (`large_shuffle`):
   the number of random bytes is narrowed to an `int`.  2^28 elements are not
   shuffled, more are shuffled in part, from 2^27 to below 2^28 the call fails.

Three more are written into the models and the properties of passing runs:

* `estimators.cc:53`: the doubling never ends for a target that the function does not
  reach, which is the second half of `Terminates`.  With a decay rate of 60 and 100000
  registers the formula is about 61400 at 2^63, and the assertions admit 70000 active
  registers.
* `sketch_encrypter.cc:384`: the clamp is at the maximum plus one, which is what
  `CountersClamped` says; the private comment of the class says so too, the public
  docs (`sketch_encrypter.h:68`, `sketch_encryption_methods.proto`) say at the maximum.
* `distributed_geometric_noiser.cc:31`: a `p` that is `NaN` passes the check that
  shall keep it between 0 and 1, so `NoiseInRange` and `SketchThenNoise` have to
  exclude it.

## What is not modelled, and why

The estimator's formula, the exponential integral and the noise parameters are
floating point.  AES, the elliptic curve and ElGamal are represented by what
the code relies on: a stream, a point, a ciphertext of a point.  The byte count
in `Encrypt` is an `int` that sizes a reserve.  It overflows for answers of 2 GB; a
negative `int` is then a huge `size_t`, and `reserve` throws `std::length_error`.
The models have neither the length of a ciphertext nor exceptions.  What the
distributions of the standard library return for a probability that is `NaN` is
theirs; the model lets it be any `int`.
The protocol buffers appear as the fields the code
reads.

## How the development is built

The order was: the sketch with its distributions, the encrypter with the service
it implements, the generator and secret sharing, the shuffle, the estimator, the
noisers, the key combiner and the adapter that composes them, the composition of
sharing and shuffle, and then the proofs, component by component.  Each module
was checked before its proofs were written, and the inductive invariants are the
properties of the runs together with the strengthenings named above.

What could still be added: that `SketchEncrypterAdapter` with the detailed
encrypter in place of `EncryptionService` has the properties of the adapter, which
follows informally from `ImplementsService`; the converse of `NarrowIndexes` for
more than two indexes.  The destroyed register after encryption is handled by
the Same Key Aggregation of the workers, which is outside this repository and
only represented by the property that conflicting registers differ.
