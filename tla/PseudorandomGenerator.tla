----------------------- MODULE PseudorandomGenerator -----------------------
(***************************************************************************)
(* math/open_ssl_uniform_random_generator.cc: generators of pseudorandom   *)
(* bytes and of uniform numbers by rejection sampling.  All generators of  *)
(* the model were created from one seed, so they read the same stream of   *)
(* bytes, each at a position of its own, and they run the same script of   *)
(* calls, as the parties do that expand a shared seed.                     *)
(*                                                                         *)
(* A byte has ByteBits bits and an unsigned int WordBits bits.  The        *)
(* stream repeats after a few bytes, which bounds the model.  The doubles  *)
(* of the sample sizes are exact fractions here.                           *)
(***************************************************************************)
EXTENDS Integers, Sequences, SequencesExt

CONSTANTS
    Generator,   \* the generators created from the seed
    Stream,      \* the byte streams a seed may stand for, one period each
    Script,      \* the sequences of calls: [op, size, modulus]
    ByteBits,    \* 8 in the code
    WordBits     \* 32 in the code

Byte == 0 .. 2 ^ ByteBits - 1
Word == 2 ^ WordBits

ASSUME GeneratorAssumption ==
    /\ ByteBits \in Nat \ {0} /\ WordBits \in Nat \ {0} /\ Word \in Nat \ {0}
    /\ Stream \subseteq Seq(Byte) \ {<< >>}
    /\ Script \subseteq Seq([op : {"bytes", "range", "nonzero"}, size : Int,
                             modulus : 0 .. Word - 1])

\* Facts about powers that the provers do not know.
ASSUME PowerAssumption ==
    /\ 2 ^ ByteBits \in Nat \ {0}
    /\ \A b \in 0 .. WordBits : 2 ^ b \in Nat \ {0}
    /\ \A b \in 1 .. WordBits : 2 ^ b = 2 * 2 ^ (b - 1)

VARIABLES
    stream, script,   \* chosen at the start
    gen               \* gen[g]: the state of generator g and of its call

vars == <<stream, script, gen>>
-----------------------------------------------------------------------------
(***************************************************************************)
(* The arithmetic of GenerateUniformRandomRange.                           *)
(***************************************************************************)
Smaller(a, b) == IF a <= b THEN a ELSE b
Truncate(n, d) == IF n * d >= 0 THEN (n * d) \div (d * d) ELSE -((-n * d) \div (d * d))

\* ceil(log2(modulus))
BitLength(modulus) ==
    CHOOSE b \in 0 .. WordBits :
        2 ^ b >= modulus /\ \A c \in 0 .. b - 1 : 2 ^ c < modulus

BytesPerValue(modulus) == (BitLength(modulus) + ByteBits - 1) \div ByteBits

(***************************************************************************)
(* 1 << bit_length in an int.  One bit short of the width it is the        *)
(* smallest int; a shift by the whole width is undefined, and x86 and Arm  *)
(* take the count modulo the width.                                        *)
(***************************************************************************)
Shifted(b) ==
    IF b = WordBits THEN 1
    ELSE IF b = WordBits - 1 THEN -(2 ^ b) ELSE 2 ^ b

\* mask + 1; temp &= mask is temp modulo that.
MaskRange(modulus) == ((Shifted(BitLength(modulus)) - 1) % Word) + 1

\* Mutant of Wanted: only as many values as are expected to fail.
NoneWanted(current_size) == 0
Wanted(current_size) == current_size + 1

\* failure_rate = ((1 << bit_length) - modulus) / (1 << bit_length), where the
\* difference is unsigned; failure_rate / (1 - failure_rate) = n / (d - n).
SampleSize(current_size, modulus) ==
    LET d == Shifted(BitLength(modulus))
        n == (d - modulus) % Word IN
    Truncate(Wanted(current_size) * (d - n) + n * current_size, d - n)

\* failure_rate = 1 / modulus
NonZeroSampleSize(current_size, modulus) ==
    Wanted(current_size) + current_size \div (modulus - 1)

\* The value of bytes i * bytes_per_value ... of arr, most significant first.
ValueAt(arr, i, modulus) ==
    LET bytes == SubSeq(arr, i * BytesPerValue(modulus) + 1, (i + 1) * BytesPerValue(modulus))
    IN  FoldLeft(LAMBDA temp, byte : temp * 2 ^ ByteBits + byte, 0, bytes)
            % MaskRange(modulus)
-----------------------------------------------------------------------------
OK(values) == [status |-> "Ok", values |-> values]
InvalidArgument == [status |-> "InvalidArgument", values |-> << >>]
Internal == [status |-> "Internal", values |-> << >>]

\* pc: idle, range (the while), sample (its for), nonzero (the outer while),
\* filter (its for).
\* size and ret belong to GenerateUniformRandomRange, outer is the ret of
\* GenerateNonZeroUniformRandomRange; from is history, the position in the
\* stream at which the call began.
Start == [pc |-> "idle", pos |-> 0, from |-> 0, size |-> 0, arr |-> << >>,
          i |-> 0, ret |-> << >>, outer |-> << >>, done |-> << >>]

Init ==
    /\ stream \in Stream /\ script \in Script
    /\ gen = [g \in Generator |-> Start]

At(g, pc) == gen[g].pc = pc
Pending(g) == Len(gen[g].done) < Len(script)
Call(g) == script[Len(gen[g].done) + 1]
Step(g, state) == gen' = [gen EXCEPT ![g] = state] /\ UNCHANGED <<stream, script>>

\* n bytes of the stream from pos, and the position after them.
Take(pos, n) == [k \in 1 .. n |-> stream[((pos + k - 1) % Len(stream)) + 1]]
\* Mutant of Advance: a byte is lost between two batches.
AdvanceOneMore(pos, n) == (pos + n + 1) % Len(stream)

Advance(pos, n) == (pos + n) % Len(stream)

(***************************************************************************)
(* The size reaches OpenSSL as an int: only what is left of it modulo the  *)
(* width is encrypted, the rest of the vector keeps its zeros, and what is *)
(* negative as an int is an error.                                         *)
(***************************************************************************)
Filled(n) == n % Word
TooManyBytes(n) == 2 * Filled(n) >= Word

\* Mutant of Zeros: the vector has only the bytes that were encrypted.
NoZeros(n) == << >>
Zeros(n) == [k \in 1 .. n |-> 0]
Encrypted(pos, n) == Take(pos, Filled(n)) \o Zeros(n - Filled(n))

\* The call returns: what it kept in its locals is gone.
Respond(g, pos, result) ==
    Step(g, [Start EXCEPT !.pos = pos, !.from = pos,
               !.done = Append(gen[g].done, [from |-> gen[g].from, result |-> result])])

\* What GeneratePseudorandomBytes returns if it fails.
BytesError(n) == IF n < 0 THEN InvalidArgument ELSE Internal
BytesFail(n) == n < 0 \/ TooManyBytes(n)

\* A whole call of GeneratePseudorandomBytes.
GeneratePseudorandomBytes(g) ==
    /\ At(g, "idle") /\ Pending(g) /\ Call(g).op = "bytes"
    /\ LET n == Call(g).size IN
       IF BytesFail(n) THEN Respond(g, gen[g].pos, BytesError(n))
       ELSE Respond(g, Advance(gen[g].pos, Filled(n)), OK(Encrypted(gen[g].pos, n)))

InvalidCall(g) ==
    /\ At(g, "idle") /\ Pending(g) /\ Call(g).op # "bytes"
    /\ Call(g).modulus <= 1 \/ Call(g).size < 0
    /\ Respond(g, gen[g].pos, InvalidArgument)

Begin(g) ==
    /\ At(g, "idle") /\ Pending(g) /\ Call(g).op # "bytes"
    /\ Call(g).modulus > 1 /\ Call(g).size >= 0
    /\ Step(g, [gen[g] EXCEPT !.pc = Call(g).op, !.size = Call(g).size])

\* The head of the while loop: the bytes for all values still missing.
DrawSamples(g) ==
    /\ At(g, "range") /\ Len(gen[g].ret) < gen[g].size
    /\ LET modulus == Call(g).modulus
           n == SampleSize(gen[g].size - Len(gen[g].ret), modulus) * BytesPerValue(modulus) IN
       IF BytesFail(n) THEN Respond(g, gen[g].pos, BytesError(n))
       ELSE Step(g, [gen[g] EXCEPT !.pc = "sample", !.i = 0, !.arr = Encrypted(gen[g].pos, n),
                       !.pos = Advance(gen[g].pos, Filled(n))])

\* Mutants of Sampling: no break when there are enough values; one turn more.
SamplingWithoutBreak(g) == At(g, "sample") /\ gen[g].i < Len(gen[g].arr)

SamplingOneMore(g) ==
    At(g, "sample") /\ gen[g].i <= Len(gen[g].arr) /\ Len(gen[g].ret) < gen[g].size

Sampling(g) == At(g, "sample") /\ gen[g].i < Len(gen[g].arr) /\ Len(gen[g].ret) < gen[g].size

\* Mutant of Acceptable: the modulus itself is accepted.
AcceptableModulus(modulus) == 0 .. modulus
Acceptable(modulus) == 0 .. modulus - 1

Keep(g, temp) ==
    Step(g, [gen[g] EXCEPT !.i = @ + 1,
               !.ret = IF temp \in Acceptable(Call(g).modulus) THEN Append(@, temp) ELSE @])

\* One turn of the for loop, which counts i up to the number of BYTES drawn.
Sample(g) ==
    /\ Sampling(g)
    /\ (gen[g].i + 1) * BytesPerValue(Call(g).modulus) <= Len(gen[g].arr)
    /\ Keep(g, ValueAt(gen[g].arr, gen[g].i, Call(g).modulus))

\* With several bytes per value the for loop may pass the last value it drew:
\* it then reads what follows the vector in memory.
SampleBeyond(g) ==
    /\ Sampling(g)
    /\ (gen[g].i + 1) * BytesPerValue(Call(g).modulus) > Len(gen[g].arr)
    /\ \E temp \in 0 .. MaskRange(Call(g).modulus) - 1 : Keep(g, temp)

EndSamples(g) ==
    /\ At(g, "sample")
    /\ gen[g].i >= Len(gen[g].arr) \/ Len(gen[g].ret) >= gen[g].size
    /\ Step(g, [gen[g] EXCEPT !.pc = "range", !.arr = << >>, !.i = 0])

RangeFull(g) == At(g, "range") /\ Len(gen[g].ret) >= gen[g].size

RangeReturn(g) ==
    /\ RangeFull(g) /\ Call(g).op = "range"
    /\ Respond(g, gen[g].pos, OK(gen[g].ret))

\* Back in GenerateNonZeroUniformRandomRange with the values to filter.
NonZeroSamples(g) ==
    /\ RangeFull(g) /\ Call(g).op = "nonzero"
    /\ Step(g, [gen[g] EXCEPT !.pc = "filter", !.i = 0])

Filtering(g) ==
    At(g, "filter") /\ gen[g].i < Len(gen[g].ret) /\ Len(gen[g].outer) < Call(g).size

NonZeroKeep(g) ==
    /\ Filtering(g)
    /\ LET v == gen[g].ret[gen[g].i + 1] IN
       Step(g, [gen[g] EXCEPT !.i = @ + 1, !.outer = IF v > 0 THEN Append(@, v) ELSE @])

NonZeroEnd(g) ==
    /\ At(g, "filter") /\ ~Filtering(g)
    /\ Step(g, [gen[g] EXCEPT !.pc = "nonzero", !.i = 0])

NonZeroDraw(g) ==
    /\ At(g, "nonzero") /\ Len(gen[g].outer) < Call(g).size
    /\ Step(g, [gen[g] EXCEPT !.pc = "range", !.ret = << >>,
                  !.size = NonZeroSampleSize(Call(g).size - Len(gen[g].outer), Call(g).modulus)])

NonZeroReturn(g) ==
    /\ At(g, "nonzero") /\ Len(gen[g].outer) >= Call(g).size
    /\ Respond(g, gen[g].pos, OK(gen[g].outer))

GeneratorStep(g) ==
    \/ GeneratePseudorandomBytes(g) \/ InvalidCall(g) \/ Begin(g)
    \/ DrawSamples(g) \/ Sample(g) \/ SampleBeyond(g) \/ EndSamples(g) \/ RangeReturn(g)
    \/ NonZeroSamples(g) \/ NonZeroKeep(g) \/ NonZeroEnd(g) \/ NonZeroDraw(g) \/ NonZeroReturn(g)

Next == \E g \in Generator : GeneratorStep(g)

Spec == Init /\ [][Next]_vars

\* Each generator is used by one thread, which nothing blocks.
FairSpec == Spec /\ \A g \in Generator : WF_vars(GeneratorStep(g))
-----------------------------------------------------------------------------
(***************************************************************************)
(* Properties.                                                             *)
(***************************************************************************)
Done(g) == DOMAIN gen[g].done
ResultOf(g, k) == gen[g].done[k].result

\* The call that g has just returned from, if any.
Returned(g) == {k \in Done(g) : At(g, "idle") /\ k = Len(gen[g].done)}

\* Type invariant.
TypeOK ==
    /\ stream \in Stream
    /\ \A g \in Generator :
          /\ gen[g].pc \in {"idle", "range", "sample", "nonzero", "filter"}
          /\ gen[g].pos \in 0 .. Len(stream) - 1
          /\ gen[g].arr \in Seq(Byte)
          /\ gen[g].i \in 0 .. Len(IF At(g, "filter") THEN gen[g].ret ELSE gen[g].arr)
          /\ Len(gen[g].ret) <= gen[g].size
          /\ gen[g].outer \in Seq(0 .. Word - 1)

(***************************************************************************)
(* A call that succeeds returns exactly `size` bytes or values, these all  *)
(* in [0, modulus) or [1, modulus) (open_ssl_uniform_random_generator.h:90 *)
(* to 98), whatever is rejected on the way.                                *)
(***************************************************************************)
Asked(call) == (IF call.op = "nonzero" THEN 1 ELSE 0) .. call.modulus - 1

AsRequested(call, result) ==
    result.status = "Ok" =>
        /\ Len(result.values) = call.size
        /\ call.op # "bytes" => \A i \in 1 .. call.size : result.values[i] \in Asked(call)

RequestedValues ==
    \A g \in Generator : \A k \in Returned(g) : AsRequested(script[k], ResultOf(g, k))

\* No call of the script so far can pass the bytes it drew: they need one byte
\* per value, or every value of the mask is accepted.
WithinDraw(k) ==
    \A j \in 1 .. k : script[j].op = "bytes" \/ script[j].modulus <= 1 \/
        \/ BytesPerValue(script[j].modulus) = 1
        \/ MaskRange(script[j].modulus) = script[j].modulus

(***************************************************************************)
(* Two generators with the same key and IV produce the same sequences, as  *)
(* the tests of open_ssl_uniform_random_generator_test.cc expect and as    *)
(* every holder of a seed relies on.  WithinDraw marks where the for loop, *)
(* which counts bytes, is the loop over values that it is meant to be.     *)
(***************************************************************************)
SameSeedSameResults ==
    \A g, h \in Generator : \A k \in Done(g) \cap Done(h) :
        WithinDraw(k) => gen[g].done[k] = gen[h].done[k]

\* The values of the stream from a position, read one after the other.
SampleAt(from, k, modulus) ==
    ValueAt(Take(from + (k - 1) * BytesPerValue(modulus), BytesPerValue(modulus)), 0, modulus)

AcceptedOf(from, n, modulus) == {k \in 1 .. n : SampleAt(from, k, modulus) < modulus}

\* values are the acceptable ones among the first n, in their order.
Filtered(values, from, n, modulus) ==
    /\ Len(values) = Cardinality(AcceptedOf(from, n, modulus))
    /\ \A k \in AcceptedOf(from, n, modulus) :
          values[Cardinality(AcceptedOf(from, k, modulus))] = SampleAt(from, k, modulus)

\* An int counts the bytes of every batch that the call may draw.
Countable(call) ==
    \A missing \in 1 .. call.size :
        2 * (SampleSize(missing, call.modulus) * BytesPerValue(call.modulus)) < Word

(***************************************************************************)
(* GenerateUniformRandomRange returns the first `size` acceptable values   *)
(* of the stream: the batches it draws, sized by an expectation, and their *)
(* retries neither skip, repeat nor reorder anything within a call.  (Of a *)
(* batch that an int cannot count only a part is encrypted.)               *)
(***************************************************************************)
RangeFiltersStream ==
    \A g \in Generator : \A k \in Returned(g) :
        /\ script[k].op = "range" /\ ResultOf(g, k).status = "Ok"
        /\ WithinDraw(k) /\ Countable(script[k])
        => \E n \in 0 .. script[k].size * Len(stream) :
               Filtered(ResultOf(g, k).values, gen[g].done[k].from, n, script[k].modulus)

(***************************************************************************)
(* GeneratePseudorandomBytes returns the bytes of the stream where the     *)
(* last call has stopped and stops right behind them, if their number is   *)
(* an int.                                                                 *)
(***************************************************************************)
BytesAreStream ==
    \A g \in Generator : \A k \in Returned(g) :
        script[k].op = "bytes" /\ 2 * script[k].size < Word /\ ResultOf(g, k).status = "Ok" =>
            /\ ResultOf(g, k).values = Take(gen[g].done[k].from, script[k].size)
            /\ gen[g].pos = (gen[g].done[k].from + script[k].size) % Len(stream)

Rejects(call, v) == v >= call.modulus \/ (call.op = "nonzero" /\ v = 0)

\* Of the values that begin within a period of the stream, every call rejects
\* at most one.  (In the code almost every stream accepts often enough.)
MostlyAccepted ==
    \A k \in DOMAIN script :
        script[k].op # "bytes" /\ script[k].modulus > 1 =>
            \A p, q \in 0 .. Len(stream) - 1 :
                LET v(from) == SampleAt(from, 1, script[k].modulus) IN
                Rejects(script[k], v(p)) /\ Rejects(script[k], v(q)) => p = q

\* Every call returns on a stream that does not reject almost everything.
CallsReturn == MostlyAccepted => \A g \in Generator : <>(~Pending(g))
=============================================================================
