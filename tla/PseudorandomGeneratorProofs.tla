-------------------- MODULE PseudorandomGeneratorProofs --------------------
(***************************************************************************)
(* What a call of the pseudorandom generator returns, for every stream,    *)
(* script of calls and width: the sample sizes and what lies beyond a      *)
(* vector have no influence on it.                                         *)
(***************************************************************************)
EXTENDS PseudorandomGenerator, FoldLemmas

CallType == [op : {"bytes", "range", "nonzero"}, size : Int, modulus : 0 .. Word - 1]
Below(call) == 0 .. call.modulus - 1

\* A call in progress is one of the script, and what it has kept is acceptable
\* and not more than it asked for.
InCall(s) ==
    LET call == script[Len(s.done) + 1] IN
    /\ Len(s.done) < Len(script)
    /\ call.op \in {"range", "nonzero"}
    /\ s.i \in Nat
    /\ s.ret \in Seq(Below(call))
    /\ s.outer \in Seq(1 .. call.modulus - 1)
    /\ call.op = "range" =>
          s.pc \in {"range", "sample"} /\ s.size = call.size /\ Len(s.ret) <= s.size
    /\ call.op = "nonzero" => Len(s.outer) <= call.size

\* Between calls; the bytes of the last one are those where the call began.
Stays(call, s, done) ==
    call.op = "bytes" /\ 2 * call.size < Word /\ done.result.status = "Ok" =>
        /\ done.result.values = Take(done.from, call.size)
        /\ s.pos = (done.from + call.size) % Len(stream)

BetweenCalls(s) ==
    /\ s.from = s.pos /\ s.i = 0 /\ s.ret = << >> /\ s.outer = << >>
    /\ Len(s.done) > 0 => Stays(script[Len(s.done)], s, s.done[Len(s.done)])

IsTuple(s) == Len(s) \in Nat /\ s = [k \in 1 .. Len(s) |-> s[k]]

Fields == {"pc", "pos", "from", "size", "arr", "i", "ret", "outer", "done"}

StateInv(s) ==
    /\ DOMAIN s = Fields
    /\ s.pc \in {"idle", "range", "sample", "nonzero", "filter"}
    /\ IsTuple(s.done)
    /\ Len(s.done) <= Len(script)
    /\ \A k \in 1 .. Len(s.done) : AsRequested(script[k], s.done[k].result)
    /\ s.pc = "idle" => BetweenCalls(s)
    /\ s.pc # "idle" => InCall(s)

Inv ==
    /\ script \in Seq(CallType) /\ DOMAIN gen = Generator
    /\ \A g \in Generator : StateInv(gen[g])

LEMMA InitInv == Init => Inv
<1> SUFFICES ASSUME Init PROVE Inv
  OBVIOUS
<1>1. script \in Seq(CallType)
  BY GeneratorAssumption DEF Init, CallType
<1>2. DOMAIN Start = Fields /\ Start.pc = "idle" /\ Start.done = << >> /\ BetweenCalls(Start)
  BY DEF Start, Fields, BetweenCalls
<1>3. Len(script) \in Nat
  BY <1>1
<1>4. StateInv(Start)
  BY <1>2, <1>3 DEF StateInv, IsTuple
<1>5. QED  BY <1>1, <1>4 DEF Init, Inv

\* A step of one generator changes nothing else.
LEMMA StepKeeps ==
    ASSUME Inv, NEW g \in Generator, NEW s, Step(g, s), StateInv(s)
    PROVE  Inv'
<1>1. script' = script /\ stream' = stream /\ gen' = [gen EXCEPT ![g] = s]
  BY DEF Step
<1>2. script' \in Seq(CallType) /\ DOMAIN gen' = Generator
  BY <1>1 DEF Inv
<1>3. ASSUME NEW h \in Generator PROVE StateInv(gen[h])'
  <2>1. PICK x : gen'[h] = x /\ StateInv(x)
    <3>1. CASE h = g
      BY <1>1, <3>1 DEF Inv
    <3>2. CASE h # g
      BY <1>1, <3>2 DEF Inv
    <3>3. QED  BY <3>1, <3>2
  <2>2. \A p, k : Take(p, k)' = Take(p, k)
    BY <1>1 DEF Take
  <2>3. BetweenCalls(x) => BetweenCalls(gen[h])'
    BY <1>1, <2>1, <2>2 DEF BetweenCalls, Stays
  <2>4. InCall(x) => InCall(gen[h])'
    BY <1>1, <2>1 DEF InCall
  <2>5. QED  BY <1>1, <2>1, <2>3, <2>4 DEF StateInv
<1>4. QED  BY <1>2, <1>3 DEF Inv

LEMMA FunctionIsSequence ==
    ASSUME NEW S, NEW n \in Nat, NEW f \in [1 .. n -> S]
    PROVE  f \in Seq(S) /\ Len(f) = n
OBVIOUS

\* What is known of a generator in a call.
LEMMA CallOfScript ==
    ASSUME Inv, NEW g \in Generator, Pending(g)
    PROVE  /\ StateInv(gen[g]) /\ Call(g) \in CallType
           /\ Call(g) = script[Len(gen[g].done) + 1] /\ Len(gen[g].done) < Len(script)
<1>1. StateInv(gen[g]) /\ script \in Seq(CallType)
  BY DEF Inv
<1>2. Len(gen[g].done) + 1 \in 1 .. Len(script)
  BY <1>1 DEF Pending, StateInv, IsTuple
<1>3. script[Len(gen[g].done) + 1] \in CallType
  <2> HIDE DEF CallType
  <2> QED  BY <1>1, <1>2
<1>4. QED  BY <1>1, <1>3 DEF Call, Pending

LEMMA RespondKeeps ==
    ASSUME Inv, NEW g \in Generator, Pending(g), NEW pos, NEW result, Respond(g, pos, result),
           AsRequested(Call(g), result),
           Call(g).op = "bytes" /\ 2 * Call(g).size < Word /\ result.status = "Ok" =>
               /\ result.values = Take(gen[g].from, Call(g).size)
               /\ pos = (gen[g].from + Call(g).size) % Len(stream)
    PROVE  Inv'
<1> DEFINE old == gen[g].done
           entry == [from |-> gen[g].from, result |-> result]
           s == [Start EXCEPT !.pos = pos, !.from = pos, !.done = Append(old, entry)]
<1>1. /\ StateInv(gen[g]) /\ Call(g) = script[Len(old) + 1] /\ Len(old) < Len(script)
  BY CallOfScript
<1>2. Len(old) \in Nat /\ old = [k \in 1 .. Len(old) |-> old[k]]
  BY <1>1 DEF StateInv, IsTuple
<1>3. /\ DOMAIN s = Fields /\ s.pc = "idle" /\ s.pos = pos /\ s.from = pos
      /\ s.i = 0 /\ s.ret = << >> /\ s.outer = << >> /\ s.done = Append(old, entry)
  BY DEF Start, Fields
<1>4. /\ Len(s.done) = Len(old) + 1 /\ DOMAIN s.done = 1 .. Len(old) + 1
      /\ s.done[Len(old) + 1] = entry
      /\ \A k \in 1 .. Len(old) : s.done[k] = old[k]
  <2>1. old \in Seq({old[k] : k \in 1 .. Len(old)} \cup {entry})
    <3>1. old \in [1 .. Len(old) -> {old[k] : k \in 1 .. Len(old)} \cup {entry}]
      BY <1>2, Zenon
    <3>2. QED  BY <1>2, <3>1, FunctionIsSequence
  <2>2. QED  BY <1>2, <1>3, <2>1
<1>5. \A k \in 1 .. Len(s.done) : AsRequested(script[k], s.done[k].result)
  BY <1>1, <1>2, <1>4 DEF StateInv
<1>6. BetweenCalls(s)
  BY <1>1, <1>2, <1>3, <1>4 DEF BetweenCalls, Stays
<1>7. Len(script) \in Nat
  BY DEF Inv
<1>8. StateInv(s)
  <2>1. IsTuple(s.done)
    BY <1>2, <1>3, <1>4 DEF IsTuple
  <2>2. QED  BY <1>1, <1>2, <1>3, <1>4, <1>5, <1>6, <1>7, <2>1 DEF StateInv
<1>9. QED  BY <1>8, StepKeeps DEF Respond

\* A step within a call: what it leaves is proper.
LEMMA InCallKeeps ==
    ASSUME Inv, NEW g \in Generator, Pending(g), NEW s, Step(g, s),
           DOMAIN s = Fields, s.done = gen[g].done,
           s.pc \in {"range", "sample", "nonzero", "filter"}, InCall(s)
    PROVE  Inv'
<1>1. StateInv(gen[g])
  BY CallOfScript
<1>2. StateInv(s)
  BY <1>1 DEF StateInv
<1>3. QED  BY <1>2, StepKeeps

\* A call that fails returns no values.
LEMMA FailureKeeps ==
    ASSUME Inv, NEW g \in Generator, Pending(g), NEW pos, NEW result, result.status # "Ok",
           Respond(g, pos, result)
    PROVE  Inv'
BY RespondKeeps DEF AsRequested

LEMMA BytesErrorIsError == \A n : BytesError(n).status # "Ok"
BY DEF BytesError, InvalidArgument, Internal

\* The whole vector of a bytes call.
LEMMA EncryptedBytes ==
    ASSUME NEW n \in Nat, NEW pos
    PROVE  /\ Len(Encrypted(pos, n)) = n
           /\ 2 * n < Word => Encrypted(pos, n) = Take(pos, n) /\ Filled(n) = n
<1>1. Filled(n) \in 0 .. n /\ (2 * n < Word => Filled(n) = n)
  BY GeneratorAssumption DEF Filled
<1> DEFINE S0 == {stream[((pos + k - 1) % Len(stream)) + 1] : k \in 1 .. n} \cup {0}
<1>2. \A m \in 0 .. n : Take(pos, m) \in Seq(S0) /\ Len(Take(pos, m)) = m
  <2>1. ASSUME NEW m \in 0 .. n PROVE Take(pos, m) \in [1 .. m -> S0]
    BY DEF Take
  <2>2. QED
    <3> HIDE DEF S0
    <3> QED  BY <2>1, FunctionIsSequence
<1>3. \A m \in 0 .. n : Zeros(m) \in Seq(S0) /\ Len(Zeros(m)) = m
  <2>1. ASSUME NEW m \in 0 .. n PROVE Zeros(m) \in [1 .. m -> S0]
    BY DEF Zeros
  <2>2. QED
    <3> HIDE DEF S0
    <3> QED  BY <2>1, FunctionIsSequence
<1> HIDE DEF S0
<1>4. Len(Encrypted(pos, n)) = n
  <2>1. PICK m \in 0 .. n : m = Filled(n)
    BY <1>1
  <2>2. n - m \in 0 .. n
    BY <2>1
  <2>3. Len(Take(pos, m) \o Zeros(n - m)) = m + (n - m)
    BY <1>2, <1>3, <2>2
  <2>4. QED  BY <2>1, <2>3 DEF Encrypted
<1>5. ASSUME 2 * n < Word PROVE Encrypted(pos, n) = Take(pos, n)
  <2>1. Encrypted(pos, n) = Take(pos, n) \o Zeros(0)
    BY <1>1, <1>5 DEF Encrypted
  <2>2. Zeros(0) = << >>
    BY DEF Zeros
  <2>3. QED  BY <1>2, <2>1, <2>2
<1>6. QED  BY <1>1, <1>4, <1>5

LEMMA BytesStep ==
    ASSUME Inv, NEW g \in Generator, GeneratePseudorandomBytes(g)
    PROVE  Inv'
<1> DEFINE n == Call(g).size
           result == OK(Encrypted(gen[g].pos, n))
<1>1. /\ Pending(g) /\ Call(g) \in CallType /\ Call(g).op = "bytes"
      /\ gen[g].from = gen[g].pos
  BY CallOfScript DEF GeneratePseudorandomBytes, At, StateInv, BetweenCalls
<1>2. CASE BytesFail(n)
  <2>1. Respond(g, gen[g].pos, BytesError(n))
    BY <1>2 DEF GeneratePseudorandomBytes
  <2>2. QED  BY <1>1, <2>1, FailureKeeps, BytesErrorIsError
<1>3. CASE ~BytesFail(n)
  <2>1. n \in Nat
    BY <1>1, <1>3 DEF CallType, BytesFail
  <2>2. Respond(g, Advance(gen[g].pos, Filled(n)), result)
    BY <1>3 DEF GeneratePseudorandomBytes
  <2>3. AsRequested(Call(g), result)
    BY <1>1, <2>1, EncryptedBytes DEF AsRequested, OK
  <2>4. 2 * n < Word => /\ result.values = Take(gen[g].from, n)
                        /\ Advance(gen[g].pos, Filled(n)) = (gen[g].from + n) % Len(stream)
    BY <1>1, <2>1, EncryptedBytes DEF OK, Advance
  <2>5. QED  BY <1>1, <2>2, <2>3, <2>4, RespondKeeps
<1>4. QED  BY <1>2, <1>3

LEMMA InvalidStep ==
    ASSUME Inv, NEW g \in Generator, InvalidCall(g)
    PROVE  Inv'
BY FailureKeeps DEF InvalidCall, InvalidArgument

\* What holds in the middle of a call.
LEMMA WithinCall ==
    ASSUME Inv, NEW g \in Generator, ~At(g, "idle")
    PROVE  /\ Pending(g) /\ Call(g) \in CallType /\ Call(g).op \in {"range", "nonzero"}
           /\ DOMAIN gen[g] = Fields /\ gen[g].i \in Nat
           /\ gen[g].ret \in Seq(Below(Call(g)))
           /\ gen[g].outer \in Seq(1 .. Call(g).modulus - 1)
           /\ Call(g).op = "range" =>
                 /\ gen[g].pc \in {"range", "sample"} /\ gen[g].size = Call(g).size
                 /\ Len(gen[g].ret) <= gen[g].size
           /\ Call(g).op = "nonzero" => Len(gen[g].outer) <= Call(g).size
<1>1. StateInv(gen[g]) /\ InCall(gen[g])
  BY DEF Inv, StateInv, At
<1>2. Pending(g)
  BY <1>1 DEF InCall, Pending
<1>3. QED  BY <1>1, <1>2, CallOfScript DEF InCall, StateInv

LEMMA BeginStep ==
    ASSUME Inv, NEW g \in Generator, Begin(g)
    PROVE  Inv'
<1> DEFINE s == [gen[g] EXCEPT !.pc = Call(g).op, !.size = Call(g).size]
<1>1. /\ Pending(g) /\ Call(g) \in CallType /\ StateInv(gen[g]) /\ BetweenCalls(gen[g])
      /\ Call(g) = script[Len(gen[g].done) + 1] /\ Len(gen[g].done) < Len(script)
  BY CallOfScript DEF Begin, At, StateInv
<1>2. /\ DOMAIN s = Fields /\ s.pc = Call(g).op /\ s.size = Call(g).size
      /\ s.done = gen[g].done /\ s.i = 0 /\ s.ret = << >> /\ s.outer = << >>
  BY <1>1 DEF StateInv, Fields, BetweenCalls
<1>3. Call(g).op \in {"range", "nonzero"} /\ Call(g).size >= 0
  BY <1>1 DEF Begin, CallType
<1>4. InCall(s)
  <2>1. /\ << >> \in Seq(Below(Call(g))) /\ << >> \in Seq(1 .. Call(g).modulus - 1)
        /\ Len(<< >>) = 0 /\ 0 <= Call(g).size /\ 0 \in Nat
    BY <1>3, <1>1 DEF CallType
  <2>2. /\ s.ret \in Seq(Below(Call(g))) /\ s.outer \in Seq(1 .. Call(g).modulus - 1)
        /\ Len(s.ret) <= Call(g).size /\ Len(s.outer) <= Call(g).size /\ s.i \in Nat
    BY <1>2, <2>1, Zenon
  <2>3. QED  BY <1>1, <1>2, <1>3, <2>2, Zenon DEF InCall
<1>5. Step(g, s)
  BY DEF Begin
<1>6. QED  BY <1>1, <1>2, <1>3, <1>4, <1>5, InCallKeeps

\* The steps that leave what was kept as it is.
LEMMA KeptAlone ==
    ASSUME Inv, NEW g \in Generator, ~At(g, "idle"), NEW s, Step(g, s), DOMAIN s = Fields,
           s.done = gen[g].done, s.ret = gen[g].ret, s.outer = gen[g].outer,
           s.size = gen[g].size, s.i \in Nat, s.pc \in {"range", "sample", "nonzero", "filter"},
           Call(g).op = "range" => s.pc \in {"range", "sample"}
    PROVE  Inv'
<1>1. InCall(s)
  BY WithinCall, CallOfScript DEF InCall
<1>2. QED  BY <1>1, WithinCall, InCallKeeps

LEMMA DrawStep ==
    ASSUME Inv, NEW g \in Generator, DrawSamples(g)
    PROVE  Inv'
<1> DEFINE modulus == Call(g).modulus
           n == SampleSize(gen[g].size - Len(gen[g].ret), modulus) * BytesPerValue(modulus)
           s == [gen[g] EXCEPT !.pc = "sample", !.i = 0, !.arr = Encrypted(gen[g].pos, n),
                               !.pos = Advance(gen[g].pos, Filled(n))]
<1>1. ~At(g, "idle") /\ Pending(g) /\ DOMAIN gen[g] = Fields
  <2>1. ~At(g, "idle")
    BY DEF DrawSamples, At
  <2>2. QED  BY <2>1, WithinCall
<1>2. CASE Respond(g, gen[g].pos, BytesError(n))
  BY <1>1, <1>2, FailureKeeps, BytesErrorIsError
<1>3. CASE Step(g, s)
  <2>1. /\ DOMAIN s = Fields /\ s.done = gen[g].done /\ s.ret = gen[g].ret
        /\ s.outer = gen[g].outer /\ s.size = gen[g].size /\ s.i \in Nat /\ s.pc = "sample"
    BY <1>1 DEF Fields
  <2>2. QED  BY <1>1, <1>3, <2>1, KeptAlone
<1>4. QED  BY <1>2, <1>3 DEF DrawSamples

LEMMA AppendInSeq ==
    ASSUME NEW S, NEW r \in Seq(S), NEW x \in S
    PROVE  Append(r, x) \in Seq(S) /\ Len(Append(r, x)) = Len(r) + 1 /\ Len(r) \in Nat
OBVIOUS

LEMMA SampleStep ==
    ASSUME Inv, NEW g \in Generator, Sample(g) \/ SampleBeyond(g)
    PROVE  Inv'
<1>1. PICK temp : Sampling(g) /\ Keep(g, temp)
  BY DEF Sample, SampleBeyond
<1> DEFINE ret == IF temp \in Acceptable(Call(g).modulus) THEN Append(gen[g].ret, temp)
                  ELSE gen[g].ret
           s == [gen[g] EXCEPT !.i = @ + 1, !.ret = ret]
<1>2. At(g, "sample") /\ ~At(g, "idle") /\ Len(gen[g].ret) < gen[g].size
  BY <1>1 DEF Sampling, At
<1>3. /\ Pending(g) /\ DOMAIN gen[g] = Fields /\ gen[g].i \in Nat /\ Call(g) \in CallType
      /\ gen[g].ret \in Seq(Below(Call(g)))
  BY <1>2, WithinCall
<1>4. ret \in Seq(Below(Call(g))) /\ Len(ret) <= Len(gen[g].ret) + 1
  <2>1. CASE temp \in Acceptable(Call(g).modulus)
    <3>1. temp \in Below(Call(g))
      BY <2>1 DEF Acceptable, Below
    <3> HIDE DEF Below
    <3>2. /\ Append(gen[g].ret, temp) \in Seq(Below(Call(g))) /\ Len(gen[g].ret) \in Nat
          /\ Len(Append(gen[g].ret, temp)) = Len(gen[g].ret) + 1
      BY <1>3, <3>1, AppendInSeq
    <3>3. QED  BY <2>1, <3>2
  <2>2. CASE temp \notin Acceptable(Call(g).modulus)
    <3>1. Len(gen[g].ret) \in Nat
      BY <1>3
    <3>2. QED  BY <1>3, <2>2, <3>1
  <2>3. QED  BY <2>1, <2>2
<1>5. /\ DOMAIN s = Fields /\ s.done = gen[g].done /\ s.ret = ret
      /\ s.outer = gen[g].outer /\ s.size = gen[g].size /\ s.pc = "sample"
      /\ s.i = gen[g].i + 1 /\ s.i \in Nat
  BY <1>2, <1>3 DEF Fields, At
<1>6. Call(g).op = "range" => Len(ret) <= s.size
  <2>1. Len(gen[g].ret) \in Nat /\ Len(ret) \in Nat
    BY <1>3, <1>4
  <2>2. Call(g).op = "range" => gen[g].size \in Int
    BY <1>2, WithinCall DEF CallType
  <2>3. QED  BY <1>2, <1>4, <1>5, <2>1, <2>2
<1>7. InCall(s)
  BY <1>2, <1>3, <1>4, <1>5, <1>6, WithinCall, CallOfScript DEF InCall
<1>8. Step(g, s)
  BY <1>1 DEF Keep
<1>9. QED  BY <1>3, <1>5, <1>7, <1>8, InCallKeeps

LEMMA KeptSteps ==
    ASSUME Inv, NEW g \in Generator, EndSamples(g) \/ NonZeroSamples(g) \/ NonZeroEnd(g)
    PROVE  Inv'
<1>1. ~At(g, "idle")
  BY DEF EndSamples, NonZeroSamples, NonZeroEnd, RangeFull, At
<1>2. DOMAIN gen[g] = Fields
  BY <1>1, WithinCall
<1>3. CASE EndSamples(g)
  <2> DEFINE s == [gen[g] EXCEPT !.pc = "range", !.arr = << >>, !.i = 0]
  <2>1. /\ DOMAIN s = Fields /\ s.done = gen[g].done /\ s.ret = gen[g].ret
        /\ s.outer = gen[g].outer /\ s.size = gen[g].size /\ s.i \in Nat /\ s.pc = "range"
    BY <1>2 DEF Fields
  <2>2. QED  BY <1>1, <1>3, <2>1, KeptAlone DEF EndSamples
<1>4. CASE NonZeroSamples(g)
  <2> DEFINE s == [gen[g] EXCEPT !.pc = "filter", !.i = 0]
  <2>1. /\ DOMAIN s = Fields /\ s.done = gen[g].done /\ s.ret = gen[g].ret
        /\ s.outer = gen[g].outer /\ s.size = gen[g].size /\ s.i \in Nat /\ s.pc = "filter"
    BY <1>2 DEF Fields
  <2>2. QED  BY <1>1, <1>4, <2>1, KeptAlone DEF NonZeroSamples
<1>5. CASE NonZeroEnd(g)
  <2> DEFINE s == [gen[g] EXCEPT !.pc = "nonzero", !.i = 0]
  <2>1. /\ DOMAIN s = Fields /\ s.done = gen[g].done /\ s.ret = gen[g].ret
        /\ s.outer = gen[g].outer /\ s.size = gen[g].size /\ s.i \in Nat /\ s.pc = "nonzero"
    BY <1>2 DEF Fields
  <2>2. Call(g).op # "range"
    BY <1>1, <1>5, WithinCall DEF NonZeroEnd, At
  <2>3. QED  BY <1>1, <1>5, <2>1, <2>2, KeptAlone DEF NonZeroEnd
<1>6. QED  BY <1>3, <1>4, <1>5

LEMMA NonZeroKeepStep ==
    ASSUME Inv, NEW g \in Generator, NonZeroKeep(g)
    PROVE  Inv'
<1> DEFINE v == gen[g].ret[gen[g].i + 1]
           outer == IF v > 0 THEN Append(gen[g].outer, v) ELSE gen[g].outer
           s == [gen[g] EXCEPT !.i = @ + 1, !.outer = outer]
<1>1. /\ At(g, "filter") /\ gen[g].i < Len(gen[g].ret)
      /\ Len(gen[g].outer) < Call(g).size /\ ~At(g, "idle")
  BY DEF NonZeroKeep, Filtering, At
<1>2. /\ Pending(g) /\ Call(g) \in CallType /\ DOMAIN gen[g] = Fields /\ gen[g].i \in Nat
      /\ gen[g].ret \in Seq(Below(Call(g))) /\ gen[g].outer \in Seq(1 .. Call(g).modulus - 1)
      /\ Call(g).op = "nonzero"
  BY <1>1, WithinCall DEF At
<1>3. v \in Below(Call(g))
  <2> HIDE DEF Below
  <2>1. gen[g].i + 1 \in 1 .. Len(gen[g].ret)
    BY <1>1, <1>2
  <2>2. QED  BY <1>2, <2>1
<1>4. outer \in Seq(1 .. Call(g).modulus - 1) /\ Len(outer) <= Call(g).size
  <2>1. Len(gen[g].outer) \in Nat /\ Call(g).size \in Int
    BY <1>2 DEF CallType
  <2>2. CASE v > 0
    <3>0. outer = Append(gen[g].outer, v)
      BY <2>2
    <3>a. v \in 0 .. Call(g).modulus - 1
      BY <1>3 DEF Below
    <3>1. v \in 1 .. Call(g).modulus - 1
      BY <3>a, <2>2
    <3>2. /\ Append(gen[g].outer, v) \in Seq(1 .. Call(g).modulus - 1)
          /\ Len(Append(gen[g].outer, v)) = Len(gen[g].outer) + 1
      BY <1>2, <3>1, AppendInSeq
    <3>3. Len(gen[g].outer) + 1 <= Call(g).size
      BY <1>1, <2>1
    <3>4. QED  BY <3>0, <3>2, <3>3, Zenon
  <2>3. CASE ~(v > 0)
    <3>1. outer = gen[g].outer /\ Len(gen[g].outer) <= Call(g).size
      BY <1>1, <2>1, <2>3
    <3>2. QED  BY <1>2, <3>1, Zenon
  <2>4. QED  BY <2>2, <2>3
<1>5. /\ DOMAIN s = Fields /\ s.done = gen[g].done /\ s.ret = gen[g].ret
      /\ s.outer = outer /\ s.pc = "filter" /\ s.i \in Nat
  BY <1>1, <1>2 DEF Fields, At
<1>6. InCall(s)
  BY <1>1, <1>2, <1>4, <1>5, WithinCall, CallOfScript DEF InCall
<1>7. Step(g, s)
  BY DEF NonZeroKeep
<1>8. QED  BY <1>2, <1>5, <1>6, <1>7, InCallKeeps

LEMMA NonZeroDrawStep ==
    ASSUME Inv, NEW g \in Generator, NonZeroDraw(g)
    PROVE  Inv'
<1> DEFINE size == NonZeroSampleSize(Call(g).size - Len(gen[g].outer), Call(g).modulus)
           s == [gen[g] EXCEPT !.pc = "range", !.ret = << >>, !.size = size]
<1>1. At(g, "nonzero") /\ ~At(g, "idle") /\ Step(g, s)
  BY DEF NonZeroDraw, At
<1>2. /\ Pending(g) /\ DOMAIN gen[g] = Fields /\ gen[g].i \in Nat
      /\ gen[g].outer \in Seq(1 .. Call(g).modulus - 1)
      /\ Call(g).op = "nonzero" /\ Len(gen[g].outer) <= Call(g).size
  BY <1>1, WithinCall DEF At
<1>3. /\ DOMAIN s = Fields /\ s.done = gen[g].done /\ s.ret = << >>
      /\ s.outer = gen[g].outer /\ s.pc = "range" /\ s.i \in Nat
  BY <1>2 DEF Fields
<1>4. << >> \in Seq(Below(Call(g)))
  OBVIOUS
<1>5. InCall(s)
  BY <1>1, <1>2, <1>3, <1>4, CallOfScript DEF InCall
<1>6. QED  BY <1>1, <1>2, <1>3, <1>5, InCallKeeps

LEMMA ElementInRange ==
    ASSUME NEW S, NEW s \in Seq(S)
    PROVE  \A i \in 1 .. Len(s) : s[i] \in S
OBVIOUS

\* The values that were kept are what was asked for.
LEMMA ReturnSteps ==
    ASSUME Inv, NEW g \in Generator, RangeReturn(g) \/ NonZeroReturn(g)
    PROVE  Inv'
<1>1. ~At(g, "idle")
  BY DEF RangeReturn, NonZeroReturn, RangeFull, At
<1>2. /\ Pending(g) /\ Call(g) \in CallType
      /\ gen[g].ret \in Seq(Below(Call(g))) /\ gen[g].outer \in Seq(1 .. Call(g).modulus - 1)
  BY <1>1, WithinCall
<1>3. CASE RangeReturn(g)
  <2>1. Call(g).op = "range" /\ Respond(g, gen[g].pos, OK(gen[g].ret)) /\ RangeFull(g)
    BY <1>3 DEF RangeReturn
  <2>2. Len(gen[g].ret) = Call(g).size
    <3>1. Len(gen[g].ret) \in Nat /\ Call(g).size \in Int
      BY <1>2 DEF CallType
    <3>2. QED  BY <1>1, <2>1, <3>1, WithinCall DEF RangeFull
  <2>3. \A i \in 1 .. Call(g).size : gen[g].ret[i] \in Asked(Call(g))
    <3>1. Asked(Call(g)) = Below(Call(g))
      BY <2>1 DEF Asked, Below
    <3>2. QED  BY <1>2, <2>2, <3>1, ElementInRange, Zenon
  <2>4. AsRequested(Call(g), OK(gen[g].ret))
    BY <2>2, <2>3 DEF AsRequested, OK
  <2>5. QED  BY <1>2, <2>1, <2>4, RespondKeeps
<1>4. CASE NonZeroReturn(g)
  <2>1. /\ Respond(g, gen[g].pos, OK(gen[g].outer)) /\ Len(gen[g].outer) >= Call(g).size
        /\ At(g, "nonzero")
    BY <1>4 DEF NonZeroReturn
  <2>2. Call(g).op = "nonzero" /\ Len(gen[g].outer) <= Call(g).size
    BY <1>1, <2>1, WithinCall DEF At
  <2>3. Len(gen[g].outer) = Call(g).size
    <3>1. Len(gen[g].outer) \in Nat /\ Call(g).size \in Int
      BY <1>2 DEF CallType
    <3>2. QED  BY <2>1, <2>2, <3>1
  <2>4. \A i \in 1 .. Call(g).size : gen[g].outer[i] \in Asked(Call(g))
    <3>1. Asked(Call(g)) = 1 .. Call(g).modulus - 1
      BY <2>2 DEF Asked
    <3>2. QED  BY <1>2, <2>3, <3>1, ElementInRange, Zenon
  <2>5. AsRequested(Call(g), OK(gen[g].outer))
    BY <2>3, <2>4 DEF AsRequested, OK
  <2>6. QED  BY <1>2, <2>1, <2>2, <2>5, RespondKeeps
<1>5. QED  BY <1>3, <1>4

LEMMA NextInv == Inv /\ [Next]_vars => Inv'
<1> SUFFICES ASSUME Inv, [Next]_vars PROVE Inv'
  OBVIOUS
<1>1. CASE UNCHANGED vars
  BY <1>1 DEF vars, Inv, StateInv, BetweenCalls, InCall, Stays, Take
<1>2. CASE Next
  <2>1. PICK g \in Generator : GeneratorStep(g)
    BY <1>2 DEF Next
  <2>2. QED  BY <2>1, BytesStep, InvalidStep, BeginStep, DrawStep, SampleStep, KeptSteps,
                NonZeroKeepStep, NonZeroDrawStep, ReturnSteps DEF GeneratorStep
<1>3. QED  BY <1>1, <1>2

\* The invariant of the generators' calls holds throughout.
THEOREM InvCorrect == Spec => []Inv
BY InitInv, NextInv, PTL DEF Spec

(***************************************************************************)
(* Every call that succeeds returns as many values as were asked for, in   *)
(* the range that was asked for.                                           *)
(***************************************************************************)
THEOREM RequestedCorrect == Spec => []RequestedValues
<1>1. Inv => RequestedValues
  BY DEF Inv, StateInv, IsTuple, RequestedValues, Returned, Done, ResultOf
<1>2. QED  BY InvCorrect, <1>1, PTL

(***************************************************************************)
(* Bytes are the next ones of the stream, and the call stops behind them.  *)
(***************************************************************************)
THEOREM BytesCorrect == Spec => []BytesAreStream
<1>1. ASSUME Inv PROVE BytesAreStream
  <2> SUFFICES ASSUME NEW g \in Generator, NEW k \in Returned(g)
               PROVE  script[k].op = "bytes" /\ 2 * script[k].size < Word
                        /\ ResultOf(g, k).status = "Ok" =>
                          /\ ResultOf(g, k).values = Take(gen[g].done[k].from, script[k].size)
                          /\ gen[g].pos = (gen[g].done[k].from + script[k].size) % Len(stream)
    BY DEF BytesAreStream
  <2>1. StateInv(gen[g]) /\ k = Len(gen[g].done) /\ k \in DOMAIN gen[g].done
        /\ gen[g].pc = "idle"
    BY <1>1 DEF Inv, Returned, Done, At
  <2>2. k \in 1 .. Len(gen[g].done) /\ Len(gen[g].done) \in Nat
    BY <2>1 DEF StateInv, IsTuple
  <2>3. Stays(script[k], gen[g], gen[g].done[k])
    BY <2>1, <2>2 DEF StateInv, BetweenCalls
  <2>4. QED  BY <2>3 DEF Stays, ResultOf
<1>2. QED  BY InvCorrect, <1>1, PTL
-----------------------------------------------------------------------------
(***************************************************************************)
(* Arithmetic the provers do not know.                                     *)
(***************************************************************************)
LEMMA PowersGrow ==
    ASSUME NEW b \in 0 .. WordBits - 1
    PROVE  2 ^ b < Word
<1> DEFINE N == {k \in Nat : b + k + 1 <= WordBits => 2 ^ b < 2 ^ (b + k + 1)}
<1>0. \A c \in 0 .. WordBits - 1 : 2 ^ (c + 1) = 2 * 2 ^ c /\ 2 ^ c \in Nat \ {0}
  <2>1. ASSUME NEW c \in 0 .. WordBits - 1
        PROVE  2 ^ (c + 1) = 2 * 2 ^ c /\ 2 ^ c \in Nat \ {0}
    <3>1. c + 1 \in 1 .. WordBits /\ (c + 1) - 1 = c /\ c \in 0 .. WordBits
      BY GeneratorAssumption
    <3>2. QED  BY <3>1, PowerAssumption
  <2>2. QED  BY <2>1
<1>1. 0 \in N
  <2>1. b + 0 + 1 = b + 1
    OBVIOUS
  <2>2. 2 ^ b < 2 ^ (b + 1)
    BY <1>0
  <2>3. QED  BY <2>1, <2>2
<1>2. ASSUME NEW k \in Nat, k \in N PROVE k + 1 \in N
  <2> SUFFICES ASSUME b + (k + 1) + 1 <= WordBits PROVE 2 ^ b < 2 ^ (b + (k + 1) + 1)
    OBVIOUS
  <2> DEFINE c == b + k + 1
  <2>1. c \in 0 .. WordBits - 1 /\ b + (k + 1) + 1 = c + 1
    BY GeneratorAssumption
  <2>2. 2 ^ b < 2 ^ c
    BY <1>2, <2>1, GeneratorAssumption
  <2>3. 2 ^ (c + 1) = 2 * 2 ^ c /\ 2 ^ c \in Nat \ {0} /\ 2 ^ b \in Nat \ {0}
    BY <1>0, <2>1
  <2> HIDE DEF c
  <2>4. QED  BY <2>1, <2>2, <2>3
<1>3. \A k \in Nat : k \in N
  <2> HIDE DEF N
  <2>1. QED  BY <1>1, <1>2, NatSetInduction
<1>4. PICK j \in Nat : b + j + 1 = WordBits
  <2>1. WordBits - b - 1 \in Nat /\ b + (WordBits - b - 1) + 1 = WordBits
    BY GeneratorAssumption
  <2>2. QED  BY <2>1
<1>5. b + j + 1 <= WordBits => 2 ^ b < 2 ^ (b + j + 1)
  BY <1>3
<1>6. WordBits <= WordBits
  BY GeneratorAssumption
<1>7. QED  BY <1>4, <1>5, <1>6 DEF Word

LEMMA SquarePositive ==
    ASSUME NEW d \in Int, d # 0
    PROVE  d * d \in Nat \ {0}
<1>1. \A x \in Nat \ {0} : x * x \in Nat \ {0}
  OBVIOUS
<1>2. CASE d > 0
  BY <1>1, <1>2
<1>3. CASE d < 0
  <2>1. -d \in Nat \ {0} /\ (-d) * (-d) = d * d
    BY <1>3
  <2>2. (-d) * (-d) \in Nat \ {0}
    BY <1>1, <2>1
  <2>3. QED  BY <2>1, <2>2
<1>4. QED  BY <1>2, <1>3

LEMMA ProductDivided ==
    ASSUME NEW x \in Nat, NEW q \in Nat \ {0}
    PROVE  x * q >= 0 /\ (x * q) \div q = x
<1> DEFINE p == x * q
           y == p \div q
<1>1. p \in Nat /\ y \in Int /\ q * y <= p /\ p < q * (y + 1)
  OBVIOUS
<1>2. \A a, b \in Int : a < b => q * a + q <= q * b
  <2>1. \A a, b \in Int : a < b => q * (b - a) >= q
    OBVIOUS
  <2>2. QED  BY <2>1
<1>3. p = q * x /\ q * (y + 1) = q * y + q /\ q * x \in Int /\ q * y \in Int
  BY <1>1
<1> HIDE DEF p, y
<1>4. y = x
  BY <1>1, <1>2, <1>3
<1>5. QED  BY <1>1, <1>4 DEF p, y

(***************************************************************************)
(* The arithmetic of the sample sizes is well defined for every modulus    *)
(* that a call samples for.                                                *)
(***************************************************************************)
Modulus == 2 .. Word - 1

LEMMA BitLengthType ==
    ASSUME NEW m \in Modulus
    PROVE  BitLength(m) \in 0 .. WordBits /\ 2 ^ BitLength(m) >= m
<1> DEFINE S == {b \in 0 .. WordBits : 2 ^ b >= m}
<1>1. WordBits \in S /\ S \in SUBSET Nat
  BY GeneratorAssumption DEF Modulus, Word
<1>2. PICK b \in S : \A c \in S : b <= c
  BY <1>1, LeastNatural
<1>3. \A c \in 0 .. b - 1 : 2 ^ c < m
  <2>1. ASSUME NEW c \in 0 .. b - 1 PROVE 2 ^ c < m
    <3>1. c \in 0 .. WordBits /\ c \notin S
      BY <1>2, GeneratorAssumption
    <3>2. 2 ^ c \in Nat /\ m \in Nat
      BY <3>1, PowerAssumption, GeneratorAssumption DEF Modulus
    <3>3. QED  BY <3>1, <3>2
  <2>2. QED  BY <2>1
<1>4. \E x \in 0 .. WordBits : 2 ^ x >= m /\ \A c \in 0 .. x - 1 : 2 ^ c < m
  BY <1>2, <1>3
<1>5. QED  BY <1>4, Zenon DEF BitLength

LEMMA BytesPerValueType ==
    ASSUME NEW m \in Modulus
    PROVE  BytesPerValue(m) \in Nat \ {0}
<1>1. BitLength(m) \in Nat /\ BitLength(m) # 0
  <2>1. 2 ^ 0 = 1
    OBVIOUS
  <2>2. BitLength(m) \in 0 .. WordBits /\ (BitLength(m) = 0 => 1 >= m)
    BY <2>1, BitLengthType
  <2>3. QED  BY <2>2, GeneratorAssumption DEF Modulus
<1>2. \A b \in Nat, w \in Nat \ {0} : b # 0 => (b + w - 1) \div w \in Nat \ {0}
  <2>1. \A b \in Nat, w \in Nat \ {0} : b # 0 => b + w - 1 \in Nat /\ b + w - 1 >= w
    OBVIOUS
  <2>2. \A x \in Nat, w \in Nat \ {0} : x >= w => x \div w \in Nat \ {0}
    OBVIOUS
  <2>3. QED  BY <2>1, <2>2
<1>3. QED  BY <1>1, <1>2, GeneratorAssumption DEF BytesPerValue

LEMMA TruncateType ==
    ASSUME NEW n \in Int, NEW d \in Int, d # 0
    PROVE  Truncate(n, d) \in Int
<1>1. d * d \in Nat \ {0} /\ n * d \in Int /\ -n * d \in Int
  <2>1. \A x \in Nat \ {0} : x * x \in Nat \ {0}
    OBVIOUS
  <2>2. CASE d > 0
    BY <2>1, <2>2
  <2>3. CASE d < 0
    <3>1. -d \in Nat \ {0} /\ (-d) * (-d) = d * d
      BY <2>3
    <3>2. (-d) * (-d) \in Nat \ {0}
      BY <2>1, <3>1
    <3>3. n * d \in Int /\ -n * d \in Int
      OBVIOUS
    <3>4. QED  BY <3>1, <3>2, <3>3
  <2>4. QED  BY <2>2, <2>3
<1>2. \A x \in Int, y \in Nat \ {0} : x \div y \in Int /\ -(x \div y) \in Int
  OBVIOUS
<1> DEFINE p == n * d
           q == d * d
           r == -n * d
<1>3. p \in Int /\ r \in Int /\ q \in Nat \ {0}
  BY <1>1
<1>4. Truncate(n, d) = IF p >= 0 THEN p \div q ELSE -(r \div q)
  BY DEF Truncate
<1> HIDE DEF p, q, r
<1>5. QED  BY <1>2, <1>3, <1>4

LEMMA SampleSizeType ==
    ASSUME NEW m \in Modulus, NEW c \in Int
    PROVE  SampleSize(c, m) \in Int
<1> DEFINE b == BitLength(m)
           d == Shifted(b)
           n == (d - m) % Word
<1>1. b \in 0 .. WordBits /\ 2 ^ b >= m /\ 2 ^ b \in Nat \ {0} /\ Word \in Nat \ {0}
  BY BitLengthType, PowerAssumption, GeneratorAssumption
<1>2. d \in Int
  BY <1>1 DEF Shifted
<1>3. n \in 0 .. Word - 1
  <2>1. d - m \in Int
    BY <1>2 DEF Modulus
  <2>2. QED  BY <1>1, <2>1
<1>4. d - n # 0
  <2>1. CASE b = WordBits
    <3>1. d = 1 /\ d - m \in -(Word - 1) .. -1
      BY <1>1, <2>1 DEF Shifted, Modulus
    <3>2. n = d - m + Word
      BY <1>1, <3>1
    <3>3. QED  BY <1>1, <3>1, <3>2 DEF Modulus
  <2>2. CASE b # WordBits /\ b = WordBits - 1
    <3>1. d = -(2 ^ b)
      BY <2>2 DEF Shifted
    <3>2. QED  BY <1>1, <1>3, <3>1
  <2>3. CASE b # WordBits /\ b # WordBits - 1
    <3>1. d = 2 ^ b
      BY <2>3 DEF Shifted
    <3>2. 2 ^ b < Word
      <4>1. b \in 0 .. WordBits - 1
      BY <1>1, <2>3, GeneratorAssumption
    <4> HIDE DEF b
    <4>2. QED  BY <4>1, PowersGrow
    <3>3. d - m \in 0 .. Word - 1
      BY <1>1, <3>1, <3>2 DEF Modulus
    <3>4. n = d - m
      BY <1>1, <3>3
    <3>5. QED  BY <3>1, <3>4, <1>1 DEF Modulus
  <2>4. QED  BY <2>1, <2>2, <2>3
<1> DEFINE x == Wanted(c) * (d - n) + n * c
           y == d - n
<1>5. x \in Int /\ y \in Int
  BY <1>2, <1>3 DEF Wanted
<1>6. SampleSize(c, m) = Truncate(x, y)
  BY DEF SampleSize
<1> HIDE DEF d, n, x, b
<1>7. QED  BY <1>4, <1>5, <1>6, TruncateType

(***************************************************************************)
(* The bytes of a value make a number: what FoldLeft computes is defined   *)
(* by recursion over the sets of positions T in a sequence of bytes.       *)
(***************************************************************************)
Accumulated(iter, bytes, D) ==
    iter = [T \in SUBSET D |->
               IF T = {} THEN 0 ELSE iter[T \ {Max(T)}] * 2 ^ ByteBits + bytes[Max(T)]]

LEMMA AccumulatedExists ==
    ASSUME NEW bytes, NEW n \in Nat
    PROVE  \E h : Accumulated(h, bytes, 1 .. n)
<1> DEFINE N == {k \in Nat : \E h : Accumulated(h, bytes, 1 .. k)}
<1>1. 0 \in N
  <2> DEFINE h == [T \in SUBSET (1 .. 0) |-> 0]
  <2>1. \A T \in SUBSET (1 .. 0) : T = {}
    OBVIOUS
  <2>2. Accumulated(h, bytes, 1 .. 0)
    BY <2>1 DEF Accumulated
  <2>3. QED  BY <2>2
<1>2. ASSUME NEW k \in Nat, k \in N PROVE k + 1 \in N
  <2>1. PICK h : Accumulated(h, bytes, 1 .. k)
    BY <1>2
  <2> DEFINE S == SUBSET (1 .. k + 1)
             next(T) == h[T \ {k + 1}] * 2 ^ ByteBits + bytes[k + 1]
             f == [T \in S |-> IF k + 1 \in T THEN next(T) ELSE h[T]]
             step(T) == IF T = {} THEN 0 ELSE f[T \ {Max(T)}] * 2 ^ ByteBits + bytes[Max(T)]
  <2>2. ASSUME NEW T \in S PROVE f[T] = step(T)
    <3>1. CASE k + 1 \in T
      <4>1. Max(T) = k + 1
        BY <3>1, LastIsMax
      <4>2. f[T \ {k + 1}] = h[T \ {k + 1}] /\ T # {}
        BY <3>1
      <4>3. f[T] = next(T)
        BY <3>1
      <4>4. QED  BY <4>1, <4>2, <4>3
    <3>2. CASE k + 1 \notin T
      <4>1. T \in SUBSET (1 .. k) /\ T \ {Max(T)} \in SUBSET (1 .. k) /\ T \ {Max(T)} \in S
        <5>1. \A x \in 1 .. k + 1 : x # k + 1 => x \in 1 .. k
          OBVIOUS
        <5>2. QED  BY <3>2, <5>1
      <4>2. f[T \ {Max(T)}] = h[T \ {Max(T)}] /\ f[T] = h[T]
        BY <3>2, <4>1
      <4>3. h[T] = IF T = {} THEN 0 ELSE h[T \ {Max(T)}] * 2 ^ ByteBits + bytes[Max(T)]
        BY <2>1, <4>1 DEF Accumulated
      <4>4. QED  BY <4>2, <4>3
    <3>3. QED  BY <3>1, <3>2
  <2>3. f = [T \in S |-> step(T)]
    <3>1. f = [T \in S |-> f[T]]
      OBVIOUS
    <3> HIDE DEF f
    <3>2. QED  BY <2>2, <3>1
  <2>4. Accumulated(f, bytes, 1 .. k + 1)
    <3> HIDE DEF f
    <3>1. QED  BY <2>3 DEF Accumulated
  <2>5. QED  BY <2>4
<1>3. \A k \in Nat : k \in N
  <2> HIDE DEF N
  <2>1. QED  BY <1>1, <1>2, NatSetInduction
<1>4. QED  BY <1>3

BytesNumber(bytes) == FoldLeft(LAMBDA temp, byte : temp * 2 ^ ByteBits + byte, 0, bytes)

LEMMA BytesNumberType ==
    ASSUME NEW bytes \in Seq(Byte)
    PROVE  BytesNumber(bytes) \in Nat
<1> DEFINE D == DOMAIN bytes
           n == Len(bytes)
           h == CHOOSE iter : Accumulated(iter, bytes, D)
<1>1. D = 1 .. n /\ n \in Nat
  <2> HIDE DEF Byte
  <2>1. QED  OBVIOUS
<1>2. BytesNumber(bytes) = h[D]
  BY Zenon DEF BytesNumber, FoldLeft, MapThenFoldSet, Accumulated
<1>3. Accumulated(h, bytes, 1 .. n)
  <2>1. \E iter : Accumulated(iter, bytes, 1 .. n)
    BY <1>1, AccumulatedExists
  <2>2. QED  BY <1>1, <2>1, Zenon
<1> HIDE DEF h
<1>4. \A k \in 1 .. n : bytes[k] \in Nat
  <2>1. \A k \in 1 .. n : bytes[k] \in Byte
    <3> HIDE DEF Byte
    <3>1. QED  OBVIOUS
  <2>2. Byte \subseteq Nat
    BY PowerAssumption DEF Byte
  <2>3. QED  BY <2>1, <2>2
<1> DEFINE N == {k \in Nat : k <= n => h[1 .. k] \in Nat}
<1>5. 0 \in N
  <2>1. 1 .. 0 = {} /\ 1 .. 0 \in SUBSET (1 .. n)
    OBVIOUS
  <2>2. QED  BY <1>3, <2>1 DEF Accumulated
<1>6. ASSUME NEW k \in Nat, k \in N PROVE k + 1 \in N
  <2> SUFFICES ASSUME k + 1 <= n PROVE h[1 .. k + 1] \in Nat
    OBVIOUS
  <2>1. /\ 1 .. k + 1 \in SUBSET (1 .. n) /\ k + 1 \in 1 .. k + 1 /\ k + 1 \in 1 .. n
        /\ (1 .. k + 1) \ {k + 1} = 1 .. k
    BY <1>1
  <2>2. Max(1 .. k + 1) = k + 1
    BY <2>1, LastIsMax
  <2>3. h[1 .. k + 1] = h[1 .. k] * 2 ^ ByteBits + bytes[k + 1]
    BY <1>3, <2>1, <2>2 DEF Accumulated
  <2>4. h[1 .. k] \in Nat
    BY <1>1, <1>6
  <2>5. bytes[k + 1] \in Nat /\ 2 ^ ByteBits \in Nat
    BY <1>4, <2>1, PowerAssumption
  <2>6. \A x, y, z \in Nat : x * y + z \in Nat
    OBVIOUS
  <2>7. QED  BY <2>3, <2>4, <2>5, <2>6
<1>7. \A k \in Nat : k \in N
  <2> HIDE DEF N
  <2>1. QED  BY <1>5, <1>6, NatSetInduction
<1>8. QED  BY <1>1, <1>2, <1>7

LEMMA ValueAtType ==
    ASSUME NEW m \in Modulus, NEW arr \in Seq(Byte), NEW i \in Nat,
           (i + 1) * BytesPerValue(m) <= Len(arr)
    PROVE  ValueAt(arr, i, m) \in 0 .. MaskRange(m) - 1
<1> DEFINE w == BytesPerValue(m)
           bytes == SubSeq(arr, i * w + 1, (i + 1) * w)
<1>1. w \in Nat \ {0}
  BY BytesPerValueType
<1>2. bytes \in Seq(Byte)
  <2>1. i * w \in Nat /\ (i + 1) * w \in Nat
    BY <1>1
  <2> HIDE DEF Byte, w
  <2>2. \A a \in Nat, b \in Nat : b <= Len(arr) => SubSeq(arr, a + 1, b) \in Seq(Byte)
    OBVIOUS
  <2>3. QED  BY <2>1, <2>2 DEF w
<1>3. MaskRange(m) \in Nat \ {0}
  <2>1. Shifted(BitLength(m)) \in Int
    BY BitLengthType, PowerAssumption DEF Shifted
  <2>2. \A x \in Int, y \in Nat \ {0} : ((x - 1) % y) + 1 \in Nat \ {0}
    OBVIOUS
  <2>3. QED  BY <2>1, <2>2, GeneratorAssumption DEF MaskRange
<1>4. ValueAt(arr, i, m) = BytesNumber(bytes) % MaskRange(m)
  BY DEF ValueAt, BytesNumber
<1>5. \A x \in Nat, y \in Nat \ {0} : x % y \in 0 .. y - 1
  OBVIOUS
<1> HIDE DEF bytes
<1>6. QED  BY <1>2, <1>3, <1>4, <1>5, BytesNumberType

(***************************************************************************)
(* The type invariant, and how much a batch holds when every value of the  *)
(* mask is accepted: one value more than are missing.                      *)
(***************************************************************************)
Power(m) == MaskRange(m) = m

Shape(s) ==
    LET call == script[Len(s.done) + 1] IN
    /\ s.pos \in 0 .. Len(stream) - 1
    /\ s.arr \in Seq(Byte)
    /\ s.size \in Nat /\ Len(s.ret) <= s.size
    /\ s.pc # "sample" => s.arr = << >>
    /\ s.pc \notin {"sample", "filter"} => s.i = 0
    /\ s.pc = "sample" => s.i <= Len(s.arr)
    /\ s.pc = "filter" => s.i <= Len(s.ret)
    /\ s.pc # "idle" => call.modulus \in Modulus /\ call.size \in Nat
    /\ s.pc = "sample" /\ Power(call.modulus) =>
          Len(s.arr) = (s.size - Len(s.ret) + s.i + 1) * BytesPerValue(call.modulus)

ShapeInv == stream \in Stream /\ \A g \in Generator : Shape(gen[g])

LEMMA ShapeInit == Init => ShapeInv
<1> SUFFICES ASSUME Init PROVE ShapeInv
  OBVIOUS
<1>1. stream \in Seq(Byte) \ {<< >>}
  BY GeneratorAssumption DEF Init
<1>2. Len(stream) \in Nat \ {0}
  <2> HIDE DEF Byte
  <2>1. QED  BY <1>1
<1>3. << >> \in Seq(Byte) /\ Len(<< >>) = 0
  OBVIOUS
<1>4. Shape(Start)
  BY <1>2, <1>3 DEF Shape, Start
<1>5. QED  BY <1>4 DEF Init, ShapeInv

LEMMA ShapeKeeps ==
    ASSUME Inv, ShapeInv, NEW g \in Generator, NEW s, Step(g, s), Shape(s)
    PROVE  ShapeInv'
<1>1. script' = script /\ stream' = stream /\ gen' = [gen EXCEPT ![g] = s]
  BY DEF Step
<1>2. ASSUME NEW h \in Generator PROVE Shape(gen[h])'
  <2>1. Shape(gen'[h])
    BY <1>1 DEF Inv, ShapeInv
  <2>2. QED  BY <1>1, <2>1 DEF Shape
<1>3. QED  BY <1>1, <1>2 DEF ShapeInv

\* The positions of the stream.
LEMMA StreamType ==
    ASSUME ShapeInv
    PROVE  /\ Len(stream) \in Nat \ {0}
           /\ \A p \in Int : p % Len(stream) \in 0 .. Len(stream) - 1
           /\ \A k \in 1 .. Len(stream) : stream[k] \in Byte
<1>1. stream \in Seq(Byte) \ {<< >>}
  BY GeneratorAssumption DEF ShapeInv
<1> HIDE DEF Byte
<1>2. Len(stream) \in Nat \ {0} /\ \A k \in 1 .. Len(stream) : stream[k] \in Byte
  BY <1>1
<1>3. \A p \in Int, n \in Nat \ {0} : p % n \in 0 .. n - 1
  OBVIOUS
<1>4. QED  BY <1>2, <1>3

LEMMA TakeType ==
    ASSUME ShapeInv, NEW pos \in Int, NEW m \in Nat
    PROVE  /\ Take(pos, m) \in Seq(Byte) /\ Len(Take(pos, m)) = m
           /\ \A k \in 1 .. m : Take(pos, m)[k] = stream[((pos + k - 1) % Len(stream)) + 1]
<1>1. ASSUME NEW k \in 1 .. m
      PROVE  stream[((pos + k - 1) % Len(stream)) + 1] \in Byte
  <2> DEFINE p == pos + k - 1
  <2>0. p \in Int /\ Len(stream) \in Nat
    BY StreamType
  <2> HIDE DEF p
  <2>1. p % Len(stream) \in 0 .. Len(stream) - 1
    BY <2>0, StreamType
  <2>2. (p % Len(stream)) + 1 \in 1 .. Len(stream)
    BY <2>0, <2>1
  <2> USE DEF p
  <2>3. QED  BY <2>2, StreamType
<1>2. Take(pos, m) \in [1 .. m -> Byte]
  BY <1>1 DEF Take
<1> HIDE DEF Byte
<1>3. Take(pos, m) \in Seq(Byte) /\ Len(Take(pos, m)) = m
  BY <1>2, FunctionIsSequence
<1>4. QED  BY <1>3 DEF Take

LEMMA EncryptedType ==
    ASSUME ShapeInv, NEW n \in Nat, NEW pos \in Int
    PROVE  Encrypted(pos, n) \in Seq(Byte) /\ Advance(pos, Filled(n)) \in 0 .. Len(stream) - 1
<1>1. Filled(n) \in 0 .. n
  BY GeneratorAssumption DEF Filled
<1>2. ASSUME NEW m \in 0 .. n PROVE Take(pos, m) \in Seq(Byte)
  BY TakeType
<1>3. ASSUME NEW m \in 0 .. n PROVE Zeros(m) \in Seq(Byte)
  <2>1. 0 \in Byte
    BY PowerAssumption DEF Byte
  <2> HIDE DEF Byte
  <2>2. Zeros(m) \in [1 .. m -> Byte]
    BY <2>1 DEF Zeros
  <2>3. QED  BY <2>2, FunctionIsSequence
<1>4. Encrypted(pos, n) \in Seq(Byte)
  <2> HIDE DEF Byte
  <2>1. PICK m \in 0 .. n : m = Filled(n)
    BY <1>1
  <2>2. n - m \in 0 .. n
    BY <2>1
  <2>3. Take(pos, m) \in Seq(Byte) /\ Zeros(n - m) \in Seq(Byte)
    BY <1>2, <1>3, <2>2
  <2>4. Take(pos, m) \o Zeros(n - m) \in Seq(Byte)
    BY <2>3
  <2>5. QED  BY <2>1, <2>4 DEF Encrypted
<1>5. Advance(pos, Filled(n)) \in 0 .. Len(stream) - 1
  <2>1. pos + Filled(n) \in Int
    BY <1>1
  <2>2. QED  BY <2>1, StreamType DEF Advance
<1>6. QED  BY <1>4, <1>5

LEMMA RespondShape ==
    ASSUME Inv, ShapeInv, NEW g \in Generator, NEW pos \in 0 .. Len(stream) - 1, NEW result,
           Respond(g, pos, result)
    PROVE  ShapeInv'
<1> DEFINE s == [Start EXCEPT !.pos = pos, !.from = pos,
                   !.done = Append(gen[g].done, [from |-> gen[g].from, result |-> result])]
<1>1. /\ s.pos = pos /\ s.arr = << >> /\ s.size = 0 /\ s.ret = << >> /\ s.pc = "idle" /\ s.i = 0
  BY DEF Start
<1>2. << >> \in Seq(Byte) /\ Len(<< >>) = 0 /\ 0 <= 0 /\ 0 \in Nat
  OBVIOUS
<1> HIDE DEF s
<1>3. Shape(s)
  BY <1>1, <1>2, Zenon DEF Shape
<1>4. QED  BY <1>3, ShapeKeeps DEF Respond, s

\* The facts about a call in progress that the steps need.
LEMMA ShapeOfCall ==
    ASSUME Inv, ShapeInv, NEW g \in Generator, ~At(g, "idle")
    PROVE  /\ Call(g).modulus \in Modulus /\ Call(g).size \in Nat
           /\ gen[g].pos \in 0 .. Len(stream) - 1 /\ gen[g].arr \in Seq(Byte)
           /\ gen[g].size \in Nat /\ Len(gen[g].ret) \in Nat /\ Len(gen[g].ret) <= gen[g].size
           /\ Call(g) = script[Len(gen[g].done) + 1] /\ DOMAIN gen[g] = Fields
<1>1. Shape(gen[g])
  BY DEF ShapeInv
<1>2. Len(gen[g].ret) \in Nat
  <2>1. gen[g].ret \in Seq(Below(Call(g)))
    BY WithinCall
  <2> HIDE DEF Below
  <2>2. QED  BY <2>1
<1>3. QED  BY <1>1, <1>2, WithinCall DEF Shape, At, Call

LEMMA IdleShape ==
    ASSUME Inv, ShapeInv, NEW g \in Generator,
           GeneratePseudorandomBytes(g) \/ InvalidCall(g) \/ Begin(g)
    PROVE  ShapeInv'
<1>1. /\ Shape(gen[g]) /\ StateInv(gen[g]) /\ BetweenCalls(gen[g]) /\ gen[g].pc = "idle"
      /\ Call(g) \in CallType /\ Call(g) = script[Len(gen[g].done) + 1]
  <2>1. Pending(g) /\ At(g, "idle")
    BY DEF GeneratePseudorandomBytes, InvalidCall, Begin
  <2>2. QED  BY <2>1, CallOfScript DEF ShapeInv, StateInv, At
<1>2. gen[g].pos \in 0 .. Len(stream) - 1
  BY <1>1 DEF Shape
<1>3. CASE GeneratePseudorandomBytes(g)
  <2> DEFINE n == Call(g).size
  <2>1. CASE BytesFail(n)
    <3>1. Respond(g, gen[g].pos, BytesError(n))
      BY <1>3, <2>1 DEF GeneratePseudorandomBytes
    <3>2. QED  BY <1>2, <3>1, RespondShape
  <2>2. CASE ~BytesFail(n)
    <3>1. n \in Nat
      BY <1>1, <2>2 DEF CallType, BytesFail
    <3>2. Advance(gen[g].pos, Filled(n)) \in 0 .. Len(stream) - 1
      <4>1. gen[g].pos \in Int
        BY <1>2
      <4>2. QED  BY <3>1, <4>1, EncryptedType
    <3>3. Respond(g, Advance(gen[g].pos, Filled(n)), OK(Encrypted(gen[g].pos, n)))
      BY <1>3, <2>2 DEF GeneratePseudorandomBytes
    <3>4. QED  BY <3>2, <3>3, RespondShape
  <2>3. QED  BY <2>1, <2>2
<1>4. CASE InvalidCall(g)
  BY <1>2, <1>4, RespondShape DEF InvalidCall
<1>5. CASE Begin(g)
  <2> DEFINE s == [gen[g] EXCEPT !.pc = Call(g).op, !.size = Call(g).size]
  <2>1. /\ s.pos = gen[g].pos /\ s.arr = gen[g].arr /\ s.size = Call(g).size
        /\ s.ret = << >> /\ s.pc = Call(g).op /\ s.i = 0 /\ s.done = gen[g].done
    BY <1>1 DEF StateInv, Fields, BetweenCalls
  <2>2. /\ Call(g).size \in Nat /\ Call(g).modulus \in Modulus
        /\ Call(g).op \in {"range", "nonzero"}
    BY <1>1, <1>5 DEF Begin, CallType, Modulus
  <2>3. Len(<< >>) = 0 /\ 0 <= Call(g).size
    BY <2>2
  <2>4. gen[g].arr \in Seq(Byte) /\ gen[g].arr = << >>
    BY <1>1 DEF Shape
  <2> HIDE DEF s
  <2>5. Shape(s)
    BY <1>1, <1>2, <2>1, <2>2, <2>3, <2>4 DEF Shape
  <2>6. QED  BY <1>5, <2>5, ShapeKeeps DEF Begin, s
<1>6. QED  BY <1>3, <1>4, <1>5

\* A power of two rejects nothing, so a batch has one value more than is missing.
LEMMA PowerSample ==
    ASSUME NEW m \in Modulus, Power(m), NEW c \in Nat
    PROVE  SampleSize(c, m) = c + 1
<1> DEFINE b == BitLength(m)
           d == Shifted(b)
<1>1. b \in 0 .. WordBits /\ 2 ^ b \in Nat \ {0} /\ Word \in Nat \ {0}
  BY BitLengthType, PowerAssumption, GeneratorAssumption
<1>2. d \in Int
  BY <1>1 DEF Shifted
<1>3. (d - m) % Word = 0 /\ d # 0
  <2>1. \A w \in Nat \ {0} : 0 % w = 0 /\ (-w) % w = 0 /\ \A x \in 0 .. w - 1 : x % w = x
    OBVIOUS
  <2>2. m = ((d - 1) % Word) + 1
    BY DEF Power, MaskRange
  <2>3. CASE b = WordBits
    <3>1. d = 1
      BY <2>3 DEF Shifted
    <3>2. m = 1
      BY <1>1, <2>1, <2>2, <3>1
    <3>3. QED  BY <3>2 DEF Modulus
  <2>4. CASE b # WordBits /\ b = WordBits - 1
    <3>1. d = -(2 ^ b)
      BY <2>4 DEF Shifted
    <3>2. Word = 2 * 2 ^ b
      <4>1. WordBits \in 1 .. WordBits /\ WordBits - 1 = b
        BY <2>4, GeneratorAssumption
      <4>2. QED  BY <4>1, PowerAssumption DEF Word
    <3>3. (d - 1) % Word = 2 ^ b - 1
      <4>1. \A x \in Nat \ {0} : (-x - 1) % (2 * x) = x - 1
        OBVIOUS
      <4>2. QED  BY <1>1, <3>1, <3>2, <4>1
    <3>4. m = 2 ^ b
      BY <1>1, <2>2, <3>3
    <3>5. d - m = -Word
      BY <1>1, <3>1, <3>2, <3>4
    <3>6. QED  BY <1>1, <2>1, <3>1, <3>5
  <2>5. CASE b # WordBits /\ b # WordBits - 1
    <3>1. d = 2 ^ b
      BY <2>5 DEF Shifted
    <3>2. 2 ^ b < Word
      <4>1. b \in 0 .. WordBits - 1
        BY <1>1, <2>5, GeneratorAssumption
      <4> HIDE DEF b
      <4>2. QED  BY <4>1, PowersGrow
    <3>3. (d - 1) % Word = d - 1
      <4>1. d - 1 \in 0 .. Word - 1
        BY <1>1, <3>1, <3>2
      <4>2. QED  BY <1>1, <2>1, <4>1
    <3>4. m = d
      BY <1>2, <2>2, <3>3
    <3>5. d - m = 0
      BY <1>2, <3>4
    <3>6. QED  BY <1>1, <2>1, <3>1, <3>5
  <2>6. QED  BY <1>1, <2>3, <2>4, <2>5
<1>4. SampleSize(c, m) = Truncate((c + 1) * d, d)
  <2> DEFINE n == (d - m) % Word
  <2>1. SampleSize(c, m) = Truncate((c + 1) * (d - n) + n * c, d - n)
    BY DEF SampleSize, Wanted
  <2>2. n = 0
    BY <1>3
  <2> HIDE DEF n, d
  <2>3. (c + 1) * (d - n) + n * c = (c + 1) * d /\ d - n = d
    BY <1>2, <2>2
  <2>4. QED  BY <2>1, <2>3
<1> HIDE DEF d
<1>5. Truncate((c + 1) * d, d) = c + 1
  <2>1. d * d \in Nat \ {0}
    BY <1>2, <1>3, SquarePositive
  <2>2. ((c + 1) * d) * d = (c + 1) * (d * d)
    BY <1>2
  <2> DEFINE q == d * d
             x == c + 1
             p == x * d
  <2>3. p * d = x * q /\ q \in Nat \ {0} /\ x \in Nat
    BY <2>1, <2>2
  <2>4. Truncate(p, d) = IF p * d >= 0 THEN (p * d) \div q ELSE -((-p * d) \div q)
    BY DEF Truncate
  <2> HIDE DEF p, q, x
  <2>5. x * q >= 0 /\ (x * q) \div q = x
    BY <2>3, ProductDivided
  <2>6. Truncate(p, d) = x
    BY <2>3, <2>4, <2>5
  <2>7. QED  BY <2>6 DEF p, x
<1>6. QED  BY <1>4, <1>5

LEMMA DrawShape ==
    ASSUME Inv, ShapeInv, NEW g \in Generator, DrawSamples(g)
    PROVE  ShapeInv'
<1> DEFINE modulus == Call(g).modulus
           c == gen[g].size - Len(gen[g].ret)
           n == SampleSize(c, modulus) * BytesPerValue(modulus)
           s == [gen[g] EXCEPT !.pc = "sample", !.i = 0, !.arr = Encrypted(gen[g].pos, n),
                               !.pos = Advance(gen[g].pos, Filled(n))]
<1>1. ~At(g, "idle") /\ Len(gen[g].ret) < gen[g].size
  BY DEF DrawSamples, At
<1>2. /\ modulus \in Modulus /\ Call(g).size \in Nat /\ gen[g].pos \in 0 .. Len(stream) - 1
      /\ gen[g].size \in Nat /\ Len(gen[g].ret) \in Nat /\ DOMAIN gen[g] = Fields
      /\ Call(g) = script[Len(gen[g].done) + 1]
  BY <1>1, ShapeOfCall
<1>3. c \in Nat /\ gen[g].pos \in Int /\ n \in Int
  <2>1. c \in Nat
    BY <1>1, <1>2
  <2>2. SampleSize(c, modulus) \in Int /\ BytesPerValue(modulus) \in Int
    <3> HIDE DEF c, modulus
    <3>1. c \in Int /\ modulus \in Modulus
      BY <1>2, <2>1
    <3>2. QED  BY <3>1, SampleSizeType, BytesPerValueType
  <2>3. gen[g].pos \in Int
    BY <1>2
  <2>4. QED  BY <2>1, <2>2, <2>3
<1>4. CASE BytesFail(n)
  <2>1. Respond(g, gen[g].pos, BytesError(n))
    BY <1>4 DEF DrawSamples
  <2>2. QED  BY <1>2, <2>1, RespondShape
<1>5. CASE ~BytesFail(n)
  <2>1. n \in Nat
    BY <1>3, <1>5 DEF BytesFail
  <2>2. /\ Encrypted(gen[g].pos, n) \in Seq(Byte) /\ Len(Encrypted(gen[g].pos, n)) = n
        /\ Advance(gen[g].pos, Filled(n)) \in 0 .. Len(stream) - 1
    BY <1>3, <2>1, EncryptedType, EncryptedBytes
  <2>3. /\ s.pos = Advance(gen[g].pos, Filled(n)) /\ s.arr = Encrypted(gen[g].pos, n)
        /\ s.size = gen[g].size /\ s.ret = gen[g].ret /\ s.pc = "sample" /\ s.i = 0
        /\ s.done = gen[g].done
    BY <1>2 DEF Fields
  <2>4. Power(modulus) => n = (c + 0 + 1) * BytesPerValue(modulus)
    BY <1>2, <1>3, PowerSample
  <2>5. Step(g, s)
    BY <1>5 DEF DrawSamples
  <2> HIDE DEF s, n
  <2>6. Shape(s)
    BY <1>1, <1>2, <2>1, <2>2, <2>3, <2>4 DEF Shape
  <2>7. QED  BY <2>5, <2>6, ShapeKeeps
<1>6. QED  BY <1>4, <1>5

LEMMA SampleShape ==
    ASSUME Inv, ShapeInv, NEW g \in Generator, Sample(g) \/ SampleBeyond(g)
    PROVE  ShapeInv'
<1> DEFINE modulus == Call(g).modulus
<1>1. PICK temp : /\ Sampling(g) /\ Keep(g, temp)
                  /\ temp \in 0 .. MaskRange(modulus) - 1
  <2>1. CASE Sample(g)
    <3> DEFINE temp == ValueAt(gen[g].arr, gen[g].i, modulus)
    <3>1. /\ Sampling(g) /\ Keep(g, temp) /\ ~At(g, "idle")
          /\ (gen[g].i + 1) * BytesPerValue(modulus) <= Len(gen[g].arr)
      BY <2>1 DEF Sample, Sampling, At
    <3>2. modulus \in Modulus /\ gen[g].arr \in Seq(Byte) /\ gen[g].i \in Nat
      BY <3>1, ShapeOfCall, WithinCall
    <3>3. temp \in 0 .. MaskRange(modulus) - 1
      <4> HIDE DEF modulus
      <4>1. QED  BY <3>1, <3>2, ValueAtType
    <3>4. QED  BY <3>1, <3>3
  <2>2. CASE SampleBeyond(g)
    BY <2>2 DEF SampleBeyond
  <2>3. QED  BY <2>1, <2>2
<1> DEFINE ret == IF temp \in Acceptable(modulus) THEN Append(gen[g].ret, temp)
                  ELSE gen[g].ret
           s == [gen[g] EXCEPT !.i = @ + 1, !.ret = ret]
<1>2. /\ At(g, "sample") /\ ~At(g, "idle") /\ Len(gen[g].ret) < gen[g].size
      /\ gen[g].i < Len(gen[g].arr)
  BY <1>1 DEF Sampling, At
<1>3. /\ modulus \in Modulus /\ Call(g).size \in Nat /\ gen[g].pos \in 0 .. Len(stream) - 1
      /\ gen[g].arr \in Seq(Byte)
      /\ gen[g].size \in Nat /\ Len(gen[g].ret) \in Nat /\ DOMAIN gen[g] = Fields
      /\ Call(g) = script[Len(gen[g].done) + 1]
  BY <1>2, ShapeOfCall
<1>4. gen[g].i \in Nat /\ gen[g].ret \in Seq(Below(Call(g))) /\ Shape(gen[g])
  BY <1>2, WithinCall DEF ShapeInv
<1>5. /\ Len(ret) \in {Len(gen[g].ret), Len(gen[g].ret) + 1}
      /\ Power(modulus) => Len(ret) = Len(gen[g].ret) + 1
  <2>1. temp \in Acceptable(modulus) => Len(ret) = Len(gen[g].ret) + 1
    <3> SUFFICES ASSUME temp \in Acceptable(modulus)
                 PROVE  Len(Append(gen[g].ret, temp)) = Len(gen[g].ret) + 1
      OBVIOUS
    <3>1. temp \in Below(Call(g))
      BY DEF Acceptable, Below
    <3> HIDE DEF Below
    <3>2. QED  BY <1>4, <3>1, AppendInSeq
  <2>2. Power(modulus) => temp \in Acceptable(modulus)
    BY <1>1 DEF Power, Acceptable
  <2>3. QED  BY <2>1, <2>2
<1>6. /\ s.pos = gen[g].pos /\ s.arr = gen[g].arr /\ s.size = gen[g].size
      /\ s.ret = ret /\ s.pc = "sample" /\ s.i = gen[g].i + 1 /\ s.done = gen[g].done
  BY <1>2, <1>3 DEF Fields, At
<1>7. Len(gen[g].arr) \in Nat
  <2> HIDE DEF Byte
  <2>1. QED  BY <1>3
<1>8. Step(g, s)
  BY <1>1 DEF Keep
<1> HIDE DEF ret, modulus
<1>9. Power(modulus) => gen[g].size - Len(ret) + (gen[g].i + 1) + 1
                          = gen[g].size - Len(gen[g].ret) + gen[g].i + 1
  <2> DEFINE z == gen[g].size
             l == Len(gen[g].ret)
             i == gen[g].i
             m == Len(ret)
  <2>1. z \in Int /\ l \in Int /\ i \in Int /\ (Power(modulus) => m = l + 1)
    BY <1>3, <1>4, <1>5
  <2> HIDE DEF z, l, i, m
  <2>2. Power(modulus) => z - m + (i + 1) + 1 = z - l + i + 1
    BY <2>1
  <2>3. QED  BY <2>2 DEF z, l, i, m
<1> HIDE DEF s
<1> USE DEF modulus
<1>10. Shape(s)
  <2>1. Len(ret) <= gen[g].size /\ gen[g].i + 1 <= Len(gen[g].arr)
    <3>1. Len(gen[g].arr) \in Nat
      BY <1>3
    <3>2. gen[g].i + 1 <= Len(gen[g].arr)
      BY <1>2, <1>4, <3>1
    <3> HIDE DEF ret
    <3>3. QED  BY <1>2, <1>3, <1>5, <3>2
  <2>2. Power(modulus) =>
          Len(gen[g].arr) = (gen[g].size - Len(gen[g].ret) + gen[g].i + 1) * BytesPerValue(modulus)
    BY <1>2, <1>3, <1>4, SMTT(30) DEF Shape, At
  <2>3. QED  BY <1>3, <1>6, <1>9, <2>1, <2>2 DEF Shape
<1>11. QED  BY <1>8, <1>10, ShapeKeeps

LEMMA NonZeroShape ==
    ASSUME Inv, ShapeInv, NEW g \in Generator,
           \/ EndSamples(g) \/ NonZeroSamples(g) \/ NonZeroEnd(g)
           \/ NonZeroKeep(g) \/ NonZeroDraw(g)
    PROVE  ShapeInv'
<1>1. ~At(g, "idle")
  BY DEF EndSamples, NonZeroSamples, NonZeroEnd, NonZeroKeep, NonZeroDraw, RangeFull,
         Filtering, At
<1>2. /\ Call(g).modulus \in Modulus /\ Call(g).size \in Nat
      /\ gen[g].pos \in 0 .. Len(stream) - 1 /\ gen[g].arr \in Seq(Byte)
      /\ gen[g].size \in Nat /\ Len(gen[g].ret) \in Nat /\ Len(gen[g].ret) <= gen[g].size
      /\ Call(g) = script[Len(gen[g].done) + 1] /\ DOMAIN gen[g] = Fields
      /\ gen[g].i \in Nat /\ Shape(gen[g])
  BY <1>1, ShapeOfCall, WithinCall DEF ShapeInv
<1>3. << >> \in Seq(Byte) /\ Len(<< >>) = 0
  OBVIOUS
<1>4. CASE EndSamples(g)
  <2> DEFINE s == [gen[g] EXCEPT !.pc = "range", !.arr = << >>, !.i = 0]
  <2>1. /\ s.pos = gen[g].pos /\ s.arr = << >> /\ s.size = gen[g].size
        /\ s.ret = gen[g].ret /\ s.pc = "range" /\ s.i = 0 /\ s.done = gen[g].done
    BY <1>2 DEF Fields
  <2>2. Step(g, s)
    BY <1>4 DEF EndSamples
  <2> HIDE DEF s
  <2>3. Shape(s)
    BY <1>2, <1>3, <2>1 DEF Shape
  <2>4. QED  BY <2>2, <2>3, ShapeKeeps
<1>5. CASE NonZeroSamples(g)
  <2> DEFINE s == [gen[g] EXCEPT !.pc = "filter", !.i = 0]
  <2>1. /\ s.pos = gen[g].pos /\ s.arr = gen[g].arr /\ s.size = gen[g].size
        /\ s.ret = gen[g].ret /\ s.pc = "filter" /\ s.i = 0 /\ s.done = gen[g].done
    BY <1>2 DEF Fields
  <2>2. Step(g, s) /\ gen[g].pc = "range"
    BY <1>5 DEF NonZeroSamples, RangeFull, At
  <2> HIDE DEF s
  <2>3. Shape(s)
    BY <1>2, <2>1, <2>2 DEF Shape
  <2>4. QED  BY <2>2, <2>3, ShapeKeeps
<1>6. CASE NonZeroEnd(g)
  <2> DEFINE s == [gen[g] EXCEPT !.pc = "nonzero", !.i = 0]
  <2>1. /\ s.pos = gen[g].pos /\ s.arr = gen[g].arr /\ s.size = gen[g].size
        /\ s.ret = gen[g].ret /\ s.pc = "nonzero" /\ s.i = 0 /\ s.done = gen[g].done
    BY <1>2 DEF Fields
  <2>2. Step(g, s) /\ gen[g].pc = "filter"
    BY <1>6 DEF NonZeroEnd, At
  <2> HIDE DEF s
  <2>3. Shape(s)
    BY <1>2, <2>1, <2>2 DEF Shape
  <2>4. QED  BY <2>2, <2>3, ShapeKeeps
<1>7. CASE NonZeroKeep(g)
  <2> DEFINE v == gen[g].ret[gen[g].i + 1]
             s == [gen[g] EXCEPT !.i = @ + 1, !.outer = IF v > 0 THEN Append(@, v) ELSE @]
  <2>1. /\ s.pos = gen[g].pos /\ s.arr = gen[g].arr /\ s.size = gen[g].size
        /\ s.ret = gen[g].ret /\ s.pc = gen[g].pc /\ s.i = gen[g].i + 1
        /\ s.done = gen[g].done
    BY <1>2 DEF Fields
  <2>2. Step(g, s) /\ gen[g].pc = "filter" /\ gen[g].i + 1 <= Len(gen[g].ret)
    BY <1>2, <1>7 DEF NonZeroKeep, Filtering, At
  <2> HIDE DEF s
  <2>3. Shape(s)
    BY <1>2, <2>1, <2>2 DEF Shape
  <2>4. QED  BY <2>2, <2>3, ShapeKeeps
<1>8. CASE NonZeroDraw(g)
  <2> DEFINE c == Call(g).size - Len(gen[g].outer)
             size == NonZeroSampleSize(c, Call(g).modulus)
             s == [gen[g] EXCEPT !.pc = "range", !.ret = << >>, !.size = size]
  <2>1. /\ s.pos = gen[g].pos /\ s.arr = gen[g].arr /\ s.size = size
        /\ s.ret = << >> /\ s.pc = "range" /\ s.i = gen[g].i /\ s.done = gen[g].done
    BY <1>2 DEF Fields
  <2>2. /\ Step(g, s) /\ gen[g].pc = "nonzero" /\ Len(gen[g].outer) < Call(g).size
    BY <1>8 DEF NonZeroDraw, At
  <2>3. size \in Nat
    <3>1. Len(gen[g].outer) \in Nat
      BY <1>1, WithinCall
    <3>2. c \in Nat
      BY <1>2, <2>2, <3>1
    <3>3. Call(g).modulus - 1 \in Nat \ {0}
      BY <1>2, SMTT(30) DEF Modulus
    <3>4. \A x \in Nat, y \in Nat \ {0} : x + 1 + x \div y \in Nat
      OBVIOUS
    <3> HIDE DEF c
    <3>5. QED  BY <3>2, <3>3, <3>4 DEF NonZeroSampleSize, Wanted
  <2> HIDE DEF s, size
  <2>4. Shape(s)
    BY <1>2, <1>3, <2>1, <2>2, <2>3 DEF Shape
  <2>5. QED  BY <2>2, <2>4, ShapeKeeps
<1>9. QED  BY <1>4, <1>5, <1>6, <1>7, <1>8

LEMMA ReturnShape ==
    ASSUME Inv, ShapeInv, NEW g \in Generator, RangeReturn(g) \/ NonZeroReturn(g)
    PROVE  ShapeInv'
<1>1. ~At(g, "idle")
  BY DEF RangeReturn, NonZeroReturn, RangeFull, At
<1>2. gen[g].pos \in 0 .. Len(stream) - 1
  BY <1>1, ShapeOfCall
<1>3. QED  BY <1>2, RespondShape DEF RangeReturn, NonZeroReturn

LEMMA ShapeStep == Inv /\ ShapeInv /\ [Next]_vars => ShapeInv'
<1> SUFFICES ASSUME Inv, ShapeInv, [Next]_vars PROVE ShapeInv'
  OBVIOUS
<1>1. CASE UNCHANGED vars
  BY <1>1 DEF vars, ShapeInv, Shape
<1>2. CASE Next
  <2>1. PICK g \in Generator : GeneratorStep(g)
    BY <1>2 DEF Next
  <2>2. QED  BY <2>1, IdleShape, DrawShape, SampleShape, NonZeroShape, ReturnShape
             DEF GeneratorStep
<1>3. QED  BY <1>1, <1>2

LEMMA ShapeType == Inv /\ ShapeInv => TypeOK
<1> SUFFICES ASSUME Inv, ShapeInv, NEW g \in Generator
             PROVE  /\ gen[g].pc \in {"idle", "range", "sample", "nonzero", "filter"}
                    /\ gen[g].pos \in 0 .. Len(stream) - 1
                    /\ gen[g].arr \in Seq(Byte)
                    /\ gen[g].i \in 0 .. Len(IF At(g, "filter") THEN gen[g].ret ELSE gen[g].arr)
                    /\ Len(gen[g].ret) <= gen[g].size
                    /\ gen[g].outer \in Seq(0 .. Word - 1)
  BY DEF TypeOK, ShapeInv
<1>1. Shape(gen[g]) /\ StateInv(gen[g])
  BY DEF ShapeInv, Inv
<1>2. gen[g].i \in Nat /\ Len(gen[g].arr) \in Nat /\ Len(gen[g].ret) \in Nat
  <2>1. CASE At(g, "idle")
    BY <1>1, <2>1 DEF StateInv, BetweenCalls, Shape, At
  <2>2. CASE ~At(g, "idle")
    <3>1. gen[g].arr \in Seq(Byte)
      BY <1>1 DEF Shape
    <3>2. Len(gen[g].arr) \in Nat
      <4> HIDE DEF Byte
      <4>1. QED  BY <3>1
    <3>3. QED  BY <2>2, <3>2, WithinCall, ShapeOfCall
  <2>3. QED  BY <2>1, <2>2
<1>3. gen[g].i \in 0 .. Len(IF At(g, "filter") THEN gen[g].ret ELSE gen[g].arr)
  BY <1>1, <1>2 DEF Shape, StateInv, At
<1>4. gen[g].outer \in Seq(0 .. Word - 1)
  <2>1. CASE At(g, "idle")
    <3>1. gen[g].outer = << >>
      BY <1>1, <2>1 DEF StateInv, BetweenCalls, At
    <3>2. QED  BY <3>1
  <2>2. CASE ~At(g, "idle")
    <3>1. gen[g].outer \in Seq(1 .. Call(g).modulus - 1) /\ Call(g).modulus \in Modulus
      BY <2>2, WithinCall, ShapeOfCall
    <3>2. 1 .. Call(g).modulus - 1 \subseteq 0 .. Word - 1
      BY <3>1, PowerAssumption, GeneratorAssumption DEF Modulus
    <3>3. ASSUME NEW S, NEW T, S \subseteq T, NEW q \in Seq(S) PROVE q \in Seq(T)
      BY <3>3
    <3> DEFINE A == 1 .. Call(g).modulus - 1
               B == 0 .. Word - 1
    <3> HIDE DEF A, B
    <3>4. A \subseteq B /\ gen[g].outer \in Seq(A)
      BY <3>1, <3>2 DEF A, B
    <3>5. gen[g].outer \in Seq(B)
      BY <3>3, <3>4
    <3>6. QED  BY <3>5 DEF B
  <2>3. QED  BY <2>1, <2>2
<1>5. QED  BY <1>1, <1>3, <1>4 DEF Shape, StateInv

(***************************************************************************)
(* The type invariant: positions stay in the stream, batches hold bytes,   *)
(* and no loop runs past what it goes through.                             *)
(***************************************************************************)
THEOREM TypeCorrect == Spec => []TypeOK
<1>1. Init => Inv /\ ShapeInv
  BY InitInv, ShapeInit
<1>2. Inv /\ ShapeInv /\ [Next]_vars => Inv' /\ ShapeInv'
  BY NextInv, ShapeStep
<1>3. QED  BY <1>1, <1>2, ShapeType, PTL DEF Spec
-----------------------------------------------------------------------------
(***************************************************************************)
(* Generators with one seed.  Succ is the step a state allows as long as   *)
(* no loop passes the bytes it drew: the stream and the script decide it.  *)
(***************************************************************************)
Now(s) == script[Len(s.done) + 1]

Returning(s, pos, result) ==
    [Start EXCEPT !.pos = pos, !.from = pos,
       !.done = Append(s.done, [from |-> s.from, result |-> result])]

SuccIdle(s) ==
    LET call == Now(s) IN
    IF call.op = "bytes" THEN
        IF BytesFail(call.size) THEN Returning(s, s.pos, BytesError(call.size))
        ELSE Returning(s, Advance(s.pos, Filled(call.size)), OK(Encrypted(s.pos, call.size)))
    ELSE IF call.modulus <= 1 \/ call.size < 0 THEN Returning(s, s.pos, InvalidArgument)
    ELSE [s EXCEPT !.pc = call.op, !.size = call.size]

SuccRange(s) ==
    LET call == Now(s)
        n == SampleSize(s.size - Len(s.ret), call.modulus) * BytesPerValue(call.modulus) IN
    IF Len(s.ret) < s.size THEN
        IF BytesFail(n) THEN Returning(s, s.pos, BytesError(n))
        ELSE [s EXCEPT !.pc = "sample", !.i = 0, !.arr = Encrypted(s.pos, n),
                       !.pos = Advance(s.pos, Filled(n))]
    ELSE IF call.op = "range" THEN Returning(s, s.pos, OK(s.ret))
    ELSE [s EXCEPT !.pc = "filter", !.i = 0]

SuccSample(s) ==
    LET call == Now(s)
        temp == ValueAt(s.arr, s.i, call.modulus) IN
    IF s.i < Len(s.arr) /\ Len(s.ret) < s.size
    THEN [s EXCEPT !.i = @ + 1,
            !.ret = IF temp \in Acceptable(call.modulus) THEN Append(@, temp) ELSE @]
    ELSE [s EXCEPT !.pc = "range", !.arr = << >>, !.i = 0]

SuccFilter(s) ==
    LET v == s.ret[s.i + 1] IN
    IF s.i < Len(s.ret) /\ Len(s.outer) < Now(s).size
    THEN [s EXCEPT !.i = @ + 1, !.outer = IF v > 0 THEN Append(@, v) ELSE @]
    ELSE [s EXCEPT !.pc = "nonzero", !.i = 0]

SuccNonZero(s) ==
    LET call == Now(s) IN
    IF Len(s.outer) < call.size
    THEN [s EXCEPT !.pc = "range", !.ret = << >>,
            !.size = NonZeroSampleSize(call.size - Len(s.outer), call.modulus)]
    ELSE Returning(s, s.pos, OK(s.outer))

Succ(s) ==
    IF s.pc = "idle" THEN SuccIdle(s)
    ELSE IF s.pc = "range" THEN SuccRange(s)
    ELSE IF s.pc = "sample" THEN SuccSample(s)
    ELSE IF s.pc = "filter" THEN SuccFilter(s)
    ELSE SuccNonZero(s)

\* A step of one generator: it takes it to t, which ends the call or not.
Moves(g, t) ==
    /\ Step(g, t)
    /\ \/ t.pc # "idle" /\ t.done = gen[g].done
       \/ t.pc = "idle" /\ \E x : t.done = Append(gen[g].done, x)

LEMMA RespondMoves ==
    ASSUME Inv, NEW g \in Generator, NEW pos, NEW result, Respond(g, pos, result)
    PROVE  Moves(g, Returning(gen[g], pos, result))
<1> DEFINE t == Returning(gen[g], pos, result)
<1>1. t.pc = "idle" /\ t.done = Append(gen[g].done, [from |-> gen[g].from, result |-> result])
  BY DEF Returning, Start
<1>2. Step(g, t)
  BY DEF Respond, Returning
<1>3. QED  BY <1>1, <1>2 DEF Moves

LEMMA IdleMoves ==
    ASSUME Inv, ShapeInv, NEW g \in Generator,
           GeneratePseudorandomBytes(g) \/ InvalidCall(g) \/ Begin(g)
    PROVE  Moves(g, Succ(gen[g]))
<1> DEFINE s == gen[g]
           call == Call(g)
<1>1. /\ s.pc = "idle" /\ Succ(s) = SuccIdle(s) /\ DOMAIN s = Fields /\ call = Now(s)
      /\ call \in CallType
  <2>1. Pending(g) /\ At(g, "idle")
    BY DEF GeneratePseudorandomBytes, InvalidCall, Begin
  <2>2. QED  BY <2>1, CallOfScript DEF At, Succ, StateInv, Now, Call
<1>2. CASE GeneratePseudorandomBytes(g)
  <2> DEFINE n == call.size
  <2>1. call.op = "bytes"
    BY <1>2 DEF GeneratePseudorandomBytes
  <2>2. CASE BytesFail(n)
    <3>1. Respond(g, s.pos, BytesError(n))
      BY <1>2, <2>2 DEF GeneratePseudorandomBytes
    <3>2. Succ(s) = Returning(s, s.pos, BytesError(n))
      BY <1>1, <2>1, <2>2 DEF SuccIdle
    <3>3. QED  BY <3>1, <3>2, RespondMoves
  <2>3. CASE ~BytesFail(n)
    <3>1. Respond(g, Advance(s.pos, Filled(n)), OK(Encrypted(s.pos, n)))
      BY <1>2, <2>3 DEF GeneratePseudorandomBytes
    <3>2. Succ(s) = Returning(s, Advance(s.pos, Filled(n)), OK(Encrypted(s.pos, n)))
      BY <1>1, <2>1, <2>3 DEF SuccIdle
    <3>3. QED  BY <3>1, <3>2, RespondMoves
  <2>4. QED  BY <2>2, <2>3
<1>3. CASE InvalidCall(g)
  <2>1. /\ call.op # "bytes" /\ (call.modulus <= 1 \/ call.size < 0)
        /\ Respond(g, s.pos, InvalidArgument)
    BY <1>3 DEF InvalidCall
  <2>2. Succ(s) = Returning(s, s.pos, InvalidArgument)
    BY <1>1, <2>1 DEF SuccIdle
  <2>3. QED  BY <2>1, <2>2, RespondMoves
<1>4. CASE Begin(g)
  <2> DEFINE t == [s EXCEPT !.pc = call.op, !.size = call.size]
  <2>1. /\ call.op # "bytes" /\ call.modulus > 1 /\ call.size >= 0 /\ Step(g, t)
    BY <1>4 DEF Begin
  <2>2. ~(call.modulus <= 1 \/ call.size < 0)
    BY <1>1, <2>1 DEF CallType
  <2>3. Succ(s) = t
    BY <1>1, <2>1, <2>2 DEF SuccIdle
  <2>4. t.pc = call.op /\ t.done = s.done /\ call.op # "idle"
    BY <1>1 DEF Fields, CallType
  <2>5. QED  BY <2>1, <2>3, <2>4 DEF Moves
<1>5. QED  BY <1>2, <1>3, <1>4

LEMMA RangeMoves ==
    ASSUME Inv, ShapeInv, NEW g \in Generator,
           DrawSamples(g) \/ RangeReturn(g) \/ NonZeroSamples(g)
    PROVE  Moves(g, Succ(gen[g]))
<1> DEFINE s == gen[g]
           call == Call(g)
           n == SampleSize(s.size - Len(s.ret), call.modulus) * BytesPerValue(call.modulus)
<1>1. s.pc = "range" /\ ~At(g, "idle")
  BY DEF DrawSamples, RangeReturn, NonZeroSamples, RangeFull, At
<1>2. /\ Succ(s) = SuccRange(s) /\ DOMAIN s = Fields /\ call = Now(s)
      /\ s.size \in Nat /\ Len(s.ret) \in Nat
  BY <1>1, ShapeOfCall DEF Succ, Now
<1>3. CASE DrawSamples(g)
  <2>1. Len(s.ret) < s.size
    BY <1>3 DEF DrawSamples
  <2>2. CASE BytesFail(n)
    <3>1. Respond(g, s.pos, BytesError(n))
      BY <1>3, <2>2 DEF DrawSamples
    <3>2. Succ(s) = Returning(s, s.pos, BytesError(n))
      BY <1>2, <2>1, <2>2 DEF SuccRange
    <3>3. QED  BY <3>1, <3>2, RespondMoves
  <2>3. CASE ~BytesFail(n)
    <3> DEFINE t == [s EXCEPT !.pc = "sample", !.i = 0, !.arr = Encrypted(s.pos, n),
                              !.pos = Advance(s.pos, Filled(n))]
    <3>1. Step(g, t)
      BY <1>3, <2>3 DEF DrawSamples
    <3>2. Succ(s) = t
      BY <1>2, <2>1, <2>3 DEF SuccRange
    <3>3. t.pc = "sample" /\ t.done = s.done
      BY <1>2 DEF Fields
    <3>4. QED  BY <3>1, <3>2, <3>3 DEF Moves
  <2>4. QED  BY <2>2, <2>3
<1>4. CASE RangeReturn(g)
  <2>1. ~(Len(s.ret) < s.size) /\ call.op = "range" /\ Respond(g, s.pos, OK(s.ret))
    BY <1>2, <1>4 DEF RangeReturn, RangeFull
  <2>2. Succ(s) = Returning(s, s.pos, OK(s.ret))
    BY <1>2, <2>1 DEF SuccRange
  <2>3. QED  BY <2>1, <2>2, RespondMoves
<1>5. CASE NonZeroSamples(g)
  <2> DEFINE t == [s EXCEPT !.pc = "filter", !.i = 0]
  <2>1. ~(Len(s.ret) < s.size) /\ call.op # "range" /\ Step(g, t)
    BY <1>2, <1>5 DEF NonZeroSamples, RangeFull
  <2>2. Succ(s) = t
    BY <1>2, <2>1 DEF SuccRange
  <2>3. t.pc = "filter" /\ t.done = s.done
    BY <1>2 DEF Fields
  <2>4. QED  BY <2>1, <2>2, <2>3 DEF Moves
<1>6. QED  BY <1>3, <1>4, <1>5

LEMMA SampleMoves ==
    ASSUME Inv, ShapeInv, NEW g \in Generator, Sample(g) \/ EndSamples(g)
    PROVE  Moves(g, Succ(gen[g]))
<1> DEFINE s == gen[g]
           call == Call(g)
<1>1. s.pc = "sample" /\ ~At(g, "idle")
  BY DEF Sample, EndSamples, Sampling, At
<1>2. /\ Succ(s) = SuccSample(s) /\ DOMAIN s = Fields /\ call = Now(s)
      /\ s.size \in Nat /\ Len(s.ret) \in Nat /\ s.i \in Nat /\ Len(s.arr) \in Nat
  <2>1. s.arr \in Seq(Byte)
    BY <1>1, ShapeOfCall
  <2>2. Len(s.arr) \in Nat
    <3> HIDE DEF Byte
    <3>1. QED  BY <2>1
  <2>3. QED  BY <1>1, <2>2, ShapeOfCall, WithinCall DEF Succ, Now
<1>3. CASE Sample(g)
  <2> DEFINE temp == ValueAt(s.arr, s.i, call.modulus)
             t == [s EXCEPT !.i = @ + 1,
                    !.ret = IF temp \in Acceptable(call.modulus) THEN Append(@, temp) ELSE @]
  <2>1. s.i < Len(s.arr) /\ Len(s.ret) < s.size /\ Step(g, t)
    BY <1>3 DEF Sample, Sampling, Keep
  <2>2. Succ(s) = t
    BY <1>2, <2>1 DEF SuccSample
  <2>3. t.pc = "sample" /\ t.done = s.done
    BY <1>1, <1>2 DEF Fields
  <2>4. QED  BY <2>1, <2>2, <2>3 DEF Moves
<1>4. CASE EndSamples(g)
  <2> DEFINE t == [s EXCEPT !.pc = "range", !.arr = << >>, !.i = 0]
  <2>1. ~(s.i < Len(s.arr) /\ Len(s.ret) < s.size) /\ Step(g, t)
    BY <1>2, <1>4 DEF EndSamples
  <2>2. Succ(s) = t
    BY <1>2, <2>1 DEF SuccSample
  <2>3. t.pc = "range" /\ t.done = s.done
    BY <1>2 DEF Fields
  <2>4. QED  BY <2>1, <2>2, <2>3 DEF Moves
<1>5. QED  BY <1>3, <1>4

LEMMA NonZeroMoves ==
    ASSUME Inv, ShapeInv, NEW g \in Generator,
           NonZeroKeep(g) \/ NonZeroEnd(g) \/ NonZeroDraw(g) \/ NonZeroReturn(g)
    PROVE  Moves(g, Succ(gen[g]))
<1> DEFINE s == gen[g]
           call == Call(g)
<1>1. s.pc \in {"filter", "nonzero"} /\ ~At(g, "idle")
  BY DEF NonZeroKeep, NonZeroEnd, NonZeroDraw, NonZeroReturn, Filtering, At
<1>2. /\ DOMAIN s = Fields /\ call = Now(s) /\ call.size \in Nat
      /\ Len(s.ret) \in Nat /\ s.i \in Nat /\ Len(s.outer) \in Nat
      /\ s.pc = "filter" => Succ(s) = SuccFilter(s)
      /\ s.pc = "nonzero" => Succ(s) = SuccNonZero(s)
  <2>1. Len(s.outer) \in Nat
    BY <1>1, WithinCall
  <2>2. QED  BY <1>1, <2>1, ShapeOfCall, WithinCall DEF Succ, Now
<1>3. CASE NonZeroKeep(g)
  <2> DEFINE v == s.ret[s.i + 1]
             t == [s EXCEPT !.i = @ + 1, !.outer = IF v > 0 THEN Append(@, v) ELSE @]
  <2>1. /\ s.i < Len(s.ret) /\ Len(s.outer) < call.size /\ Step(g, t) /\ s.pc = "filter"
    BY <1>3 DEF NonZeroKeep, Filtering, At
  <2>2. Succ(s) = t
    BY <1>2, <2>1 DEF SuccFilter
  <2>3. t.pc = "filter" /\ t.done = s.done
    BY <1>2, <2>1 DEF Fields
  <2>4. QED  BY <2>1, <2>2, <2>3 DEF Moves
<1>4. CASE NonZeroEnd(g)
  <2> DEFINE t == [s EXCEPT !.pc = "nonzero", !.i = 0]
  <2>1. /\ ~(s.i < Len(s.ret) /\ Len(s.outer) < call.size) /\ Step(g, t) /\ s.pc = "filter"
    BY <1>4 DEF NonZeroEnd, Filtering, At
  <2>2. Succ(s) = t
    BY <1>2, <2>1 DEF SuccFilter
  <2>3. t.pc = "nonzero" /\ t.done = s.done
    BY <1>2 DEF Fields
  <2>4. QED  BY <2>1, <2>2, <2>3 DEF Moves
<1>5. CASE NonZeroDraw(g)
  <2> DEFINE t == [s EXCEPT !.pc = "range", !.ret = << >>,
                    !.size = NonZeroSampleSize(call.size - Len(s.outer), call.modulus)]
  <2>1. Len(s.outer) < call.size /\ Step(g, t) /\ s.pc = "nonzero"
    BY <1>5 DEF NonZeroDraw, At
  <2>2. Succ(s) = t
    BY <1>2, <2>1 DEF SuccNonZero
  <2>3. t.pc = "range" /\ t.done = s.done
    BY <1>2 DEF Fields
  <2>4. QED  BY <2>1, <2>2, <2>3 DEF Moves
<1>6. CASE NonZeroReturn(g)
  <2>1. ~(Len(s.outer) < call.size) /\ Respond(g, s.pos, OK(s.outer)) /\ s.pc = "nonzero"
    BY <1>2, <1>6 DEF NonZeroReturn, At
  <2>2. Succ(s) = Returning(s, s.pos, OK(s.outer))
    BY <1>2, <2>1 DEF SuccNonZero
  <2>3. QED  BY <2>1, <2>2, RespondMoves
<1>7. QED  BY <1>3, <1>4, <1>5, <1>6

\* What reads beyond the vector, and when nothing does.
LEMMA BeyondMoves ==
    ASSUME Inv, ShapeInv, NEW g \in Generator, SampleBeyond(g)
    PROVE  (\E t : Moves(g, t)) /\ ~WithinDraw(Len(gen[g].done) + 1)
<1> DEFINE s == gen[g]
           m == Call(g).modulus
           w == BytesPerValue(m)
<1>1. /\ s.pc = "sample" /\ ~At(g, "idle") /\ s.i < Len(s.arr) /\ Len(s.ret) < s.size
      /\ (s.i + 1) * w > Len(s.arr)
  BY DEF SampleBeyond, Sampling, At
<1>2. /\ DOMAIN s = Fields /\ Call(g) = script[Len(s.done) + 1] /\ m \in Modulus
      /\ s.size \in Nat /\ Len(s.ret) \in Nat /\ s.i \in Nat /\ Len(s.arr) \in Nat
      /\ Shape(s) /\ Len(s.done) \in Nat /\ Call(g).op # "bytes"
  <2>1. s.arr \in Seq(Byte)
    BY <1>1, ShapeOfCall
  <2>2. Len(s.arr) \in Nat
    <3> HIDE DEF Byte
    <3>1. QED  BY <2>1
  <2>3. Len(s.done) \in Nat
    BY DEF Inv, StateInv, IsTuple
  <2>4. QED  BY <1>1, <2>2, <2>3, ShapeOfCall, WithinCall DEF ShapeInv
<1>3. \E t : Moves(g, t)
  <2>1. PICK temp : Keep(g, temp)
    BY DEF SampleBeyond
  <2> DEFINE t == [s EXCEPT !.i = @ + 1,
                    !.ret = IF temp \in Acceptable(m) THEN Append(@, temp) ELSE @]
  <2>2. Step(g, t) /\ t.pc = "sample" /\ t.done = s.done
    BY <1>1, <1>2, <2>1 DEF Keep, Fields
  <2>3. QED  BY <2>2 DEF Moves
<1>4. w \in Nat \ {0}
  BY <1>2, BytesPerValueType
<1>5. w # 1
  <2>1. (s.i + 1) * 1 = s.i + 1
    BY <1>2
  <2>2. QED  BY <1>1, <1>2, <2>1
<1>6. ~Power(m)
  <2> SUFFICES ASSUME Power(m) PROVE FALSE
    OBVIOUS
  <2> DEFINE a == s.i + 1
             b == s.size - Len(s.ret) + s.i + 1
  <2>1. Len(s.arr) = b * w
    BY <1>1, <1>2 DEF Shape
  <2>2. a \in Nat /\ b \in Nat /\ a <= b
    <3>1. \A i, z, l \in Nat :
            l < z => i + 1 \in Nat /\ z - l + i + 1 \in Nat /\ i + 1 <= z - l + i + 1
      OBVIOUS
    <3> DEFINE i == s.i
               z == s.size
               l == Len(s.ret)
    <3>2. a = i + 1 /\ b = z - l + i + 1
      OBVIOUS
    <3>3. i \in Nat /\ z \in Nat /\ l \in Nat /\ l < z
      BY <1>1, <1>2
    <3> HIDE DEF a, b, i, z, l
    <3>4. QED  BY <3>1, <3>2, <3>3
  <2>3. \A x, y, z \in Nat : x <= y => x * z <= y * z
    <3>1. \A y, x, z \in Nat : x <= y => y * z = x * z + (y - x) * z /\ (y - x) * z >= 0
      OBVIOUS
    <3>2. \A x, y, z \in Nat : x * z \in Int /\ y * z \in Int
      OBVIOUS
    <3>3. QED  BY <3>1, <3>2
  <2> HIDE DEF a, b, w
  <2>4. a * w <= b * w
    BY <1>4, <2>2, <2>3
  <2>5. a * w > b * w
    BY <1>1, <2>1 DEF a
  <2>6. a * w \in Int /\ b * w \in Int
    BY <1>4, <2>2
  <2>7. QED  BY <2>4, <2>5, <2>6
<1>7. m > 1
  BY <1>2 DEF Modulus
<1>8. QED
  <2>1. Len(s.done) + 1 \in 1 .. Len(s.done) + 1 /\ ~(m <= 1)
    BY <1>2, <1>7 DEF Modulus
  <2>2. QED  BY <1>2, <1>3, <1>5, <1>6, <2>1 DEF WithinDraw, Power

\* The states of a generator that passes no vector, the first n of them.  What
\* has been returned on the way stays.
Extends(a, b) == \A k \in DOMAIN a : k \in DOMAIN b /\ b[k] = a[k]

Trajectory(T, n) ==
    /\ T[0] = Start
    /\ \A i \in 1 .. n : T[i] = Succ(T[i - 1])
    /\ \A i, j \in 0 .. n : i <= j => Extends(T[i].done, T[j].done)

\* The call that a state is in, or the last one that has returned.
Latest(s) == Len(s.done) + (IF s.pc = "idle" THEN 0 ELSE 1)

Follows(T, n, s) ==
    /\ WithinDraw(Latest(s)) => \E i \in 0 .. n : s = T[i]
    /\ \A k \in DOMAIN s.done :
          WithinDraw(k) => \E i \in 0 .. n : k \in DOMAIN T[i].done /\ T[i].done[k] = s.done[k]

Together(T, n) == Trajectory(T, n) /\ \A g \in Generator : Follows(T, n, gen[g])
OnTrajectory == \E n \in Nat : \E T : Together(T, n)

LEMMA TrajectoryInit == Init => OnTrajectory
<1> SUFFICES ASSUME Init PROVE OnTrajectory
  OBVIOUS
<1> DEFINE T == [k \in 0 .. 0 |-> Start]
<1>1. Trajectory(T, 0)
  BY DEF Trajectory, Extends
<1>2. ASSUME NEW g \in Generator PROVE Follows(T, 0, gen[g])
  <2>1. gen[g] = Start /\ T[0] = Start /\ Start.done = << >>
    BY DEF Init, Start
  <2>2. QED  BY <2>1 DEF Follows
<1>3. QED  BY <1>1, <1>2 DEF OnTrajectory, Together

LEMMA WithinDrawBefore ==
    ASSUME NEW k \in Nat, WithinDraw(k + 1)
    PROVE  WithinDraw(k)
<1>1. 1 .. k \subseteq 1 .. k + 1
  OBVIOUS
<1>2. QED  BY <1>1 DEF WithinDraw

LEMMA MovesSame ==
    ASSUME NEW g \in Generator, NEW t, Moves(g, t)
    PROVE  stream' = stream /\ script' = script
BY DEF Moves, Step

LEMMA SameTrajectory ==
    ASSUME NEW T, NEW n, stream' = stream, script' = script
    PROVE  /\ Trajectory(T, n)' <=> Trajectory(T, n)
           /\ \A s : Follows(T, n, s)' <=> Follows(T, n, s)
<1>1. \A s : Succ(s)' = Succ(s)
  BY DEF Succ, SuccIdle, SuccRange, SuccSample, SuccFilter, SuccNonZero, Now, Returning,
         Encrypted, Take, Advance
<1>2. \A k : WithinDraw(k)' <=> WithinDraw(k)
  BY DEF WithinDraw
<1>3. QED  BY <1>1, <1>2 DEF Trajectory, Follows

LEMMA TupleAppend ==
    ASSUME NEW d, IsTuple(d), NEW x
    PROVE  /\ Len(Append(d, x)) = Len(d) + 1 /\ DOMAIN Append(d, x) = 1 .. Len(d) + 1
           /\ \A k \in 1 .. Len(d) : Append(d, x)[k] = d[k]
<1>1. Len(d) \in Nat
  BY DEF IsTuple
<1>2. d \in Seq({d[k] : k \in 1 .. Len(d)} \cup {x})
  <2>1. d \in [1 .. Len(d) -> {d[k] : k \in 1 .. Len(d)} \cup {x}]
    BY Zenon DEF IsTuple
  <2>2. QED  BY <1>1, <2>1, FunctionIsSequence
<1>3. QED  BY <1>1, <1>2

\* What has returned stays when a generator moves.
LEMMA MovesExtend ==
    ASSUME Inv, NEW g \in Generator, NEW t, Moves(g, t)
    PROVE  /\ Extends(gen[g].done, t.done)
           /\ Len(gen[g].done) \in Nat
           /\ DOMAIN gen[g].done = 1 .. Len(gen[g].done)
           /\ Latest(t) = Len(gen[g].done) + 1
           /\ DOMAIN t.done \subseteq 1 .. Len(gen[g].done) + 1
<1> DEFINE d == gen[g].done
<1>1. IsTuple(d)
  BY DEF Inv, StateInv
<1>2. Len(d) \in Nat /\ DOMAIN d = 1 .. Len(d)
  BY <1>1 DEF IsTuple
<1>3. CASE t.pc # "idle" /\ t.done = d
  BY <1>2, <1>3 DEF Extends, Latest
<1>4. CASE t.pc = "idle" /\ \E x : t.done = Append(d, x)
  <2>1. PICK x : t.done = Append(d, x)
    BY <1>4
  <2>2. /\ Len(t.done) = Len(d) + 1 /\ DOMAIN t.done = 1 .. Len(d) + 1
        /\ \A k \in 1 .. Len(d) : t.done[k] = d[k]
    BY <1>1, <2>1, TupleAppend
  <2>3. QED  BY <1>2, <1>4, <2>2 DEF Extends, Latest
<1>5. QED  BY <1>3, <1>4 DEF Moves

\* A step that follows the trajectory, which it may lengthen.
LEMMA FollowingStep ==
    ASSUME Inv, NEW n \in Nat, NEW T, Together(T, n), NEW g \in Generator,
           Moves(g, Succ(gen[g])), WithinDraw(Len(gen[g].done) + 1)
    PROVE  OnTrajectory'
<1> DEFINE s == gen[g]
           t == Succ(s)
<1>1. /\ Extends(s.done, t.done) /\ Len(s.done) \in Nat
      /\ gen' = [gen EXCEPT ![g] = t] /\ stream' = stream /\ script' = script
      /\ DOMAIN gen = Generator
  BY MovesExtend DEF Moves, Step, Inv
<1>2. WithinDraw(Latest(s))
  <2> DEFINE c == Len(s.done)
  <2>1. c \in Nat /\ c + 0 = c /\ WithinDraw(c + 1)
    BY <1>1
  <2>2. WithinDraw(c)
    <3> HIDE DEF c
    <3>1. QED  BY <2>1, WithinDrawBefore
  <2>3. QED  BY <2>1, <2>2 DEF Latest
<1>3. PICK i \in 0 .. n : s = T[i]
  BY <1>2 DEF Together, Follows
<1> DEFINE Along(U, m) == /\ m >= n /\ Trajectory(U, m)
                          /\ \A k \in 0 .. n : U[k] = T[k]
                          /\ \E j \in 0 .. m : t = U[j]
<1>4. \E m \in Nat : \E U : Along(U, m)
  <2>1. CASE i < n
    <3>1. T[i + 1] = t /\ i + 1 \in 0 .. n
      <4>1. i + 1 \in 1 .. n /\ (i + 1) - 1 = i
        BY <2>1
      <4>2. QED  BY <1>3, <4>1 DEF Together, Trajectory
    <3>2. Along(T, n)
      BY <3>1 DEF Together
    <3>3. QED  BY <3>2
  <2>2. CASE i = n
    <3> DEFINE U == [k \in 0 .. n + 1 |-> IF k <= n THEN T[k] ELSE t]
    <3>1. (\A k \in 0 .. n : U[k] = T[k]) /\ U[n + 1] = t
      <4>1. (\A k \in 0 .. n : k \in 0 .. n + 1 /\ k <= n) /\ n + 1 \in 0 .. n + 1 /\ ~(n + 1 <= n)
        OBVIOUS
      <4> HIDE DEF t
      <4>2. QED  BY <4>1
    <3> HIDE DEF U
    <3>2. U[0] = Start
      BY <3>1 DEF Together, Trajectory
    <3>3. ASSUME NEW k \in 1 .. n + 1 PROVE U[k] = Succ(U[k - 1])
      <4>1. CASE k \in 1 .. n
        <5>1. U[k] = T[k] /\ U[k - 1] = T[k - 1] /\ T[k] = Succ(T[k - 1])
          BY <3>1, <4>1 DEF Together, Trajectory
        <5>2. QED  BY <5>1
      <4>2. CASE k = n + 1
        <5>1. k - 1 = n /\ U[n] = s /\ U[k] = t
          BY <1>3, <2>2, <3>1, <4>2
        <5>2. QED  BY <5>1
      <4>3. QED  BY <4>1, <4>2
    <3>4. ASSUME NEW k \in 0 .. n + 1, NEW j \in 0 .. n + 1, k <= j
          PROVE  Extends(U[k].done, U[j].done)
      <4>1. CASE j \in 0 .. n
        <5>1. k \in 0 .. n /\ U[k] = T[k] /\ U[j] = T[j]
          BY <3>1, <3>4, <4>1
        <5>2. QED  BY <3>4, <4>1, <5>1 DEF Together, Trajectory
      <4>2. CASE j = n + 1 /\ k \in 0 .. n
        <5>1. Extends(T[k].done, T[n].done) /\ T[n] = s /\ U[k] = T[k] /\ U[j] = t
          BY <1>3, <2>2, <3>1, <4>2 DEF Together, Trajectory
        <5>2. QED  BY <1>1, <5>1 DEF Extends
      <4>3. CASE j = n + 1 /\ k = n + 1
        BY <4>3 DEF Extends
      <4>4. QED  BY <3>4, <4>1, <4>2, <4>3
    <3>5. Trajectory(U, n + 1)
      BY <3>2, <3>3, <3>4 DEF Trajectory
    <3>6. n + 1 \in Nat /\ n + 1 >= n /\ n + 1 \in 0 .. n + 1
      OBVIOUS
    <3>7. Along(U, n + 1)
      BY <3>1, <3>5, <3>6
    <3>8. QED  BY <3>6, <3>7
  <2>3. QED  BY <2>1, <2>2
<1>5. PICK m \in Nat : \E U : Along(U, m)
  BY <1>4
<1>6. PICK U : Along(U, m)
  BY <1>5
<1>7. 0 .. n \subseteq 0 .. m
  BY <1>6
<1>8. ASSUME NEW h \in Generator PROVE Follows(U, m, gen'[h])
  <2>1. CASE h = g
    <3>1. gen'[h] = t
      BY <1>1, <2>1
    <3>2. PICK j \in 0 .. m : t = U[j]
      BY <1>6
    <3> HIDE DEF t
    <3>3. QED  BY <3>1, <3>2 DEF Follows
  <2>2. CASE h # g
    <3>1. gen'[h] = gen[h]
      BY <1>1, <2>2
    <3>2. Follows(T, n, gen[h])
      BY DEF Together
    <3>3. QED  BY <1>6, <1>7, <3>1, <3>2 DEF Follows
  <2>3. QED  BY <2>1, <2>2
<1>9. Trajectory(U, m)' /\ \A h \in Generator : Follows(U, m, gen[h])'
  BY <1>1, <1>6, <1>8, SameTrajectory
<1>10. QED  BY <1>9 DEF OnTrajectory, Together

\* A step of a call that may pass what it drew, of which nothing is said.
LEMMA LeavingStep ==
    ASSUME Inv, NEW n \in Nat, NEW T, Together(T, n), NEW g \in Generator,
           NEW t, Moves(g, t), ~WithinDraw(Len(gen[g].done) + 1)
    PROVE  OnTrajectory'
<1> DEFINE s == gen[g]
<1>1. /\ Extends(s.done, t.done) /\ Len(s.done) \in Nat
      /\ DOMAIN s.done = 1 .. Len(s.done)
      /\ Latest(t) = Len(s.done) + 1
      /\ DOMAIN t.done \subseteq 1 .. Len(s.done) + 1
      /\ gen' = [gen EXCEPT ![g] = t] /\ stream' = stream /\ script' = script
      /\ DOMAIN gen = Generator
  BY MovesExtend DEF Moves, Step, Inv
<1>2. Follows(T, n, t)
  <2>1. ~WithinDraw(Latest(t))
    BY <1>1
  <2>2. ASSUME NEW k \in DOMAIN t.done, WithinDraw(k)
        PROVE  \E i \in 0 .. n : k \in DOMAIN T[i].done /\ T[i].done[k] = t.done[k]
    <3>1. k # Len(s.done) + 1
      BY <2>2
    <3>2. k \in DOMAIN s.done
      BY <1>1, <3>1
    <3>3. t.done[k] = s.done[k]
      BY <1>1, <3>2 DEF Extends
    <3>4. QED  BY <2>2, <3>2, <3>3 DEF Together, Follows
  <2>3. QED  BY <2>1, <2>2 DEF Follows
<1>3. ASSUME NEW h \in Generator PROVE Follows(T, n, gen'[h])
  <2>1. CASE h = g
    BY <1>1, <1>2, <2>1
  <2>2. CASE h # g
    BY <1>1, <2>2 DEF Together
  <2>3. QED  BY <2>1, <2>2
<1>4. Trajectory(T, n)' /\ \A h \in Generator : Follows(T, n, gen[h])'
  BY <1>1, <1>3, SameTrajectory DEF Together
<1>5. QED  BY <1>4 DEF OnTrajectory, Together

LEMMA TrajectoryStep == Inv /\ ShapeInv /\ OnTrajectory /\ [Next]_vars => OnTrajectory'
<1> SUFFICES ASSUME Inv, ShapeInv, OnTrajectory, [Next]_vars PROVE OnTrajectory'
  OBVIOUS
<1>1. PICK n \in Nat : \E T : Together(T, n)
  BY DEF OnTrajectory
<1>2. PICK T : Together(T, n)
  BY <1>1
<1>3. CASE UNCHANGED vars
  <2>1. stream' = stream /\ script' = script /\ gen' = gen
    BY <1>3 DEF vars
  <2>2. Trajectory(T, n)' /\ \A h \in Generator : Follows(T, n, gen[h])'
    BY <1>2, <2>1, SameTrajectory DEF Together
  <2>3. QED  BY <2>2 DEF OnTrajectory, Together
<1>4. CASE Next
  <2>1. PICK g \in Generator : GeneratorStep(g)
    BY <1>4 DEF Next
  <2>2. CASE SampleBeyond(g)
    BY <1>2, <2>2, BeyondMoves, LeavingStep
  <2>3. CASE ~SampleBeyond(g)
    <3>1. Moves(g, Succ(gen[g]))
      BY <2>1, <2>3, IdleMoves, RangeMoves, SampleMoves, NonZeroMoves DEF GeneratorStep
    <3>2. QED  BY <1>2, <3>1, FollowingStep, LeavingStep
  <2>4. QED  BY <2>2, <2>3
<1>5. QED  BY <1>3, <1>4

LEMMA TrajectorySame == OnTrajectory => SameSeedSameResults
<1> SUFFICES ASSUME OnTrajectory, NEW g \in Generator, NEW h \in Generator,
                    NEW k \in Done(g) \cap Done(h), WithinDraw(k)
             PROVE  gen[g].done[k] = gen[h].done[k]
  BY DEF SameSeedSameResults
<1>1. PICK n \in Nat : \E T : Together(T, n)
  BY DEF OnTrajectory
<1>2. PICK T : Together(T, n)
  BY <1>1
<1>3. PICK i \in 0 .. n : k \in DOMAIN T[i].done /\ T[i].done[k] = gen[g].done[k]
  BY <1>2 DEF Together, Follows, Done
<1>4. PICK j \in 0 .. n : k \in DOMAIN T[j].done /\ T[j].done[k] = gen[h].done[k]
  BY <1>2 DEF Together, Follows, Done
<1>5. i <= j \/ j <= i
  OBVIOUS
<1>6. Extends(T[i].done, T[j].done) \/ Extends(T[j].done, T[i].done)
  BY <1>2, <1>5 DEF Together, Trajectory
<1>7. QED  BY <1>3, <1>4, <1>6 DEF Extends

(***************************************************************************)
(* Generators with one seed return the same, however their steps are       *)
(* interleaved and whatever lies behind their vectors: all of them are on  *)
(* one trajectory until a call could pass the bytes it drew.               *)
(***************************************************************************)
THEOREM SameSeedCorrect == Spec => []SameSeedSameResults
<1>1. Init => Inv /\ ShapeInv /\ OnTrajectory
  BY InitInv, ShapeInit, TrajectoryInit
<1>2. Inv /\ ShapeInv /\ OnTrajectory /\ [Next]_vars => Inv' /\ ShapeInv' /\ OnTrajectory'
  BY NextInv, ShapeStep, TrajectoryStep
<1>3. QED  BY <1>1, <1>2, TrajectorySame, PTL DEF Spec
-----------------------------------------------------------------------------
(***************************************************************************)
(* What a call keeps of the stream.                                        *)
(***************************************************************************)
\* The n-th value of a batch taken from a position is read from a position of
\* the stream, and repeats with it.
LEMMA SampleInBatch ==
    ASSUME ShapeInv, NEW m \in Modulus, NEW from \in Int, NEW n \in Nat
    PROVE  \A i, b \in Nat : (i + 1) * BytesPerValue(m) <= b =>
               ValueAt(Take((from + n * BytesPerValue(m)) % Len(stream), b), i, m)
                 = SampleAt(from, n + i + 1, m)
<1> SUFFICES ASSUME NEW i \in Nat, NEW b \in Nat, (i + 1) * BytesPerValue(m) <= b
             PROVE  ValueAt(Take((from + n * BytesPerValue(m)) % Len(stream), b), i, m)
                      = SampleAt(from, n + i + 1, m)
  OBVIOUS
<1> DEFINE w == BytesPerValue(m)
           l == Len(stream)
           x == n * w
           y == i * w
           f == from + x
           p == f % l
           at == from + (n + i) * w
           one == [k \in 1 .. w |-> stream[((at + k - 1) % l) + 1]]
<1>1. /\ w \in Nat \ {0} /\ l \in Nat \ {0} /\ x \in Nat /\ y \in Nat
      /\ (i + 1) * w = y + w /\ (n + i) * w = x + y /\ (0 + 1) * w = w /\ 0 * w + 1 = 1
  <2>1. w \in Nat \ {0} /\ l \in Nat \ {0}
    BY BytesPerValueType, StreamType
  <2>2. \A u \in Nat, c \in Nat, d \in Nat :
           /\ c * u \in Nat /\ (c + 1) * u = c * u + u /\ (d + c) * u = d * u + c * u
           /\ (0 + 1) * u = u /\ 0 * u + 1 = 1
    OBVIOUS
  <2> HIDE DEF w, l
  <2>3. QED  BY <2>1, <2>2
<1>2. at = f + y /\ y + w <= b
  <2> HIDE DEF x, y, w
  <2>1. QED  BY <1>1 DEF w
<1>3. SampleAt(from, n + i + 1, m) = ValueAt(Take(at, w), 0, m)
  <2>1. (n + i + 1) - 1 = n + i
    OBVIOUS
  <2>2. QED  BY <2>1 DEF SampleAt
<1> HIDE DEF x, y, w, l, at
<1>4. f \in Int /\ p \in Int /\ at \in Int
  BY <1>1, <1>2
<1> HIDE DEF f, p
<1>5. SubSeq(Take(p, b), y + 1, y + w) = one
  <2> DEFINE t == Take(p, b)
  <2>1. t \in Seq(Byte) /\ Len(t) = b /\ \A k \in 1 .. b : t[k] = stream[((p + k - 1) % l) + 1]
    BY <1>4, TakeType DEF l
  <2> HIDE DEF t
  <2>2. SubSeq(t, y + 1, y + w) = [k \in 1 .. w |-> t[y + k]]
    <3> HIDE DEF Byte
    <3>1. QED  BY <1>1, <1>2, <2>1
  <2>3. ASSUME NEW k \in 1 .. w PROVE t[y + k] = stream[((at + k - 1) % l) + 1]
    <3>1. y + k \in 1 .. b /\ y + k - 1 \in Int /\ p + (y + k) - 1 = p + (y + k - 1)
      BY <1>1, <1>2, <1>4
    <3>2. t[y + k] = stream[((p + (y + k) - 1) % l) + 1]
      BY <2>1, <3>1
    <3>3. (p + (y + k - 1)) % l = (f + (y + k - 1)) % l
      <4>1. \A c \in Int : ((f % l) + c) % l = (f + c) % l
        BY <1>1, <1>4, ModSum
      <4>2. QED  BY <3>1, <4>1 DEF p
    <3>4. f + (y + k - 1) = at + k - 1
      BY <1>1, <1>2, <1>4
    <3>5. QED  BY <3>1, <3>2, <3>3, <3>4
  <2>4. [k \in 1 .. w |-> t[y + k]] = one
    BY <2>3
  <2>5. QED  BY <2>2, <2>4 DEF t
<1>6. SubSeq(Take(at, w), 1, w) = one
  <2> DEFINE t == Take(at, w)
  <2>1. t = one
    BY DEF Take, l
  <2>2. t \in Seq(Byte) /\ Len(t) = w
    BY <1>1, <1>4, TakeType
  <2> HIDE DEF t, one
  <2>3. SubSeq(t, 1, w) = t
    <3> HIDE DEF Byte
    <3>1. QED  BY <1>1, <2>2
  <2>4. QED  BY <2>1, <2>3 DEF t
<1> HIDE DEF one
<1>7. ValueAt(Take(p, b), i, m) = ValueAt(Take(at, w), 0, m)
  <2>1. SubSeq(Take(p, b), i * w + 1, (i + 1) * w) = SubSeq(Take(at, w), 0 * w + 1, (0 + 1) * w)
    BY <1>1, <1>5, <1>6 DEF y
  <2>2. QED  BY <2>1 DEF ValueAt, w
<1>8. QED  BY <1>3, <1>7 DEF p, f, x, w, l

LEMMA SamplesRepeat ==
    ASSUME ShapeInv, NEW m \in Modulus, NEW from \in Int, NEW j \in Nat, NEW k \in Nat \ {0}
    PROVE  SampleAt(from, j * Len(stream) + ((k - 1) % Len(stream)) + 1, m)
             = SampleAt(from, k, m)
<1> DEFINE w == BytesPerValue(m)
           l == Len(stream)
           r == (k - 1) % l
           q == (k - 1) \div l
           a == from + (j * l + r) * w
           b == from + (k - 1) * w
<1>1. w \in Nat \ {0} /\ l \in Nat \ {0}
  BY BytesPerValueType, StreamType
<1>2. r \in 0 .. l - 1 /\ q \in Int /\ k - 1 = l * q + r
  <2>1. \A x \in Nat, y \in Nat \ {0} :
           x % y \in 0 .. y - 1 /\ x \div y \in Int /\ x = y * (x \div y) + (x % y)
    OBVIOUS
  <2>2. k - 1 \in Nat
    OBVIOUS
  <2> HIDE DEF l
  <2>3. QED  BY <1>1, <2>1, <2>2
<1>3. a \in Int /\ b \in Int /\ (j - q) * w \in Int /\ a = l * ((j - q) * w) + b
  <2>1. \A x, y, z, u \in Int : (x * u + y) * w = u * ((x - z) * w) + (u * z + y) * w
    BY <1>1
  <2>2. \A x, y \in Int : x * y \in Int
    OBVIOUS
  <2> HIDE DEF r, q, l, w
  <2>3. (j * l + r) * w = l * ((j - q) * w) + (l * q + r) * w
    BY <1>1, <1>2, <2>1
  <2>4. /\ j * l \in Int /\ j * l + r \in Int /\ l * q \in Int /\ (j - q) * w \in Int
        /\ l * ((j - q) * w) \in Int /\ (l * q + r) * w \in Int /\ (j * l + r) * w \in Int
    BY <1>1, <1>2, <2>2
  <2>5. QED  BY <1>2, <2>3, <2>4
<1>4. \A c \in Int : (a + c) % l = (b + c) % l
  <2> DEFINE y == (j - q) * w
  <2> HIDE DEF a, b, l, y
  <2>1. ASSUME NEW c \in Int PROVE (a + c) % l = (b + c) % l
    <3>1. a + c = l * y + (b + c) /\ b + c \in Int /\ y \in Int
      BY <1>1, <1>3 DEF y
    <3>2. (l * y + (b + c)) % l = (b + c) % l
      BY <1>1, <3>1, ModPlus
    <3>3. QED  BY <3>1, <3>2
  <2>2. QED  BY <2>1
<1>5. Take(a, w) = Take(b, w)
  <2> HIDE DEF a, b, w
  <2>1. ASSUME NEW c \in 1 .. w PROVE (a + c - 1) % l = (b + c - 1) % l
    <3>1. c - 1 \in Int /\ a + c - 1 = a + (c - 1) /\ b + c - 1 = b + (c - 1)
      BY <1>3
    <3>2. QED  BY <1>4, <3>1
  <2>2. QED  BY <2>1 DEF Take
<1>6. (j * l + r + 1) - 1 = j * l + r
  <2>1. j * l \in Int /\ r \in Int
    BY <1>1, <1>2
  <2> HIDE DEF r, l
  <2>2. QED  BY <2>1
<1>7. QED  BY <1>5, <1>6 DEF SampleAt

LEMMA SampleAtType ==
    ASSUME ShapeInv, NEW m \in Modulus, NEW from \in Int, NEW k \in Int
    PROVE  SampleAt(from, k, m) \in Nat
<1> DEFINE w == BytesPerValue(m)
           p == from + (k - 1) * w
<1>1. w \in Nat \ {0} /\ (0 + 1) * w = w
  <2>1. \A u \in Nat : (0 + 1) * u = u
    OBVIOUS
  <2>2. QED  BY <2>1, BytesPerValueType
<1>2. p \in Int
  BY <1>1
<1> HIDE DEF p
<1>3. Take(p, w) \in Seq(Byte) /\ Len(Take(p, w)) = w
  BY <1>1, <1>2, TakeType
<1>4. (0 + 1) * w <= Len(Take(p, w))
  BY <1>1, <1>3
<1>5. ValueAt(Take(p, w), 0, m) \in 0 .. MaskRange(m) - 1
  <2>1. 0 \in Nat
    OBVIOUS
  <2> HIDE DEF Byte
  <2>2. QED  BY <1>3, <1>4, <2>1, ValueAtType
<1>6. QED  BY <1>5 DEF SampleAt, p

LEMMA AcceptedType ==
    ASSUME NEW m, NEW from, NEW n \in Nat
    PROVE  /\ IsFiniteSet(AcceptedOf(from, n, m)) /\ Cardinality(AcceptedOf(from, n, m)) \in Nat
           /\ \A T \in SUBSET AcceptedOf(from, n, m) :
                 /\ IsFiniteSet(T)
                 /\ Cardinality(T) \in Nat
                 /\ Cardinality(T) <= Cardinality(AcceptedOf(from, n, m))
<1>1. IsFiniteSet(1 .. n) /\ AcceptedOf(from, n, m) \in SUBSET (1 .. n)
  BY FS_Interval DEF AcceptedOf
<1>2. IsFiniteSet(AcceptedOf(from, n, m))
  BY <1>1, FS_Subset
<1>3. QED  BY <1>2, FS_Subset, FS_CardinalityType

LEMMA AcceptedStep ==
    ASSUME NEW m, NEW from, NEW n \in Nat
    PROVE  /\ SampleAt(from, n + 1, m) < m =>
                 /\ AcceptedOf(from, n + 1, m) = AcceptedOf(from, n, m) \cup {n + 1}
                 /\ Cardinality(AcceptedOf(from, n + 1, m))
                      = Cardinality(AcceptedOf(from, n, m)) + 1
           /\ ~(SampleAt(from, n + 1, m) < m) =>
                 AcceptedOf(from, n + 1, m) = AcceptedOf(from, n, m)
<1>1. 1 .. n + 1 = (1 .. n) \cup {n + 1} /\ n + 1 \notin 1 .. n
  OBVIOUS
<1>2. n + 1 \notin AcceptedOf(from, n, m)
  BY <1>1 DEF AcceptedOf
<1>3. ~(SampleAt(from, n + 1, m) < m) => AcceptedOf(from, n + 1, m) = AcceptedOf(from, n, m)
  BY <1>1 DEF AcceptedOf
<1>4. SampleAt(from, n + 1, m) < m =>
        AcceptedOf(from, n + 1, m) = AcceptedOf(from, n, m) \cup {n + 1}
  BY <1>1 DEF AcceptedOf
<1>5. Cardinality(AcceptedOf(from, n, m) \cup {n + 1}) = Cardinality(AcceptedOf(from, n, m)) + 1
  BY <1>2, AcceptedType, FS_AddElement
<1>6. QED  BY <1>3, <1>4, <1>5

LEMMA AcceptedNone ==
    ASSUME NEW m, NEW from
    PROVE  AcceptedOf(from, 0, m) = {} /\ Cardinality(AcceptedOf(from, 0, m)) = 0
<1>1. AcceptedOf(from, 0, m) = {}
  BY DEF AcceptedOf
<1>2. QED  BY <1>1, FS_EmptySet

\* A later acceptable value is one more.
LEMMA AcceptedMore ==
    ASSUME NEW m, NEW from, NEW n \in Nat, NEW k \in Nat, NEW j \in Nat, n < k, k <= j,
           SampleAt(from, k, m) < m
    PROVE  Cardinality(AcceptedOf(from, n, m)) + 1 <= Cardinality(AcceptedOf(from, j, m))
<1> DEFINE A == AcceptedOf(from, n, m)
           B == AcceptedOf(from, j, m)
<1>1. A \cup {k} \subseteq B /\ k \notin A
  BY DEF AcceptedOf
<1>2. Cardinality(A \cup {k}) = Cardinality(A) + 1
  BY <1>1, AcceptedType, FS_AddElement
<1>3. Cardinality(A \cup {k}) <= Cardinality(B)
  <2> HIDE DEF A
  <2>1. QED  BY <1>1, AcceptedType
<1>4. QED  BY <1>2, <1>3

\* If a value is accepted at all, one is in every period.
LEMMA AcceptedPeriods ==
    ASSUME ShapeInv, NEW m \in Modulus, NEW from \in Int, NEW k \in Nat \ {0},
           SampleAt(from, k, m) < m, NEW q \in Nat
    PROVE  q <= Cardinality(AcceptedOf(from, q * Len(stream), m))
<1> DEFINE l == Len(stream)
           r == (k - 1) % l
           N == {c \in Nat : c <= Cardinality(AcceptedOf(from, c * l, m))}
<1>1. l \in Nat \ {0} /\ r \in 0 .. l - 1
  <2>1. k - 1 \in Int
    OBVIOUS
  <2>2. QED  BY <2>1, StreamType
<1>2. \A c \in Nat : c * l \in Nat /\ (c + 1) * l = c * l + l
  <2> HIDE DEF l
  <2>1. QED  BY <1>1
<1>3. \A c \in Nat : Cardinality(AcceptedOf(from, c * l, m)) \in Nat
  <2> HIDE DEF l
  <2>1. QED  BY <1>2, AcceptedType
<1>4. \A c \in Nat : SampleAt(from, c * l + r + 1, m) < m
  BY SamplesRepeat
<1> HIDE DEF l, r
<1>5. 0 \in N
  <2>1. 0 * l = 0 /\ 0 <= 0
    BY <1>1
  <2>2. QED  BY <2>1, AcceptedNone
<1>6. ASSUME NEW c \in Nat, c \in N PROVE c + 1 \in N
  <2> DEFINE n == c * l
             j == n + r + 1
             o == (c + 1) * l
  <2>1. n \in Nat /\ j \in Nat /\ o \in Nat /\ n < j /\ j <= o
    BY <1>1, <1>2
  <2>2. SampleAt(from, j, m) < m
    BY <1>4
  <2>3. Cardinality(AcceptedOf(from, n, m)) \in Nat /\ Cardinality(AcceptedOf(from, o, m)) \in Nat
    BY <1>3
  <2>4. c <= Cardinality(AcceptedOf(from, n, m))
    BY <1>6
  <2> HIDE DEF n, j, o
  <2>5. Cardinality(AcceptedOf(from, n, m)) + 1 <= Cardinality(AcceptedOf(from, o, m))
    BY <2>1, <2>2, AcceptedMore
  <2>6. c + 1 <= Cardinality(AcceptedOf(from, o, m))
    BY <2>3, <2>4, <2>5
  <2>7. QED  BY <2>6 DEF o
<1>7. \A c \in Nat : c \in N
  <2> HIDE DEF N
  <2>1. QED  BY <1>5, <1>6, NatSetInduction
<1>8. QED  BY <1>7 DEF l

\* How far a call that ends on an acceptable value can have read.
LEMMA AcceptedBound ==
    ASSUME ShapeInv, NEW m \in Modulus, NEW from \in Int, NEW n \in Nat,
           n > 0 => SampleAt(from, n, m) < m
    PROVE  n \in 0 .. Cardinality(AcceptedOf(from, n, m)) * Len(stream)
<1> DEFINE c == Cardinality(AcceptedOf(from, n, m))
           o == c * Len(stream)
<1>1. c \in Nat /\ Len(stream) \in Nat
  BY AcceptedType, StreamType
<1>2. o \in Nat
  <2> HIDE DEF c
  <2>1. QED  BY <1>1
<1>3. SUFFICES ASSUME n > o PROVE FALSE
  BY <1>2
<1>4. SampleAt(from, n, m) < m /\ n \in Nat \ {0} /\ n <= n /\ o < n
  BY <1>2, <1>3
<1>5. c <= Cardinality(AcceptedOf(from, o, m))
  <2> HIDE DEF c
  <2>1. QED  BY <1>1, <1>4, AcceptedPeriods
<1>6. Cardinality(AcceptedOf(from, o, m)) \in Nat
  <2> HIDE DEF o
  <2>1. QED  BY <1>2, AcceptedType
<1>7. Cardinality(AcceptedOf(from, o, m)) + 1 <= c
  <2> HIDE DEF o
  <2>1. QED  BY <1>2, <1>4, AcceptedMore
<1>8. QED  BY <1>1, <1>5, <1>6, <1>7

\* What one more value does to what has been kept.
LEMMA FilteredStep ==
    ASSUME NEW m, NEW from, NEW n \in Nat, NEW S, NEW ret \in Seq(S), Filtered(ret, from, n, m),
           NEW v \in S, v = SampleAt(from, n + 1, m)
    PROVE  /\ v < m => Filtered(Append(ret, v), from, n + 1, m)
           /\ ~(v < m) => Filtered(ret, from, n + 1, m)
<1> DEFINE A(k) == AcceptedOf(from, k, m)
           rank(k) == Cardinality(A(k))
<1>1. Len(ret) = rank(n) /\ \A k \in A(n) : ret[rank(k)] = SampleAt(from, k, m)
  BY DEF Filtered
<1>2. CASE ~(v < m)
  <2>1. A(n + 1) = A(n)
    BY <1>2, AcceptedStep
  <2>2. QED  BY <1>1, <1>2, <2>1 DEF Filtered
<1>3. CASE v < m
  <2>1. A(n + 1) = A(n) \cup {n + 1} /\ rank(n + 1) = rank(n) + 1
    BY <1>3, AcceptedStep
  <2>2. /\ Len(Append(ret, v)) = Len(ret) + 1 /\ Append(ret, v)[Len(ret) + 1] = v
        /\ \A i \in 1 .. Len(ret) : Append(ret, v)[i] = ret[i]
    OBVIOUS
  <2>3. ASSUME NEW k \in A(n) PROVE rank(k) \in 1 .. Len(ret)
    <3>1. k \in 1 .. n /\ A(k) \in SUBSET A(n) /\ k \in A(k)
      BY <2>3 DEF AcceptedOf
    <3>2. IsFiniteSet(A(k)) /\ rank(k) \in Nat /\ rank(k) <= rank(n)
      BY <3>1, AcceptedType
    <3>3. rank(k) # 0
      BY <3>1, <3>2, FS_EmptySet
    <3>4. QED  BY <1>1, <3>2, <3>3
  <2>4. ASSUME NEW k \in A(n + 1) PROVE Append(ret, v)[rank(k)] = SampleAt(from, k, m)
    <3>1. CASE k \in A(n)
      BY <1>1, <2>2, <2>3, <3>1
    <3>2. CASE k = n + 1
      BY <1>1, <2>1, <2>2, <3>2
    <3>3. QED  BY <2>1, <2>4, <3>1, <3>2
  <2>5. QED  BY <1>1, <1>3, <2>1, <2>2, <2>4 DEF Filtered
<1>4. QED  BY <1>2, <1>3

\* A call that has read n values of the stream: what it has kept of them, and
\* where it goes on.
ReadTo(s, n, m) ==
    /\ Filtered(s.ret, s.from, n, m)
    /\ n > 0 /\ Len(s.ret) = s.size => SampleAt(s.from, n, m) < m
    /\ s.pc = "range" /\ Len(s.ret) < s.size =>
          s.pos = (s.from + n * BytesPerValue(m)) % Len(stream)
    /\ s.pc = "sample" => \E j, b \in Nat :
          LET p == (s.from + j * BytesPerValue(m)) % Len(stream) IN
          n = j + s.i /\ s.arr = Take(p, b) /\ s.pos = (p + b) % Len(stream)

Reads(s) ==
    /\ s.pc # "idle" /\ Now(s).op = "range"
    /\ WithinDraw(Len(s.done) + 1) /\ Countable(Now(s))
    => s.from \in Nat /\ \E n \in Nat : ReadTo(s, n, Now(s).modulus)

Filters(k, entry) ==
    LET call == script[k] IN
    /\ call.op = "range" /\ entry.result.status = "Ok"
    /\ WithinDraw(k) /\ Countable(call)
    => \E n \in 0 .. call.size * Len(stream) :
           Filtered(entry.result.values, entry.from, n, call.modulus)

ReadsWell(s) == Reads(s) /\ \A k \in 1 .. Len(s.done) : Filters(k, s.done[k])
ReadInv == \A g \in Generator : ReadsWell(gen[g])

LEMMA ReadInit == Init => ReadInv
<1> SUFFICES ASSUME Init, NEW g \in Generator PROVE ReadsWell(gen[g])
  BY DEF ReadInv
<1>1. gen[g].pc = "idle" /\ gen[g].done = << >>
  BY DEF Init, Start
<1>2. QED  BY <1>1 DEF ReadsWell, Reads

LEMMA SameReading ==
    ASSUME stream' = stream, script' = script, NEW s
    PROVE  ReadsWell(s)' <=> ReadsWell(s)
<1>1. \A from, k, m : SampleAt(from, k, m)' = SampleAt(from, k, m)
  BY DEF SampleAt, Take
<1>2. \A from, n, m : AcceptedOf(from, n, m)' = AcceptedOf(from, n, m)
  BY <1>1 DEF AcceptedOf
<1>3. \A values, from, n, m : Filtered(values, from, n, m)' <=> Filtered(values, from, n, m)
  BY <1>1, <1>2 DEF Filtered
<1>4. \A k : WithinDraw(k)' <=> WithinDraw(k)
  BY DEF WithinDraw
<1>5. \A n, m : ReadTo(s, n, m)' <=> ReadTo(s, n, m)
  <2>1. \A q, b : Take(q, b)' = Take(q, b)
    BY DEF Take
  <2>2. QED  BY <1>1, <1>3, <2>1 DEF ReadTo
<1>6. Reads(s)' <=> Reads(s)
  BY <1>4, <1>5 DEF Reads, Now
<1>7. \A k, entry : Filters(k, entry)' <=> Filters(k, entry)
  BY <1>3, <1>4 DEF Filters
<1>8. QED  BY <1>6, <1>7 DEF ReadsWell

LEMMA ReadKeeps ==
    ASSUME Inv, ReadInv, NEW g \in Generator, NEW s, Step(g, s), ReadsWell(s)
    PROVE  ReadInv'
<1>1. script' = script /\ stream' = stream /\ gen' = [gen EXCEPT ![g] = s]
  BY DEF Step
<1>2. ASSUME NEW h \in Generator PROVE ReadsWell(gen[h])'
  <2>1. ReadsWell(gen'[h])
    BY <1>1 DEF Inv, ReadInv
  <2>2. QED  BY <1>1, <2>1, SameReading
<1>3. QED  BY <1>1, <1>2 DEF ReadInv

\* The two ways in which a step leaves the results as they should be.
LEMMA RespondReads ==
    ASSUME Inv, ReadInv, NEW g \in Generator, NEW pos, NEW result, Respond(g, pos, result),
           Filters(Len(gen[g].done) + 1, [from |-> gen[g].from, result |-> result])
    PROVE  ReadInv'
<1> DEFINE d == gen[g].done
           entry == [from |-> gen[g].from, result |-> result]
           s == [Start EXCEPT !.pos = pos, !.from = pos, !.done = Append(d, entry)]
<1>1. s.pc = "idle" /\ s.done = Append(d, entry)
  BY DEF Start
<1>2. IsTuple(d) /\ Len(d) \in Nat
  BY DEF Inv, StateInv, IsTuple
<1>3. /\ Len(Append(d, entry)) = Len(d) + 1 /\ Append(d, entry)[Len(d) + 1] = entry
      /\ \A k \in 1 .. Len(d) : Append(d, entry)[k] = d[k]
  BY <1>2, TupleAppend
<1> HIDE DEF entry
<1>4. ASSUME NEW k \in 1 .. Len(d) + 1 PROVE Filters(k, Append(d, entry)[k])
  <2>1. CASE k \in 1 .. Len(d)
    BY <1>3, <2>1 DEF ReadInv, ReadsWell
  <2>2. CASE k = Len(d) + 1
    BY <1>3, <2>2 DEF entry
  <2>3. QED  BY <1>2, <2>1, <2>2
<1>5. ReadsWell(s)
  <2> HIDE DEF s
  <2>1. QED  BY <1>1, <1>3, <1>4 DEF ReadsWell, Reads
<1>6. QED  BY <1>5, ReadKeeps DEF Respond, entry

LEMMA WithinReads ==
    ASSUME Inv, ReadInv, NEW g \in Generator, NEW s, Step(g, s), s.done = gen[g].done, Reads(s)
    PROVE  ReadInv'
BY ReadKeeps DEF ReadInv, ReadsWell

\* Only a range call that succeeds has something to show.
LEMMA OtherFilters ==
    ASSUME NEW k, NEW entry, script[k].op # "range" \/ entry.result.status # "Ok"
    PROVE  Filters(k, entry)
BY DEF Filters

LEMMA IdleReads ==
    ASSUME Inv, ShapeInv, ReadInv, NEW g \in Generator,
           GeneratePseudorandomBytes(g) \/ InvalidCall(g) \/ Begin(g)
    PROVE  ReadInv'
<1> DEFINE s == gen[g]
           call == Call(g)
           k == Len(s.done) + 1
<1>1. /\ Shape(s) /\ StateInv(s) /\ BetweenCalls(s) /\ s.pc = "idle"
      /\ call \in CallType /\ call = script[k] /\ Len(s.done) \in Nat
  <2>1. Pending(g) /\ At(g, "idle")
    BY DEF GeneratePseudorandomBytes, InvalidCall, Begin
  <2>2. QED  BY <2>1, CallOfScript DEF ShapeInv, StateInv, At, IsTuple
<1>2. CASE GeneratePseudorandomBytes(g)
  <2>1. script[k].op # "range" /\ \E pos, result : Respond(g, pos, result)
    BY <1>1, <1>2 DEF GeneratePseudorandomBytes
  <2>2. QED  BY <2>1, OtherFilters, RespondReads
<1>3. CASE InvalidCall(g)
  <2>1. Respond(g, s.pos, InvalidArgument) /\ InvalidArgument.status # "Ok"
    BY <1>3 DEF InvalidCall, InvalidArgument
  <2>2. Filters(k, [from |-> s.from, result |-> InvalidArgument])
    BY <2>1, OtherFilters
  <2>3. QED  BY <2>1, <2>2, RespondReads
<1>4. CASE Begin(g)
  <2> DEFINE t == [s EXCEPT !.pc = call.op, !.size = call.size]
             m == call.modulus
  <2>1. /\ t.pc = call.op /\ t.size = call.size /\ t.done = s.done /\ t.ret = << >>
        /\ t.from = s.pos /\ t.pos = s.pos
    BY <1>1 DEF StateInv, Fields, BetweenCalls
  <2>2. s.pos \in 0 .. Len(stream) - 1 /\ m \in Modulus
    BY <1>1, <1>4 DEF Shape, Begin, CallType, Modulus
  <2>3. Filtered(<< >>, s.pos, 0, m)
    BY AcceptedNone DEF Filtered
  <2>4. (s.pos + 0 * BytesPerValue(m)) % Len(stream) = s.pos
    <3>1. \A w \in Nat, l \in Nat \ {0} : \A p \in 0 .. l - 1 : (p + 0 * w) % l = p
      OBVIOUS
    <3>2. QED  BY <2>2, <3>1, StreamType, BytesPerValueType
  <2> HIDE DEF t
  <2>5. ASSUME t.pc = "range" PROVE ReadTo(t, 0, m)
    BY <2>1, <2>3, <2>4, <2>5 DEF ReadTo
  <2>6. Reads(t)
    <3>1. Now(t) = call
      BY <1>1, <2>1 DEF Now
    <3>2. s.pos \in Nat
      BY <2>2
    <3>3. QED  BY <2>1, <2>5, <3>1, <3>2 DEF Reads
  <2>7. Step(g, t)
    BY <1>4 DEF Begin, t
  <2>8. QED  BY <2>1, <2>6, <2>7, WithinReads
<1>5. QED  BY <1>2, <1>3, <1>4

\* What is known of a range call in progress.
RangeCall(g) ==
    LET s == gen[g]
        m == Call(g).modulus IN
    /\ s.pc \in {"range", "sample"} /\ Call(g).op = "range" /\ Call(g) = Now(s)
    /\ Call(g) = script[Len(s.done) + 1] /\ Len(s.done) \in Nat
    /\ Call(g).size \in Nat /\ s.size = Call(g).size /\ m \in Modulus
    /\ Len(s.ret) \in Nat /\ Len(s.ret) <= s.size /\ s.ret \in Seq(Below(Call(g)))
    /\ s.i \in Nat /\ DOMAIN s = Fields /\ Shape(s)
    /\ BytesPerValue(m) \in Nat \ {0} /\ Len(stream) \in Nat \ {0}

LEMMA RangeCallFacts ==
    ASSUME Inv, ShapeInv, NEW g \in Generator, ~At(g, "idle"), Call(g).op = "range"
    PROVE  RangeCall(g)
<1>1. Len(gen[g].done) \in Nat /\ Shape(gen[g])
  BY DEF Inv, StateInv, IsTuple, ShapeInv
<1>2. Call(g) = Now(gen[g])
  BY DEF Call, Now
<1>3. QED  BY <1>1, <1>2, WithinCall, ShapeOfCall, BytesPerValueType, StreamType DEF RangeCall

LEMMA DrawReads ==
    ASSUME Inv, ShapeInv, ReadInv, NEW g \in Generator, DrawSamples(g), Call(g).op = "range"
    PROVE  ReadInv'
<1> DEFINE s == gen[g]
           m == Call(g).modulus
           w == BytesPerValue(m)
           l == Len(stream)
           c == s.size - Len(s.ret)
           n == SampleSize(c, m) * w
<1>1. RangeCall(g) /\ s.pc = "range" /\ Len(s.ret) < s.size
  BY RangeCallFacts DEF DrawSamples, At
<1>2. c \in 1 .. Call(g).size /\ n \in Int
  <2>1. c \in 1 .. Call(g).size /\ c \in Int
    BY <1>1, SMTT(30) DEF RangeCall
  <2>2. SampleSize(c, m) \in Int
    <3> HIDE DEF c
    <3>1. QED  BY <1>1, <2>1, SampleSizeType DEF RangeCall
  <2> DEFINE x == SampleSize(c, m)
  <2> HIDE DEF x
  <2>3. x * w \in Int
    BY <1>1, <2>2 DEF RangeCall, x
  <2>4. QED  BY <2>1, <2>3 DEF x
<1>3. CASE BytesFail(n)
  <2>1. Respond(g, s.pos, BytesError(n))
    BY <1>3 DEF DrawSamples
  <2>2. Filters(Len(s.done) + 1, [from |-> s.from, result |-> BytesError(n)])
    <3>1. [from |-> s.from, result |-> BytesError(n)].result.status # "Ok"
      BY BytesErrorIsError
    <3>2. QED  BY <3>1, OtherFilters
  <2>3. QED  BY <2>1, <2>2, RespondReads
<1>4. CASE ~BytesFail(n)
  <2> DEFINE t == [s EXCEPT !.pc = "sample", !.i = 0, !.arr = Encrypted(s.pos, n),
                            !.pos = Advance(s.pos, Filled(n))]
  <2>1. /\ Step(g, t) /\ t.pc = "sample" /\ t.i = 0 /\ t.arr = Encrypted(s.pos, n)
        /\ t.pos = Advance(s.pos, Filled(n)) /\ t.done = s.done /\ t.ret = s.ret
        /\ t.from = s.from /\ t.size = s.size
    BY <1>1, <1>4 DEF DrawSamples, RangeCall, Fields
  <2>2. n \in Nat
    BY <1>2, <1>4 DEF BytesFail
  <2> HIDE DEF t
  <2>3. ASSUME WithinDraw(Len(s.done) + 1), Countable(Call(g))
        PROVE  s.from \in Nat /\ \E j \in Nat : ReadTo(t, j, m)
    <3>1. s.from \in Nat /\ \E j \in Nat : ReadTo(s, j, m)
      BY <1>1, <2>3 DEF ReadInv, ReadsWell, Reads, RangeCall
    <3>2. PICK j \in Nat : ReadTo(s, j, m)
      BY <3>1
    <3>3. 2 * n < Word
      BY <1>2, <2>3 DEF Countable
    <3>4. Encrypted(s.pos, n) = Take(s.pos, n) /\ Filled(n) = n
      <4> HIDE DEF n
      <4>1. QED  BY <2>2, <3>3, EncryptedBytes
    <3>5. s.pos = (s.from + j * w) % l
      BY <1>1, <3>2 DEF ReadTo
    <3>6. j = j + 0
      OBVIOUS
    <3>7. t.arr = Take(s.pos, n) /\ t.pos = (s.pos + n) % l
      BY <2>1, <3>4 DEF Advance
    <3> HIDE DEF n
    <3>8. ReadTo(t, j, m)
      BY <2>1, <2>2, <3>2, <3>5, <3>6, <3>7 DEF ReadTo
    <3>9. QED  BY <3>1, <3>8
  <2>4. Reads(t)
    <3>1. Now(t) = Call(g)
      BY <1>1, <2>1 DEF Now, RangeCall
    <3>2. QED  BY <2>1, <2>3, <3>1 DEF Reads
  <2>5. QED  BY <2>1, <2>4, WithinReads
<1>5. QED  BY <1>3, <1>4

LEMMA SampleReads ==
    ASSUME Inv, ShapeInv, ReadInv, NEW g \in Generator, Sample(g), Call(g).op = "range"
    PROVE  ReadInv'
<1> DEFINE s == gen[g]
           m == Call(g).modulus
           w == BytesPerValue(m)
           l == Len(stream)
           v == ValueAt(s.arr, s.i, m)
           ret == IF v \in Acceptable(m) THEN Append(s.ret, v) ELSE s.ret
           t == [s EXCEPT !.i = @ + 1, !.ret = ret]
<1>1. /\ RangeCall(g) /\ s.pc = "sample" /\ Len(s.ret) < s.size
      /\ (s.i + 1) * w <= Len(s.arr)
  BY RangeCallFacts DEF Sample, Sampling, At
<1>2. /\ Step(g, t) /\ t.pc = "sample" /\ t.i = s.i + 1 /\ t.arr = s.arr /\ t.pos = s.pos
      /\ t.done = s.done /\ t.ret = ret /\ t.from = s.from /\ t.size = s.size
  BY <1>1 DEF Sample, Keep, RangeCall, Fields
<1> HIDE DEF t
<1>3. ASSUME WithinDraw(Len(s.done) + 1), Countable(Call(g))
      PROVE  s.from \in Nat /\ \E n \in Nat : ReadTo(t, n, m)
  <2>1. s.from \in Nat /\ \E n \in Nat : ReadTo(s, n, m)
    BY <1>1, <1>3 DEF ReadInv, ReadsWell, Reads, RangeCall
  <2>2. PICK n \in Nat : ReadTo(s, n, m)
    BY <2>1
  <2> DEFINE p(j) == (s.from + j * w) % l
  <2>3. PICK j \in Nat, b \in Nat :
           n = j + s.i /\ s.arr = Take(p(j), b) /\ s.pos = (p(j) + b) % l
    BY <1>1, <2>2 DEF ReadTo
  <2>4. p(j) \in Int
    <3>1. s.from + j * w \in Int
      BY <1>1, <2>1, SMTT(30) DEF RangeCall
    <3> DEFINE q == s.from + j * w
    <3> HIDE DEF q
    <3>2. q % l \in Int
      BY <3>1, StreamType DEF q
    <3>3. QED  BY <3>2 DEF q
  <2>5. Len(s.arr) = b
    <3> HIDE DEF p
    <3>1. QED  BY <2>3, <2>4, TakeType
  <2>6. v = SampleAt(s.from, n + 1, m)
    <3>1. s.from \in Int /\ s.i \in Nat /\ m \in Modulus /\ (s.i + 1) * w <= b
      BY <1>1, <2>1, <2>5 DEF RangeCall
    <3>2. ValueAt(Take(p(j), b), s.i, m) = SampleAt(s.from, j + s.i + 1, m)
      <4>1. \A i, c \in Nat : (i + 1) * w <= c =>
               ValueAt(Take((s.from + j * w) % l, c), i, m) = SampleAt(s.from, j + i + 1, m)
        BY <3>1, SampleInBatch, ZenonT(30)
      <4>2. QED  BY <3>1, <4>1, Zenon
    <3>3. QED  BY <2>3, <3>2
  <2>7. v \in Nat
    <3>1. s.from \in Int /\ n + 1 \in Int /\ m \in Modulus
      BY <1>1, <2>1 DEF RangeCall
    <3>2. QED  BY <2>6, <3>1, SampleAtType
  <2>8. v \in Acceptable(m) <=> v < m
    <3>1. \A x \in Nat, y \in Int : x \in 0 .. y - 1 <=> x < y
      OBVIOUS
    <3>2. m \in Int
      BY <1>1 DEF RangeCall, Modulus
    <3> HIDE DEF v, m
    <3>3. QED  BY <2>7, <3>1, <3>2 DEF Acceptable
  <2>9. s.ret \in Seq(Nat)
    <3>1. Below(Call(g)) \subseteq Nat
      BY <1>1 DEF RangeCall, Below, Modulus
    <3>2. \A S, T : S \subseteq T => \A r \in Seq(S) : r \in Seq(T)
      OBVIOUS
    <3> HIDE DEF Below
    <3>3. QED  BY <1>1, <3>1, <3>2 DEF RangeCall
  <2> HIDE DEF v
  <2>10. Filtered(ret, s.from, n + 1, m)
    <3>1. Filtered(s.ret, s.from, n, m)
      BY <2>2 DEF ReadTo
    <3>2. QED  BY <2>6, <2>7, <2>8, <2>9, <3>1, FilteredStep
  <2>11. Len(ret) = s.size => SampleAt(s.from, n + 1, m) < m
    BY <1>1, <2>6, <2>8 DEF RangeCall
  <2>12. n + 1 = j + (s.i + 1) /\ n + 1 \in Nat
    <3> DEFINE i == s.i
    <3>1. i \in Nat /\ n = j + i
      BY <1>1, <2>3 DEF RangeCall
    <3> HIDE DEF i
    <3>2. n + 1 = j + (i + 1) /\ n + 1 \in Nat
      BY <3>1
    <3>3. QED  BY <3>2 DEF i
  <2>13. ReadTo(t, n + 1, m)
    BY <1>2, <2>3, <2>10, <2>11, <2>12 DEF ReadTo
  <2>14. QED  BY <2>1, <2>12, <2>13
<1>4. Reads(t)
  <2>1. Now(t) = Call(g)
    BY <1>1, <1>2 DEF Now, RangeCall
  <2>2. QED  BY <1>2, <1>3, <2>1 DEF Reads
<1>5. QED  BY <1>2, <1>4, WithinReads

\* A batch that ends before the call has its values was read to the end.
LEMMA EndReads ==
    ASSUME Inv, ShapeInv, ReadInv, NEW g \in Generator, EndSamples(g), Call(g).op = "range"
    PROVE  ReadInv'
<1> DEFINE s == gen[g]
           m == Call(g).modulus
           w == BytesPerValue(m)
           l == Len(stream)
           t == [s EXCEPT !.pc = "range", !.arr = << >>, !.i = 0]
<1>1. /\ RangeCall(g) /\ s.pc = "sample"
      /\ s.i >= Len(s.arr) \/ Len(s.ret) >= s.size
  BY RangeCallFacts DEF EndSamples, At
<1>2. /\ Step(g, t) /\ t.pc = "range" /\ t.pos = s.pos /\ t.done = s.done /\ t.ret = s.ret
      /\ t.from = s.from /\ t.size = s.size
  BY <1>1 DEF EndSamples, RangeCall, Fields
<1> HIDE DEF t
<1>3. ASSUME WithinDraw(Len(s.done) + 1), Countable(Call(g))
      PROVE  s.from \in Nat /\ \E n \in Nat : ReadTo(t, n, m)
  <2>1. s.from \in Nat /\ \E n \in Nat : ReadTo(s, n, m)
    BY <1>1, <1>3 DEF ReadInv, ReadsWell, Reads, RangeCall
  <2>2. PICK n \in Nat : ReadTo(s, n, m)
    BY <2>1
  <2> DEFINE p(j) == (s.from + j * w) % l
  <2>3. PICK j \in Nat, b \in Nat :
           n = j + s.i /\ s.arr = Take(p(j), b) /\ s.pos = (p(j) + b) % l
    BY <1>1, <2>2 DEF ReadTo
  <2>4. ASSUME Len(s.ret) < s.size PROVE s.pos = (s.from + n * w) % l
    <3>1. s.from + j * w \in Int
      BY <1>1, <2>1 DEF RangeCall
    <3>2. Len(s.arr) = b
      <4> DEFINE q == s.from + j * w
      <4> HIDE DEF q
      <4>1. q % l \in Int
        BY <3>1, StreamType DEF q
      <4> DEFINE r == q % l
      <4> HIDE DEF r
      <4>2. Len(Take(r, b)) = b
        BY <4>1, TakeType DEF r
      <4>3. QED  BY <2>3, <4>2 DEF r, q
    <3>3. s.i = b
      <4>1. Len(s.ret) \in Nat /\ s.size \in Nat /\ s.i \in Nat
        BY <1>1 DEF RangeCall
      <4>2. s.i >= b
        BY <1>1, <2>4, <3>2, <4>1
      <4>3. Shape(s)
        BY <1>1 DEF RangeCall
      <4>4. s.i <= b
        BY <1>1, <3>2, <4>3 DEF Shape
      <4> QED  BY <4>1, <4>2, <4>4
    <3>4. w = 1
      <4>1. w = 1 \/ Power(m)
        <5>1. Len(s.done) + 1 \in 1 .. Len(s.done) + 1 /\ Call(g).op # "bytes" /\ ~(m <= 1)
          BY <1>1, SMTT(30) DEF RangeCall, Modulus
        <5>2. QED  BY <1>1, <1>3, <5>1 DEF WithinDraw, Power, RangeCall
      <4>2. ~Power(m)
        <5> SUFFICES ASSUME Power(m) PROVE FALSE
          OBVIOUS
        <5> DEFINE z == s.size
                   k == Len(s.ret)
                   i == s.i
        <5>1. b = (z - k + i + 1) * w
          BY <1>1, <3>2 DEF RangeCall, Shape
        <5>2. z \in Nat /\ k \in Nat /\ i \in Nat /\ k < z /\ i = b /\ w \in Nat \ {0}
          BY <1>1, <2>4, <3>3 DEF RangeCall
        <5> HIDE DEF z, k, i, w
        <5>3. z - k + i + 1 \in Nat /\ z - k + i + 1 > b
          BY <5>2
        <5>4. \A x \in Nat, y \in Nat \ {0} : x * y >= x
          OBVIOUS
        <5> DEFINE u == z - k + i + 1
        <5> HIDE DEF u
        <5>5. u * w >= u /\ u > b /\ u \in Nat /\ b = u * w
          BY <5>1, <5>2, <5>3, <5>4 DEF u
        <5>6. QED  BY <5>5
      <4>3. QED  BY <4>1, <4>2
    <3>5. (s.from + j) + b = s.from + n /\ s.from + j \in Int
      BY <2>1, <2>3, <3>3
    <3>6. (((s.from + j) % l) + b) % l = ((s.from + j) + b) % l
      <4> DEFINE f == s.from + j
      <4> HIDE DEF f
      <4>1. f \in Int /\ b \in Int /\ l \in Nat \ {0}
        BY <1>1, <3>5 DEF RangeCall, f
      <4>2. ((f % l) + b) % l = (f + b) % l
        BY <4>1, ModSum
      <4>3. QED  BY <4>2 DEF f
    <3>7. j * w = j /\ n * w = n
      BY <3>4
    <3>8. QED  BY <2>3, <3>5, <3>6, <3>7
  <2>5. ReadTo(t, n, m)
    <3>1. Filtered(s.ret, s.from, n, m) /\ (n > 0 /\ Len(s.ret) = s.size => SampleAt(s.from, n, m) < m)
      BY <2>2 DEF ReadTo
    <3>2. QED  BY <1>2, <2>4, <3>1 DEF ReadTo
  <2>6. QED  BY <2>1, <2>5
<1>4. Reads(t)
  <2>1. Now(t) = Call(g)
    BY <1>1, <1>2 DEF Now, RangeCall
  <2>2. QED  BY <1>2, <1>3, <2>1 DEF Reads
<1>5. QED  BY <1>2, <1>4, WithinReads

LEMMA ReturnReads ==
    ASSUME Inv, ShapeInv, ReadInv, NEW g \in Generator, RangeReturn(g)
    PROVE  ReadInv'
<1> DEFINE s == gen[g]
           m == Call(g).modulus
           k == Len(s.done) + 1
           entry == [from |-> s.from, result |-> OK(s.ret)]
<1>1. /\ RangeCall(g) /\ Len(s.ret) = Call(g).size /\ Len(s.ret) = s.size
      /\ Respond(g, s.pos, OK(s.ret))
  <2>1. ~At(g, "idle") /\ Call(g).op = "range"
    BY DEF RangeReturn, RangeFull, At
  <2>2. RangeCall(g)
    BY <2>1, RangeCallFacts
  <2>3. QED  BY <2>2 DEF RangeCall, RangeReturn, RangeFull
<1>2. ASSUME WithinDraw(k), Countable(Call(g))
      PROVE  \E n \in 0 .. Call(g).size * Len(stream) : Filtered(s.ret, s.from, n, m)
  <2>1. s.from \in Nat /\ \E n \in Nat : ReadTo(s, n, m)
    BY <1>1, <1>2 DEF ReadInv, ReadsWell, Reads, RangeCall
  <2>2. PICK n \in Nat : ReadTo(s, n, m)
    BY <2>1
  <2>3. Filtered(s.ret, s.from, n, m) /\ (n > 0 => SampleAt(s.from, n, m) < m)
    BY <1>1, <2>2 DEF ReadTo
  <2>4. Cardinality(AcceptedOf(s.from, n, m)) = Call(g).size
    BY <1>1, <2>3 DEF Filtered
  <2>5. n \in 0 .. Cardinality(AcceptedOf(s.from, n, m)) * Len(stream)
    <3>1. m \in Modulus /\ s.from \in Int
      BY <1>1, <2>1 DEF RangeCall
    <3>2. QED  BY <2>3, <3>1, AcceptedBound
  <2>6. QED  BY <2>3, <2>4, <2>5
<1>3. Filters(k, entry)
  <2>1. entry.from = s.from /\ entry.result.values = s.ret /\ script[k] = Call(g)
    BY <1>1 DEF OK, RangeCall
  <2> HIDE DEF entry
  <2>2. QED  BY <1>2, <2>1 DEF Filters
<1>4. QED  BY <1>1, <1>3, RespondReads

\* The steps of the other calls.
LEMMA OtherReads ==
    ASSUME Inv, ShapeInv, ReadInv, NEW g \in Generator, ~At(g, "idle"), Call(g).op # "range",
           NEW t, Moves(g, t), t.pc = "idle" \/ t.done = gen[g].done
    PROVE  ReadInv'
<1> DEFINE s == gen[g]
<1>1. Len(s.done) \in Nat /\ Call(g) = script[Len(s.done) + 1] /\ IsTuple(s.done)
  BY CallOfScript, WithinCall DEF StateInv, IsTuple
<1>2. CASE t.pc # "idle" /\ t.done = s.done
  <2>1. Now(t) = Call(g)
    BY <1>1, <1>2 DEF Now
  <2>2. Reads(t)
    BY <2>1 DEF Reads
  <2>3. QED  BY <1>2, <2>2, WithinReads DEF Moves
<1>3. CASE t.pc = "idle" /\ \E x : t.done = Append(s.done, x)
  <2>1. PICK x : t.done = Append(s.done, x)
    BY <1>3
  <2>2. /\ Len(t.done) = Len(s.done) + 1
        /\ \A k \in 1 .. Len(s.done) : t.done[k] = s.done[k]
    BY <1>1, <2>1, TupleAppend
  <2>3. ASSUME NEW k \in 1 .. Len(t.done) PROVE Filters(k, t.done[k])
    <3>1. CASE k \in 1 .. Len(s.done)
      BY <2>2, <3>1 DEF ReadInv, ReadsWell
    <3>2. CASE k = Len(s.done) + 1
      BY <1>1, <3>2, OtherFilters
    <3>3. QED  BY <1>1, <2>2, <3>1, <3>2
  <2>4. ReadsWell(t)
    BY <1>3, <2>3 DEF ReadsWell, Reads
  <2>5. QED  BY <2>4, ReadKeeps DEF Moves
<1>4. QED  BY <1>2, <1>3 DEF Moves

LEMMA ReadStep == Inv /\ ShapeInv /\ ReadInv /\ [Next]_vars => ReadInv'
<1> SUFFICES ASSUME Inv, ShapeInv, ReadInv, [Next]_vars PROVE ReadInv'
  OBVIOUS
<1>1. CASE UNCHANGED vars
  <2>1. stream' = stream /\ script' = script /\ gen' = gen
    BY <1>1 DEF vars
  <2>2. QED  BY <2>1, SameReading DEF ReadInv
<1>2. CASE Next
  <2>1. PICK g \in Generator : GeneratorStep(g)
    BY <1>2 DEF Next
  <2>2. CASE GeneratePseudorandomBytes(g) \/ InvalidCall(g) \/ Begin(g)
    BY <2>2, IdleReads
  <2>3. CASE ~(GeneratePseudorandomBytes(g) \/ InvalidCall(g) \/ Begin(g))
    <3>1. ~At(g, "idle")
      BY <2>1, <2>3 DEF GeneratorStep, DrawSamples, Sample, SampleBeyond, Sampling, EndSamples,
                        RangeReturn, RangeFull, NonZeroSamples, NonZeroKeep, Filtering,
                        NonZeroEnd, NonZeroDraw, NonZeroReturn, At
    <3>2. CASE Call(g).op # "range"
      <4>1. \E t : Moves(g, t)
        BY <2>1, <2>3, RangeMoves, SampleMoves, NonZeroMoves, BeyondMoves DEF GeneratorStep
      <4>2. QED  BY <3>1, <3>2, <4>1, OtherReads DEF Moves
    <3>3. CASE Call(g).op = "range"
      <4>1. gen[g].pc \in {"range", "sample"}
        BY <3>1, <3>3, WithinCall
      <4>2. DrawSamples(g) \/ Sample(g) \/ SampleBeyond(g) \/ EndSamples(g) \/ RangeReturn(g)
        BY <2>1, <2>3, <3>3, <4>1 DEF GeneratorStep, NonZeroSamples, NonZeroKeep, Filtering,
                        NonZeroEnd, NonZeroDraw, NonZeroReturn, At
      <4>3. CASE SampleBeyond(g)
        <5>1. PICK t : Moves(g, t)
          BY <4>3, BeyondMoves
        <5>2. ~WithinDraw(Len(gen[g].done) + 1)
          BY <4>3, BeyondMoves
        <5>3. gen'[g] = t /\ Step(g, t) /\ gen'[g].done = gen[g].done
          <6>1. PICK temp : Keep(g, temp)
            BY <4>3 DEF SampleBeyond
          <6>2. gen'[g].done = gen[g].done
            BY <6>1, WithinCall, <3>1 DEF Keep, Step, Inv, Fields
          <6>3. QED  BY <5>1, <6>2 DEF Moves, Step, Inv
        <5>4. Reads(t)
          BY <5>2, <5>3 DEF Reads
        <5>5. QED  BY <5>3, <5>4, WithinReads
      <4>4. QED  BY <3>3, <4>2, <4>3, DrawReads, SampleReads, EndReads, ReturnReads
    <3>4. QED  BY <3>2, <3>3
  <2>4. QED  BY <2>2, <2>3
<1>3. QED  BY <1>1, <1>2

(***************************************************************************)
(* A range call returns the first acceptable values that the stream holds  *)
(* from the position where the call began, in their order: the batches it  *)
(* draws and its retries leave no trace.  A call reads at most a period of *)
(* the stream for each value.                                              *)
(***************************************************************************)
THEOREM RangeFiltersCorrect == Spec => []RangeFiltersStream
<1>1. Init => Inv /\ ShapeInv /\ ReadInv
  BY InitInv, ShapeInit, ReadInit
<1>2. Inv /\ ShapeInv /\ ReadInv /\ [Next]_vars => Inv' /\ ShapeInv' /\ ReadInv'
  BY NextInv, ShapeStep, ReadStep
<1>3. Inv /\ ReadInv => RangeFiltersStream
  <2> SUFFICES ASSUME Inv, ReadInv, NEW g \in Generator, NEW k \in Returned(g)
               PROVE  Filters(k, gen[g].done[k])
    BY DEF RangeFiltersStream, Filters, ResultOf
  <2>1. k \in 1 .. Len(gen[g].done)
    BY DEF Returned, Done, Inv, StateInv, IsTuple
  <2>2. QED  BY <2>1 DEF ReadInv, ReadsWell
<1>4. QED  BY <1>1, <1>2, <1>3, PTL DEF Spec
=============================================================================
