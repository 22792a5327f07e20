------------------------- MODULE EncryptionService -------------------------
(***************************************************************************)
(* What a SketchEncrypter promises the threads that share it: a call of    *)
(* Encrypt returns the word by word encryption of its sketch, a call of    *)
(* AppendNoiseRegisters the caller's string extended by noise registers,   *)
(* as if each call ran alone and nothing were cached.                      *)
(*                                                                         *)
(* A ciphertext is represented by the curve point it decrypts to:          *)
(*   <<"text", n>>      the hash of the decimal string of n                *)
(*   <<"times", n>>     n times the unit point                             *)
(*   <<"flag", 0>>      the hash of KDestroyedRegisterKey                  *)
(*   <<"noise", 0>>     the hash of kPublisherNoiseRegisterId              *)
(*   <<"random", k>>    the hash of a fresh random number                  *)
(* so that ElGamal's randomness is abstracted away.                        *)
(***************************************************************************)
EXTENDS Integers, Sequences, SequencesExt

CONSTANTS
    Thread,
    EncryptRequest,   \* [kind: "encrypt", aggregators, registers, strategy]
    NoiseRequest,     \* [kind: "noise", value_count, given]
    MaxCounterValue,  \* the maxima an encrypter may be created with
    NoiseCount,       \* what GenerateNoiseComponent may draw
    RandomPoint,      \* the names of random points
    CryptoMayFail     \* whether the curve operations may return an error

VARIABLES
    max_counter_value,   \* max_counter_value_, which never changes
    request,   \* request[t]: the call thread t is in
    response   \* response[t]: what t's call returned, until its next call

Request == EncryptRequest \cup NoiseRequest
None == [kind |-> "none"]

\* A response names the call it answers.
OK(req, out)    == [status |-> "Ok", of |-> req, out |-> out]
Error(req, out) == [status |-> "Error", of |-> req, out |-> out]
NoResponse      == [status |-> "None", of |-> None, out |-> << >>]

Text(n)  == <<"text", n>>
Times(n) == <<"times", n>>
Flag     == <<"flag", 0>>
NoiseId  == <<"noise", 0>>
Random(k) == <<"random", k>>

Smaller(a, b) == IF a <= b THEN a ELSE b

\* Counters above the maximum are indistinguishable.
CounterPoint(n) == Times(Smaller(n, max_counter_value + 1))

\* Destroyed: some UNIQUE value is not positive.
IsRegisterDestroyed(reg, aggregators) ==
    \E i \in DOMAIN reg.values : aggregators[i] = "UNIQUE" /\ reg.values[i] <= 0

Valid(req) ==
    /\ \A reg \in Range(req.registers) :
          /\ Len(reg.values) = Len(req.aggregators)
          /\ IF IsRegisterDestroyed(reg, req.aggregators)
             THEN req.strategy \in {"CONFLICTING_KEYS", "FLAGGED_KEY"}
             ELSE \A i \in DOMAIN reg.values :
                     /\ req.aggregators[i] \in {"UNIQUE", "SUM"}
                     /\ req.aggregators[i] = "SUM" => reg.values[i] > 0

Repeat(point, n) == [i \in 1 .. n |-> point]

EncodedRegister(reg, req) ==
    LET width == Len(reg.values) IN
    IF ~IsRegisterDestroyed(reg, req.aggregators)
    THEN <<Text(reg.index)>> \o
         [i \in 1 .. width |->
            IF req.aggregators[i] = "UNIQUE" THEN Text(reg.values[i])
            ELSE CounterPoint(reg.values[i])]
    ELSE IF req.strategy = "FLAGGED_KEY"
    THEN <<Text(reg.index)>> \o Repeat(Flag, width)
    ELSE <<Text(reg.index)>> \o Repeat(CounterPoint(1), width) \o
         <<Text(reg.index)>> \o Repeat(CounterPoint(2), width)

EncodedSketch(req) ==
    FlattenSeq([r \in DOMAIN req.registers |-> EncodedRegister(req.registers[r], req)])

\* The noise registers of width values for a sequence of random points.
NoiseRegisters(width, randoms) ==
    FlattenSeq([r \in DOMAIN randoms |-> <<NoiseId>> \o Repeat(Random(randoms[r]), width)])

EncryptAnswer(req, res) ==
    \/ Valid(req) /\ res = OK(req, EncodedSketch(req))
    \/ (~Valid(req) \/ CryptoMayFail) /\ res = Error(req, << >>)

\* Noise is whole registers after what was given; a call that fails leaves
\* the part of the noise it had appended in the caller's string.
NoiseAnswer(req, res) ==
    \/ req.value_count < 1 /\ res = Error(req, req.given)
    \/ /\ req.value_count >= 1
       /\ \E count \in NoiseCount : \E randoms \in [1 .. count -> RandomPoint] :
             LET full == req.given \o NoiseRegisters(req.value_count, randoms) IN
             \/ res = OK(req, full)
             \/ /\ res = Error(req, res.out)
                /\ IsPrefix(req.given, res.out) /\ IsPrefix(res.out, full)

Answer(req, res) ==
    \/ req.kind = "encrypt" /\ EncryptAnswer(req, res)
    \/ req.kind = "noise" /\ NoiseAnswer(req, res)

Init ==
    /\ max_counter_value \in MaxCounterValue
    /\ request = [t \in Thread |-> None]
    /\ response = [t \in Thread |-> NoResponse]

Call(t, req) ==
    /\ request[t] = None
    /\ request' = [request EXCEPT ![t] = req]
    /\ response' = [response EXCEPT ![t] = NoResponse]
    /\ UNCHANGED max_counter_value

Respond(t) ==
    /\ Answer(request[t], response'[t])
    /\ response' = [response EXCEPT ![t] = response'[t]]
    /\ request' = [request EXCEPT ![t] = None]
    /\ UNCHANGED max_counter_value

Next == \E t \in Thread : (\E req \in Request : Call(t, req)) \/ Respond(t)

Spec == Init /\ [][Next]_<<max_counter_value, request, response>>
=============================================================================
