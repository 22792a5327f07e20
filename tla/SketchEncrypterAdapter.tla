----------------------- MODULE SketchEncrypterAdapter -----------------------
(***************************************************************************)
(* any_sketch/crypto/sketch_encrypter_adapter.cc: a client combines the    *)
(* keys of the workers, encrypts its sketch with a key it has, and has the *)
(* noise of a publisher appended, by calls one after another.              *)
(*                                                                         *)
(* The encrypter is created for one request, so no other thread shares it, *)
(* and it is represented by what EncryptionService says it returns.        *)
(***************************************************************************)
EXTENDS KeyCombiner, Noisers

CONSTANTS
    EncryptSketchRequest,   \* all but the keys of the requests a client makes
    Word,                   \* the size of a size_t
    RandomPoint             \* the names of random points

ASSUME AdapterAssumption ==
    /\ Word \in Nat \ {0}
    /\ \A req \in EncryptSketchRequest :
          /\ req.noise \subseteq [p : Probability, mu : Int]
          /\ req.sketch.registers \in Seq([index : Int, values : Seq(Int)])
          /\ Len(req.sketch.aggregators) \in Nat
          /\ req.maximum_value \in Int

VARIABLE encrypt   \* the call of EncryptSketch: its request and its locals

\* request: sketch, maximum_value, noise (the parameters of the noise, which
\* is an empty set if there are none), curve and the key, an entry of known.
NoEncrypt == [pc |-> "none"]
EncryptAt(pc) == encrypt.pc = pc

Service == INSTANCE EncryptionService
             WITH Thread <- {}, EncryptRequest <- {}, NoiseRequest <- {},
                  MaxCounterValue <- {}, NoiseCount <- {}, CryptoMayFail <- TRUE,
                  max_counter_value <- encrypt.max_counter_value,
                  request <- encrypt, response <- encrypt

Init == CombineInit /\ NoiseInit /\ encrypt = NoEncrypt

vars == <<known, combine, noise, encrypt>>

\* One client thread: no call begins before the last one has returned.
NoiseReturned == noise.pc \in NoiseResults \cup {"none"}
EncryptReturned == encrypt.pc \in {"none", "Ok", "Error"}
Idle == CombineAt("none") /\ NoiseReturned /\ EncryptReturned

CombineElGamalPublicKeys ==
    /\ Idle /\ CallCombine
    /\ noise' = NoNoise /\ encrypt' = NoEncrypt

CallNoiser ==
    /\ Idle
    /\ \E options \in NoiseOptions : GenerateNoiseComponent(options)
    /\ encrypt' = NoEncrypt /\ UNCHANGED <<known, combine>>

SizeT(x) == x % Word

EncryptSketch ==
    /\ Idle
    /\ \E req \in EncryptSketchRequest, entry \in known, curve \in BOOLEAN :
          encrypt' = [pc |-> "call", request |-> req, curve |-> curve, entry |-> entry,
                      max_counter_value |-> 0, out |-> << >>]
    /\ noise' = NoNoise /\ UNCHANGED <<known, combine>>

\* Mutant of Fail: what has been appended so far is left in the answer.
FailKeeping == encrypt' = [encrypt EXCEPT !.pc = "Error"]

Fail == encrypt' = [encrypt EXCEPT !.pc = "Error", !.out = << >>]

\* The bytes of the request do not parse.
ParseError == EncryptAt("call") /\ Fail /\ UNCHANGED <<known, combine, noise>>

\* Mutant of UsableKey: only the generator is validated.
UsableGenerator(key) == key.generator \in Point

UsableKey(key) == key.generator \in Point /\ key.element \in Point

CreateWithPublicKey ==
    /\ EncryptAt("call")
    /\ encrypt.curve /\ UsableKey(encrypt.entry.key)
    /\ encrypt' = [encrypt EXCEPT !.pc = "encrypt",
                     !.max_counter_value = SizeT(encrypt.request.maximum_value)]
    /\ UNCHANGED <<known, combine, noise>>

RejectPublicKey ==
    /\ EncryptAt("call")
    /\ ~encrypt.curve \/ ~UsableKey(encrypt.entry.key)
    /\ Fail /\ UNCHANGED <<known, combine, noise>>

HasNoiseParameter == encrypt.request.noise # {}
NoiseParams == CHOOSE params \in encrypt.request.noise : TRUE
ValueCount == Len(encrypt.request.sketch.aggregators)

Encrypt ==
    /\ EncryptAt("encrypt") /\ Service!Valid(encrypt.request.sketch)
    /\ encrypt' = [encrypt EXCEPT !.pc = IF HasNoiseParameter THEN "noise" ELSE "Ok",
                     !.out = Service!EncodedSketch(encrypt.request.sketch)]
    /\ UNCHANGED <<known, combine, noise>>

\* Encrypt returns an error: the sketch is not valid, or the curve fails.
EncryptError == EncryptAt("encrypt") /\ Fail /\ UNCHANGED <<known, combine, noise>>

\* AppendNoiseRegisters up to the call of the noiser.
RejectValueCount ==
    /\ EncryptAt("noise") /\ ValueCount < 1
    /\ Fail /\ UNCHANGED <<known, combine, noise>>

DrawNoiseCount ==
    /\ EncryptAt("noise") /\ ValueCount >= 1
    /\ \E options \in GetGeometricPublisherNoiseOptions(NoiseParams) :
          GenerateNoiseComponent(options)
    /\ encrypt' = [encrypt EXCEPT !.pc = "noise_count"]
    /\ UNCHANGED <<known, combine>>

\* The noiser failed, or the curve library does for a noise register.
NoiseError ==
    /\ EncryptAt("noise_count") /\ NoiseReturned
    /\ NoiseAt("Ok") => noise.value >= 1
    /\ Fail /\ UNCHANGED <<known, combine, noise>>

NoNoiseNeeded ==
    /\ EncryptAt("noise_count") /\ NoiseAt("Ok") /\ noise.value < 1
    /\ encrypt' = [encrypt EXCEPT !.pc = "Ok"]
    /\ UNCHANGED <<known, combine, noise>>

\* Mutant of Turns: the loop includes noise_count.
TurnsInclusive(noise_count) == 1 .. noise_count + 1

\* The turns of the loop over the registers.
Turns(noise_count) == 1 .. noise_count

AppendNoiseRegisters ==
    /\ EncryptAt("noise_count") /\ NoiseAt("Ok") /\ noise.value >= 1
    /\ \E randoms \in [Turns(noise.value) -> RandomPoint] :
          encrypt' = [encrypt EXCEPT !.pc = "Ok",
                        !.out = encrypt.out \o Service!NoiseRegisters(ValueCount, randoms)]
    /\ UNCHANGED <<known, combine, noise>>

EncryptStep ==
    \/ ParseError \/ CreateWithPublicKey \/ RejectPublicKey \/ Encrypt \/ EncryptError
    \/ RejectValueCount \/ DrawNoiseCount \/ NoiseError \/ NoNoiseNeeded
    \/ AppendNoiseRegisters

\* The call in progress goes on.
Step ==
    \/ CombineStep /\ UNCHANGED <<noise, encrypt>>
    \/ NoiseStep /\ UNCHANGED <<known, combine, encrypt>>
    \/ EncryptStep

Next == CombineElGamalPublicKeys \/ CallNoiser \/ EncryptSketch \/ Step

Spec == Init /\ [][Next]_vars

\* One thread runs each call.  Of the draws of the Gaussian noiser, which has
\* no limit, some y in range is drawn and accepted with probability one.
InRangeDrawn == DrawGaussian /\ InThreshold(noise'.value) /\ UNCHANGED <<known, combine, encrypt>>
Accepted == AcceptGaussian /\ UNCHANGED <<known, combine, encrypt>>

FairSpec == Spec /\ WF_vars(Step) /\ SF_vars(InRangeDrawn) /\ SF_vars(Accepted)
-----------------------------------------------------------------------------
(***************************************************************************)
(* Type invariant, with one call at a time.                                *)
(***************************************************************************)
TypeOK ==
    /\ \A entry \in known : entry.parts \in [Worker -> Nat] /\ PartsCount(entry.parts) > 0
    /\ combine.pc \in {"none", "call", "add"}
    /\ CombineAt("add") => combine.i \in 2 .. Len(combine.keys) + 1
    /\ ~CombineAt("none") => NoiseReturned /\ EncryptReturned
    /\ ~NoiseAt("none") => noise \in NoiseLocals
    /\ ~NoiseReturned => encrypt.pc \in {"none", "noise_count"}
    /\ ~EncryptAt("none") => encrypt.entry \in known

(***************************************************************************)
(* Whatever keys were combined, and in however many calls, the workers can *)
(* decrypt an answer.  Its key is the sum of theirs, each counted as often *)
(* as it went in, since a key may be combined with itself; every key in it *)
(* was a point, and had the generator of the sum.  Combining validates     *)
(* neither a generator nor a key that is alone.                            *)
(***************************************************************************)
WorkersCanDecrypt ==
    EncryptAt("Ok") =>
        LET key == encrypt.entry.key
            parts == encrypt.entry.parts
        IN  /\ {key.generator, key.element} \subseteq Point
            /\ key.element = SumOfParts(parts)
            /\ \A w \in Worker : parts[w] > 0 =>
                  WorkerKey[w].element \in Point /\ WorkerKey[w].generator = key.generator

(***************************************************************************)
(* An answer is the whole sketch followed by whole noise registers as wide *)
(* as the others, and by 0 .. 2 mu of them: "noise_count would be at least *)
(* 0" (sketch_encrypter.cc:233), because threshold and offset are the same *)
(* number.  That needs a p that is a number and a mu which is an int and   *)
(* not negative: otherwise the threshold may mean "no truncation", and an  *)
(* answer goes out without the noise it asked for.  An error has dropped   *)
(* what was encoded before it.                                             *)
(***************************************************************************)
SketchThenNoise ==
    /\ EncryptAt("Ok") =>
          LET sketch == Service!EncodedSketch(encrypt.request.sketch)
              registers == IF HasNoiseParameter /\ noise.value > 0 THEN noise.value ELSE 0
          IN  /\ IsPrefix(sketch, encrypt.out)
              /\ Len(encrypt.out) = Len(sketch) + registers * (ValueCount + 1)
              /\ HasNoiseParameter /\ NoiseParams.p # NaN /\ NoiseParams.mu \in 0 .. IntMax =>
                    noise.value \in 0 .. 2 * NoiseParams.mu
    /\ EncryptAt("Error") => encrypt.out = << >>

\* Every call of the client returns: attempts are bounded, and no
\* early return leaves a loop waiting.
CallsReturn == (~Idle) ~> Idle
=============================================================================
