-------------------------- MODULE SketchEncrypter --------------------------
(***************************************************************************)
(* any_sketch/crypto/sketch_encrypter.cc: one SketchEncrypterImpl shared   *)
(* by several threads.  A call takes the mutex, turns its sketch register  *)
(* by register into curve points, encrypts each of them and appends it to  *)
(* the result.  The points of counters and of the destroyed register key   *)
(* are cached in the object.                                               *)
(*                                                                         *)
(* The cipher and the OpenSSL context are not thread safe: they compute    *)
(* through temporaries of their own.  scratch is that memory.  An operand  *)
(* is written in one step, the result read from it and the memory given    *)
(* back in a later one, so that two threads inside at once would disturb   *)
(* each other.                                                             *)
(***************************************************************************)
EXTENDS Integers, Sequences, SequencesExt

CONSTANTS
    Thread, EncryptRequest, NoiseRequest, MaxCounterValue, NoiseCount,
    RandomPoint, CryptoMayFail,
    Word               \* number of values of a size_t: 2^64 in the code

ASSUME ServiceAssumption ==
    /\ Word \in Nat \ {0}
    /\ MaxCounterValue \subseteq 0 .. Word - 1
    /\ NoiseCount \subseteq Nat
    /\ CryptoMayFail \in BOOLEAN
    /\ RandomPoint \subseteq Int
    /\ NoiseCount # {} /\ RandomPoint # {}   \* something can be drawn

\* The names of the points of ciphertexts, as in EncryptionService.
Point == {"text", "times", "flag", "noise", "random"} \X Int

ASSUME RequestAssumption ==
    /\ \A req \in EncryptRequest :
          req.kind = "encrypt" /\ req.registers \in Seq([index : Int, values : Seq(Int)])
    /\ \A req \in NoiseRequest :
          req.kind = "noise" /\ req.value_count \in Int /\ req.given \in Seq(Point)

VARIABLES
    max_counter_value,  \* max_counter_value_, set by the constructor
    request, response,  \* the calls, as their callers see them
    mutex,              \* the thread that holds mutex_, or Free
    integer_to_ec_point_map, destroyed_register_key_ec,   \* the caches
    scratch,            \* the memory of the cipher and of ctx_
    local               \* local[t]: the local variables of thread t's call

vars == <<max_counter_value, request, response, mutex, integer_to_ec_point_map,
          destroyed_register_key_ec, scratch, local>>
caches == <<integer_to_ec_point_map, destroyed_register_key_ec>>

Service == INSTANCE EncryptionService

\* Points, as in EncryptionService.
Text(n) == <<"text", n>>
Times(n) == <<"times", n>>
Free == "free"
ASSUME FreeIsNoThread == Free \notin Thread
NoPoint == << >>

\* max_counter_value_ + 1 in a size_t.
Overflow == (max_counter_value + 1) % Word

(***************************************************************************)
(* A job is a run of equal points to append: "text" and "flag" points, an  *)
(* "int" that goes through GetECPointForInteger, a "random" point, or the  *)
(* error the code returns at this place.                                   *)
(***************************************************************************)
Job(do, arg, times) == [do |-> do, arg |-> arg, times |-> times]
Fail == Job("fail", 0, 0)

\* AppendEncryptedRegisterWithSameValue
SameValue(index, width, n) == <<Job("text", index, 1), Job("int", n, width)>>

\* Mutant of SecondValue: both registers get the same values.
SecondValueAlike == 1
SecondValue == 2

\* EncryptDestroyedRegister
DestroyedRegister(reg, strategy) ==
    LET width == Len(reg.values) IN
    CASE strategy = "CONFLICTING_KEYS" ->
            SameValue(reg.index, width, 1) \o SameValue(reg.index, width, SecondValue)
      [] strategy = "FLAGGED_KEY" ->
            <<Job("text", reg.index, 1), Job("flag", 0, width)>>
      [] OTHER -> <<Fail>>

\* EncryptNonDestroyedRegister
ValueJob(aggregator, value) ==
    CASE aggregator = "UNIQUE" -> Job("text", value, 1)
      [] aggregator = "SUM" /\ value > 0 -> Job("int", value, 1)
      [] OTHER -> Fail

NonDestroyedRegister(reg, aggregators) ==
    <<Job("text", reg.index, 1)>> \o
    [i \in DOMAIN reg.values |-> ValueJob(aggregators[i], reg.values[i])]

\* Mutant of IsRegisterDestroyed: the shift by one of the encoding is forgotten.
IsRegisterDestroyedUnshifted(reg, aggregators) ==
    \E i \in DOMAIN reg.values : aggregators[i] = "UNIQUE" /\ reg.values[i] < 0

IsRegisterDestroyed(reg, aggregators) ==
    \E i \in DOMAIN reg.values : aggregators[i] = "UNIQUE" /\ reg.values[i] <= 0

\* EncryptAdditionalRegister
RegisterJobs(reg, req) ==
    IF IsRegisterDestroyed(reg, req.aggregators)
    THEN DestroyedRegister(reg, req.strategy)
    ELSE NonDestroyedRegister(reg, req.aggregators)

ValidateSketch(req) ==
    \A reg \in Range(req.registers) : Len(reg.values) = Len(req.aggregators)

NoiseJobs(width) == <<Job("noise", 0, 1), Job("random", 0, width)>>
-----------------------------------------------------------------------------
\* pc: idle, lock (waiting for the mutex), loop, int, mul, cipher.
Idle == [pc |-> "idle", left |-> << >>, jobs |-> << >>, n |-> 0,
         point |-> NoPoint, times |-> 0, out |-> << >>]

Init ==
    /\ max_counter_value \in MaxCounterValue
    /\ request = [t \in Thread |-> Service!None]
    /\ response = [t \in Thread |-> Service!NoResponse]
    /\ mutex = Free
    /\ integer_to_ec_point_map = << >>
    /\ destroyed_register_key_ec = NoPoint
    /\ scratch = NoPoint
    /\ local = [t \in Thread |-> Idle]

At(t, pc) == local[t].pc = pc
HeadJob(t) == Head(local[t].jobs)

\* The next local state of t.  No step changes max_counter_value_.
Set(t, l) ==
    /\ local' = [local EXCEPT ![t] = l]
    /\ UNCHANGED max_counter_value

Call(t, req) ==
    /\ At(t, "idle")
    /\ request' = [request EXCEPT ![t] = req]
    /\ response' = [response EXCEPT ![t] = Service!NoResponse]
    /\ Set(t, [local[t] EXCEPT !.pc = "lock"])
    /\ UNCHANGED <<mutex, caches, scratch>>

\* The WriterMutexLock goes out of scope when the call returns.
Return(t, res) ==
    /\ response' = [response EXCEPT ![t] = res]
    /\ request' = [request EXCEPT ![t] = Service!None]
    /\ mutex' = Free
    /\ scratch' = NoPoint
    /\ Set(t, Idle)
    /\ UNCHANGED caches

\* Encrypt drops its string on an error, AppendNoiseRegisters works in place.
ReturnError(t) ==
    Return(t, Service!Error(request[t],
        IF request[t].kind = "encrypt" THEN << >> ELSE local[t].out))

\* Mutant of MayEnter: a lock that others may hold at the same time.
MayEnterShared == TRUE
MayEnter == mutex = Free

\* Mutant of Holder: the mutex is not taken for a value_count below one.
HolderOfNoise(t) ==
    IF request[t].kind = "noise" /\ request[t].value_count < 1 THEN Free ELSE t
Holder(t) == t

\* The lock is taken; left is the list of job lists, one per register.
LockEncrypt(t) ==
    /\ At(t, "lock") /\ MayEnter /\ request[t].kind = "encrypt"
    /\ mutex' = Holder(t)
    /\ LET req == request[t] IN
       Set(t, [local[t] EXCEPT !.pc = "loop",
                 !.left = IF ValidateSketch(req)
                          THEN [r \in DOMAIN req.registers |->
                                  RegisterJobs(req.registers[r], req)]
                          ELSE <<<<Fail>>>>])
    /\ UNCHANGED <<request, response, caches, scratch>>

\* The noise count is drawn; drawing may fail, and is not tried at all for a
\* value_count below one.
LockNoise(t) ==
    /\ At(t, "lock") /\ MayEnter /\ request[t].kind = "noise"
    /\ mutex' = Holder(t)
    /\ LET req == request[t]
           start == [local[t] EXCEPT !.pc = "loop", !.out = req.given] IN
       \/ /\ req.value_count >= 1
          /\ \E noise_count \in NoiseCount :
                Set(t, [start EXCEPT !.left =
                           [i \in 1 .. noise_count |-> NoiseJobs(req.value_count)]])
       \/ Set(t, [start EXCEPT !.left = <<<<Fail>>>>])
    /\ UNCHANGED <<request, response, caches, scratch>>

NextRegister(t) ==
    /\ At(t, "loop") /\ local[t].jobs = << >> /\ local[t].left # << >>
    /\ Set(t, [local[t] EXCEPT !.jobs = Head(local[t].left), !.left = Tail(@)])
    /\ UNCHANGED <<request, response, mutex, caches, scratch>>

ReturnOk(t) ==
    /\ At(t, "loop") /\ local[t].jobs = << >> /\ local[t].left = << >>
    /\ Return(t, Service!OK(request[t], local[t].out))

HasJob(t, do) == At(t, "loop") /\ local[t].jobs # << >> /\ HeadJob(t).do = do

FailJob(t) == HasJob(t, "fail") /\ ReturnError(t)

\* The job's point is known: its ciphertexts come next.
Encrypting(t, point) ==
    Set(t, [local[t] EXCEPT !.jobs = Tail(@), !.point = point,
              !.pc = IF HeadJob(t).times = 0 THEN "loop" ELSE "append",
              !.times = HeadJob(t).times])

\* MapToCurve of an index, a UNIQUE value or the noise register id.
MapToCurve(t) ==
    /\ \/ HasJob(t, "text") /\ Encrypting(t, Text(HeadJob(t).arg))
       \/ HasJob(t, "noise") /\ Encrypting(t, Service!NoiseId)
       \/ /\ HasJob(t, "random")
          /\ \E k \in RandomPoint : Encrypting(t, Service!Random(k))
    /\ UNCHANGED <<request, response, mutex, caches, scratch>>

\* AppendFlaggedDestroyedRegister maps the key to the curve the first time.
FlagPoint(t) ==
    /\ HasJob(t, "flag")
    /\ destroyed_register_key_ec' =
          IF destroyed_register_key_ec = NoPoint THEN Service!Flag
          ELSE destroyed_register_key_ec
    /\ Encrypting(t, destroyed_register_key_ec')
    /\ UNCHANGED <<request, response, mutex, integer_to_ec_point_map, scratch>>

(***************************************************************************)
(* GetECPointForInteger(n).                                                *)
(***************************************************************************)
CallGetECPoint(t) ==
    /\ HasJob(t, "int")
    /\ Set(t, [local[t] EXCEPT !.pc = "int", !.n = HeadJob(t).arg])
    /\ UNCHANGED <<request, response, mutex, caches, scratch>>

CacheHit(t) ==
    /\ At(t, "int") /\ local[t].n \in DOMAIN integer_to_ec_point_map
    /\ Encrypting(t, integer_to_ec_point_map[local[t].n])
    /\ UNCHANGED <<request, response, mutex, caches, scratch>>

CacheMiss(t) == At(t, "int") /\ local[t].n \notin DOMAIN integer_to_ec_point_map

\* Mutant of Exceeds: counters above the maximum are not clamped.
NeverExceeds(n) == FALSE
Exceeds(n) == n > Overflow

\* Mutant of Clamped: the argument of the recursive call is clamped again.
ClampedAgain == Overflow + 1
Clamped == Overflow

\* The recursive call with max_counter_value_ + 1.
Clamp(t) ==
    /\ CacheMiss(t) /\ Exceeds(local[t].n)
    /\ Set(t, [local[t] EXCEPT !.n = Clamped])
    /\ UNCHANGED <<request, response, mutex, caches, scratch>>

ZeroError(t) ==
    /\ CacheMiss(t) /\ ~Exceeds(local[t].n) /\ local[t].n = 0
    /\ ReturnError(t)

\* ec_1.Mul(ctx_->CreateBigNum(n)); n = 1 hashes the seed.
Multiply(t) ==
    /\ CacheMiss(t) /\ ~Exceeds(local[t].n) /\ local[t].n # 0
    /\ scratch' = Times(local[t].n)
    /\ Set(t, [local[t] EXCEPT !.pc = "mul"])
    /\ UNCHANGED <<request, response, mutex, caches>>

StorePoint(t) ==
    /\ At(t, "mul")
    /\ integer_to_ec_point_map' =
          [n \in DOMAIN integer_to_ec_point_map \cup {local[t].n} |->
             IF n = local[t].n THEN scratch ELSE integer_to_ec_point_map[n]]
    /\ Encrypting(t, scratch)
    /\ scratch' = NoPoint
    /\ UNCHANGED <<request, response, mutex, destroyed_register_key_ec>>

(***************************************************************************)
(* EncryptAdditionalECPoint: el_gamal_cipher_->Encrypt, then the append.   *)
(***************************************************************************)
Encrypt(t) ==
    /\ At(t, "append")
    /\ scratch' = local[t].point
    /\ Set(t, [local[t] EXCEPT !.pc = "cipher"])
    /\ UNCHANGED <<request, response, mutex, caches>>

\* Mutant of LastOfRun: a run of equal points is one too long.
OneAfterRun(times) == times = 0
LastOfRun(times) == times = 1

AppendCiphertext(t) ==
    /\ At(t, "cipher")
    /\ Set(t, [local[t] EXCEPT !.out = Append(@, scratch), !.times = @ - 1,
                 !.pc = IF LastOfRun(local[t].times) THEN "loop" ELSE "append"])
    /\ scratch' = NoPoint
    /\ UNCHANGED <<request, response, mutex, caches>>

\* Any operation on the curve may return an error.
CryptoError(t) ==
    /\ CryptoMayFail
    /\ \/ At(t, "mul") \/ At(t, "cipher")
       \/ HasJob(t, "text") \/ HasJob(t, "noise") \/ HasJob(t, "random")
       \/ HasJob(t, "flag") /\ destroyed_register_key_ec = NoPoint
    /\ ReturnError(t)

Step(t) ==
    \/ LockEncrypt(t) \/ LockNoise(t)
    \/ NextRegister(t) \/ ReturnOk(t) \/ FailJob(t)
    \/ MapToCurve(t) \/ FlagPoint(t)
    \/ CallGetECPoint(t) \/ CacheHit(t) \/ Clamp(t) \/ ZeroError(t)
    \/ Multiply(t) \/ StorePoint(t)
    \/ Encrypt(t) \/ AppendCiphertext(t) \/ CryptoError(t)

Next ==
    \/ \E t \in Thread, req \in EncryptRequest \cup NoiseRequest : Call(t, req)
    \/ \E t \in Thread : Step(t)

Spec == Init /\ [][Next]_vars

\* A thread that can take a step of its call eventually takes one.
FairSpec == Spec /\ \A t \in Thread : WF_vars(Step(t))
-----------------------------------------------------------------------------
(***************************************************************************)
(* Properties.                                                             *)
(***************************************************************************)
Jobs == [do : {"text", "int", "flag", "noise", "random", "fail"}, arg : Int, times : Nat]
Running(t) == local[t].pc \notin {"idle", "lock"}

\* Every variable has its type; the count of ciphertexts a run still owes
\* never goes below zero, and a counter fits a size_t.
TypeOK ==
    /\ max_counter_value \in MaxCounterValue
    /\ request \in [Thread -> EncryptRequest \cup NoiseRequest \cup {Service!None}]
    /\ \A t \in Thread : response[t].status \in {"None", "Ok", "Error"}
    /\ mutex \in Thread \cup {Free}
    /\ \A n \in DOMAIN integer_to_ec_point_map : integer_to_ec_point_map[n] \in Point
    /\ destroyed_register_key_ec \in Point \cup {NoPoint}
    /\ scratch \in Point \cup {NoPoint}
    /\ \A t \in Thread :
          /\ local[t].pc \in {"idle", "lock", "loop", "int", "mul", "append", "cipher"}
          /\ \A j \in Range(local[t].jobs) : j \in Jobs
          /\ local[t].n \in Nat
          /\ local[t].times \in Nat
          /\ local[t].point \in Point \cup {NoPoint}

\* mutex_ (sketch_encrypter.cc:128-130): exactly the thread that holds it is
\* past the WriterMutexLock of its call, on every return path as well.
Exclusive == \A t \in Thread : Running(t) <=> mutex = t

\* The memory of the cipher and the context belongs to one operation at a
\* time: the result a thread is about to read is that of its own operand.
ScratchUndisturbed ==
    \A t \in Thread :
        /\ At(t, "mul") => scratch = Times(local[t].n)
        /\ At(t, "cipher") => scratch = local[t].point

\* Whatever the history of calls, failures included, a cached counter point
\* is the multiple it stands for, no counter above max_counter_value_ + 1 has
\* an entry of its own, and the cached destroyed key is that of the constant.
CacheSound ==
    /\ \A n \in DOMAIN integer_to_ec_point_map :
          n \in 1 .. Overflow /\ integer_to_ec_point_map[n] = Times(n)
    /\ destroyed_register_key_ec \in {NoPoint, Service!Flag}

\* The calls of several threads, with caches and errors, answer as if each of
\* them ran alone on an object without caches.
Implements == Service!Spec

Responses(kind) ==
    {response[t] : t \in {u \in Thread : response[u].of.kind = kind /\ response[u].status = "Ok"}}

\* The two registers that EncryptDestroyedRegister appends for a destroyed
\* register under CONFLICTING_KEYS have the same index and different values
\* (sketch_encrypter.cc:296), so that a later aggregation destroys it again.
ConflictingKeysDiffer ==
    \A res \in Responses("encrypt") :
        res.of.strategy = "CONFLICTING_KEYS" =>
            \A reg \in Range(res.of.registers) :
                IsRegisterDestroyed(reg, res.of.aggregators) =>
                    \E i, j \in 1 .. Len(res.out) - 1 :
                        /\ res.out[i] = Text(reg.index) /\ res.out[j] = Text(reg.index)
                        /\ res.out[i + 1] # res.out[j + 1]

\* Counters above max_counter_value_ + 1 are indistinguishable from it in every
\* answer, and there is no counter 0.  The private comment of the class says so;
\* "Greater values are encrypted as the max_counter_value" (sketch_encrypter.h:68)
\* is one less.  A maximum of SIZE_MAX, which is what
\* maximum_value = -1 becomes, wraps to zero in GetECPointForInteger: then no
\* call that needs the point of a counter succeeds.
CountersClamped ==
    \A res \in Responses("encrypt") : \A p \in Range(res.out) :
        p[1] = "times" => p[2] \in 1 .. Overflow

\* The call that holds the mutex returns and gives it back, and while a call
\* waits for the mutex some call gets it.
CallsReturn ==
    /\ \A t \in Thread : mutex = t ~> request[t] = Service!None /\ mutex # t
    /\ (\E t \in Thread : At(t, "lock")) ~> (mutex # Free)
=============================================================================
