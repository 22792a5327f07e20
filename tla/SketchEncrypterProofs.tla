----------------------- MODULE SketchEncrypterProofs -----------------------
(***************************************************************************)
(* The mutex of SketchEncrypterImpl does what it is there for, and the     *)
(* caches stay sound, for any threads, requests, maxima and failures.  In  *)
(* the second half, SketchEncrypter implements EncryptionService.          *)
(***************************************************************************)
EXTENDS SketchEncrypter, FoldLemmas

\* The jobs the code makes: only counters go through GetECPointForInteger.
ProperJob == {j \in Jobs : j.do = "int" => j.arg \in Nat}

Locals ==
    [pc : {"idle", "lock", "loop", "int", "mul", "append", "cipher"},
     left : Seq(Seq(ProperJob)), jobs : Seq(ProperJob), n : Nat,
     point : Point \cup {NoPoint}, times : Nat, out : Seq(Point)]

\* What holds of the locals of a call at each place.
Proper(l) ==
    /\ l.pc \in {"append", "cipher"} => l.times > 0 /\ l.point \in Point
    /\ l.pc \in {"int", "mul"} => l.jobs # << >>
    /\ l.pc = "mul" => l.n \in 1 .. Overflow

SharedInv ==
    /\ max_counter_value \in MaxCounterValue
    /\ mutex \in Thread \cup {Free}
    /\ scratch \in Point \cup {NoPoint}
    /\ CacheSound

CallsInv ==
    /\ request \in [Thread -> EncryptRequest \cup NoiseRequest \cup {Service!None}]
    /\ DOMAIN response = Thread
    /\ \A t \in Thread : response[t].status \in {"None", "Ok", "Error"}

LocalInv ==
    /\ local \in [Thread -> Locals]
    /\ \A t \in Thread : Proper(local[t])

Inv == SharedInv /\ CallsInv /\ LocalInv /\ Exclusive /\ ScratchUndisturbed

LEMMA MaximumFits == SharedInv => Overflow \in Nat
BY ServiceAssumption DEF SharedInv, Overflow

LEMMA InitInv == Init => Inv
<1> SUFFICES ASSUME Init PROVE Inv
  OBVIOUS
<1>1. SharedInv
  BY DEF Init, SharedInv, CacheSound
<1>2. CallsInv
  BY DEF Init, CallsInv, Service!NoResponse
<1>3. Idle \in Locals
  BY DEF Idle, Locals
<1>4. LocalInv /\ Exclusive /\ ScratchUndisturbed
  BY <1>3, FreeIsNoThread DEF Init, LocalInv, Proper, Idle, Exclusive, Running, ScratchUndisturbed, At
<1>5. QED  BY <1>1, <1>2, <1>4 DEF Inv

\* Only t's locals change.
LEMMA SetLocals ==
    ASSUME Inv, NEW t \in Thread, NEW l \in Locals, Set(t, l)
    PROVE  /\ local' \in [Thread -> Locals] /\ local'[t] = l
           /\ \A u \in Thread \ {t} : local'[u] = local[u]
           /\ max_counter_value' = max_counter_value /\ Overflow' = Overflow
BY DEF Set, Inv, LocalInv, Overflow

\* A step inside the critical section keeps the invariant if the locals it
\* leaves are proper and go with the scratch memory it leaves.
LEMMA StepInside ==
    ASSUME Inv, NEW t \in Thread, NEW l \in Locals, Running(t), Set(t, l),
           l.pc \notin {"idle", "lock"}, Proper(l),
           l.pc = "mul" => scratch' = Times(l.n),
           l.pc = "cipher" => scratch' = l.point,
           UNCHANGED <<request, response, mutex>>,
           scratch' \in Point \cup {NoPoint}, CacheSound'
    PROVE  Inv'
<1>1. /\ local' \in [Thread -> Locals] /\ local'[t] = l
      /\ \A u \in Thread \ {t} : local'[u] = local[u]
      /\ max_counter_value' = max_counter_value /\ Overflow' = Overflow
  BY SetLocals
<1>2. SharedInv'
  BY <1>1 DEF Inv, SharedInv
<1>3. CallsInv'
  BY DEF Inv, CallsInv
<1>4. LocalInv'
  BY <1>1 DEF Inv, LocalInv, Proper
<1>5. Exclusive'
  BY <1>1 DEF Inv, Exclusive, Running
<1>6. ScratchUndisturbed'
  BY <1>1 DEF Inv, ScratchUndisturbed, Exclusive, Running, At
<1>7. QED  BY <1>2, <1>3, <1>4, <1>5, <1>6 DEF Inv

\* Taking the mutex.
LEMMA StepLock ==
    ASSUME Inv, NEW t \in Thread, NEW l \in Locals, mutex = Free, mutex' = t,
           Set(t, l), l.pc = "loop", UNCHANGED <<request, response, caches, scratch>>
    PROVE  Inv'
<1>1. /\ local' \in [Thread -> Locals] /\ local'[t] = l
      /\ \A u \in Thread \ {t} : local'[u] = local[u]
      /\ max_counter_value' = max_counter_value /\ Overflow' = Overflow
  BY SetLocals
<1>2. \A u \in Thread : ~Running(u)
  BY FreeIsNoThread DEF Inv, Exclusive
<1>3. SharedInv'
  BY <1>1 DEF Inv, SharedInv, CacheSound, caches
<1>4. CallsInv'
  BY DEF Inv, CallsInv
<1>5. LocalInv'
  BY <1>1 DEF Inv, LocalInv, Proper
<1>6. Exclusive' /\ ScratchUndisturbed'
  BY <1>1, <1>2 DEF Exclusive, Running, ScratchUndisturbed, At
<1>7. QED  BY <1>3, <1>4, <1>5, <1>6 DEF Inv

\* Returning, with the mutex, on any path.
LEMMA StepReturn ==
    ASSUME Inv, NEW t \in Thread, Running(t), NEW res, res.status \in {"Ok", "Error"},
           Return(t, res)
    PROVE  Inv'
<1>1. Idle \in Locals /\ Idle.pc = "idle"
  BY DEF Idle, Locals
<1>2. /\ local' \in [Thread -> Locals] /\ local'[t] = Idle
      /\ \A u \in Thread \ {t} : local'[u] = local[u]
      /\ max_counter_value' = max_counter_value /\ Overflow' = Overflow
  BY <1>1, SetLocals DEF Return
<1>3. SharedInv'
  BY <1>2 DEF Return, Inv, SharedInv, CacheSound, caches
<1>4. CallsInv'
  BY DEF Return, Inv, CallsInv
<1>5. LocalInv'
  BY <1>1, <1>2 DEF Inv, LocalInv, Proper
<1>6. \A u \in Thread \ {t} : ~Running(u)
  BY DEF Inv, Exclusive
<1>7. Exclusive' /\ ScratchUndisturbed'
  BY <1>1, <1>2, <1>6, FreeIsNoThread DEF Return, Exclusive, Running, ScratchUndisturbed, At
<1>8. QED  BY <1>3, <1>4, <1>5, <1>7 DEF Inv

LEMMA StepReturnError ==
    ASSUME Inv, NEW t \in Thread, Running(t), ReturnError(t)
    PROVE  Inv'
BY StepReturn DEF ReturnError, Service!Error

(***************************************************************************)
(* The jobs of a call.                                                     *)
(***************************************************************************)
LEMMA JobIsProper ==
    ASSUME NEW do \in {"text", "flag", "noise", "random", "fail"}, NEW arg \in Int,
           NEW times \in Nat
    PROVE  Job(do, arg, times) \in ProperJob
BY DEF Job, ProperJob, Jobs

LEMMA CounterIsProper ==
    ASSUME NEW n \in Nat, NEW times \in Nat
    PROVE  Job("int", n, times) \in ProperJob
BY DEF Job, ProperJob, Jobs

LEMMA FailIsProper == Fail \in ProperJob
BY JobIsProper DEF Fail

LEMMA SameValueJobs ==
    ASSUME NEW index \in Int, NEW width \in Nat, NEW n \in Nat
    PROVE  SameValue(index, width, n) \in Seq(ProperJob)
<1>1. Job("text", index, 1) \in ProperJob
  BY JobIsProper
<1>2. Job("int", n, width) \in ProperJob
  BY CounterIsProper
<1>3. QED  BY <1>1, <1>2 DEF SameValue

LEMMA RegisterJobsProper ==
    ASSUME NEW req \in EncryptRequest, NEW reg \in [index : Int, values : Seq(Int)]
    PROVE  RegisterJobs(reg, req) \in Seq(ProperJob)
<1>1. reg.index \in Int /\ Len(reg.values) \in Nat
  OBVIOUS
<1>2. DestroyedRegister(reg, req.strategy) \in Seq(ProperJob)
  <2>1. CASE req.strategy = "CONFLICTING_KEYS"
    <3>1. SameValue(reg.index, Len(reg.values), 1) \in Seq(ProperJob)
      BY <1>1, SameValueJobs
    <3>2. SameValue(reg.index, Len(reg.values), SecondValue) \in Seq(ProperJob)
      BY <1>1, SameValueJobs DEF SecondValue
    <3>3. QED  BY <2>1, <3>1, <3>2 DEF DestroyedRegister
  <2>2. CASE req.strategy = "FLAGGED_KEY"
    <3>1. Job("text", reg.index, 1) \in ProperJob /\ Job("flag", 0, Len(reg.values)) \in ProperJob
      BY <1>1, JobIsProper
    <3>2. QED  BY <2>2, <3>1 DEF DestroyedRegister
  <2>3. CASE req.strategy \notin {"CONFLICTING_KEYS", "FLAGGED_KEY"}
    BY <2>3, FailIsProper DEF DestroyedRegister
  <2>4. QED  BY <2>1, <2>2, <2>3
<1>3. NonDestroyedRegister(reg, req.aggregators) \in Seq(ProperJob)
  <2>1. ASSUME NEW value \in Int, NEW aggregator
        PROVE  ValueJob(aggregator, value) \in ProperJob
    <3>1. CASE aggregator = "UNIQUE"
      BY <3>1, JobIsProper DEF ValueJob
    <3>2. CASE aggregator = "SUM" /\ value > 0
      BY <3>2, CounterIsProper DEF ValueJob
    <3>3. CASE aggregator # "UNIQUE" /\ ~(aggregator = "SUM" /\ value > 0)
      BY <3>3, FailIsProper DEF ValueJob
    <3>4. QED  BY <3>1, <3>2, <3>3
  <2>2. [i \in DOMAIN reg.values |-> ValueJob(req.aggregators[i], reg.values[i])]
          \in Seq(ProperJob)
    BY <2>1
  <2>3. Job("text", reg.index, 1) \in ProperJob
    BY <1>1, JobIsProper
  <2>4. QED  BY <2>2, <2>3 DEF NonDestroyedRegister
<1>4. QED  BY <1>2, <1>3 DEF RegisterJobs

LEMMA SequenceElements ==
    ASSUME NEW S, NEW s \in Seq(S)
    PROVE  Len(s) \in Nat /\ DOMAIN s = 1 .. Len(s) /\ \A i \in DOMAIN s : s[i] \in S
OBVIOUS

LEMMA FunctionIsSequence ==
    ASSUME NEW S, NEW n \in Nat, NEW s \in [1 .. n -> S]
    PROVE  s \in Seq(S)
OBVIOUS

LEMMA SketchJobsProper ==
    ASSUME NEW req \in EncryptRequest, NEW registers \in Seq([index : Int, values : Seq(Int)])
    PROVE  [r \in DOMAIN registers |-> RegisterJobs(registers[r], req)] \in Seq(Seq(ProperJob))
<1>1. /\ Len(registers) \in Nat /\ DOMAIN registers = 1 .. Len(registers)
      /\ \A r \in DOMAIN registers : registers[r] \in [index : Int, values : Seq(Int)]
  BY SequenceElements, Zenon
<1>2. \A r \in DOMAIN registers : RegisterJobs(registers[r], req) \in Seq(ProperJob)
  BY <1>1, RegisterJobsProper, Zenon
<1>3. [r \in DOMAIN registers |-> RegisterJobs(registers[r], req)]
          \in [1 .. Len(registers) -> Seq(ProperJob)]
  BY <1>1, <1>2, Zenon
<1>4. QED  BY <1>1, <1>3, FunctionIsSequence, Zenon

LEMMA NoiseJobsProper ==
    ASSUME NEW width \in Nat
    PROVE  NoiseJobs(width) \in Seq(ProperJob)
<1>1. Job("noise", 0, 1) \in ProperJob /\ Job("random", 0, width) \in ProperJob
  BY JobIsProper
<1>2. QED  BY <1>1 DEF NoiseJobs

\* A call that is rejected at once.
LEMMA FailingJobs == <<<<Fail>>>> \in Seq(Seq(ProperJob))
BY FailIsProper

(***************************************************************************)
(* The actions.                                                            *)
(***************************************************************************)
LEMMA CallStep ==
    ASSUME Inv, NEW t \in Thread, NEW req \in EncryptRequest \cup NoiseRequest, Call(t, req)
    PROVE  Inv'
<1>1. local[t] \in Locals
  BY DEF Inv, LocalInv
<1>2. DEFINE l == [local[t] EXCEPT !.pc = "lock"]
<1>3. l \in Locals /\ l.pc = "lock"
  BY <1>1 DEF Locals
<1>4. /\ local' \in [Thread -> Locals] /\ local'[t] = l
      /\ \A u \in Thread \ {t} : local'[u] = local[u]
      /\ max_counter_value' = max_counter_value /\ Overflow' = Overflow
  BY <1>3, SetLocals DEF Call
<1>5. SharedInv'
  BY <1>4 DEF Call, Inv, SharedInv, CacheSound, caches
<1>6. CallsInv'
  BY DEF Call, Inv, CallsInv, Service!NoResponse
<1>7. LocalInv'
  BY <1>3, <1>4 DEF Inv, LocalInv, Proper
<1>8. Exclusive' /\ ScratchUndisturbed'
  BY <1>3, <1>4 DEF Call, Inv, Exclusive, Running, ScratchUndisturbed, At
<1>9. QED  BY <1>5, <1>6, <1>7, <1>8 DEF Inv

LEMMA LockEncryptStep ==
    ASSUME Inv, NEW t \in Thread, LockEncrypt(t)
    PROVE  Inv'
<1>1. local[t] \in Locals
  BY DEF Inv, LocalInv
<1> DEFINE req == request[t]
           left == IF ValidateSketch(req)
                   THEN [r \in DOMAIN req.registers |-> RegisterJobs(req.registers[r], req)]
                   ELSE <<<<Fail>>>>
           l == [local[t] EXCEPT !.pc = "loop", !.left = left]
<1>2. req \in EncryptRequest
  BY RequestAssumption DEF LockEncrypt, Inv, CallsInv, Service!None
<1>3. req.registers \in Seq([index : Int, values : Seq(Int)])
  BY <1>2, RequestAssumption
<1>4. left \in Seq(Seq(ProperJob))
  BY <1>2, <1>3, SketchJobsProper, FailingJobs, Zenon
<1>5. l \in Locals /\ l.pc = "loop"
  BY <1>1, <1>4 DEF Locals
<1>6. Set(t, l) /\ mutex = Free /\ mutex' = t
  BY DEF LockEncrypt, MayEnter, Holder
<1>7. QED  BY <1>5, <1>6, StepLock DEF LockEncrypt

LEMMA LockNoiseStep ==
    ASSUME Inv, NEW t \in Thread, LockNoise(t)
    PROVE  Inv'
<1>1. local[t] \in Locals
  BY DEF Inv, LocalInv
<1> DEFINE req == request[t]
           start == [local[t] EXCEPT !.pc = "loop", !.out = req.given]
           Left(noise_count) == [i \in 1 .. noise_count |-> NoiseJobs(req.value_count)]
<1>2. req \in NoiseRequest
  <2>1. req.kind = "noise" /\ req \in EncryptRequest \cup NoiseRequest \cup {Service!None}
    BY DEF LockNoise, Inv, CallsInv
  <2>2. \A r \in EncryptRequest : r.kind = "encrypt"
    BY RequestAssumption
  <2>3. QED  BY <2>1, <2>2 DEF Service!None
<1>3. req.value_count \in Int /\ req.given \in Seq(Point)
  BY <1>2, RequestAssumption
<1>4. start \in Locals
  BY <1>1, <1>3 DEF Locals
<1>5. ASSUME NEW left \in Seq(Seq(ProperJob)), Set(t, [start EXCEPT !.left = left])
      PROVE  Inv'
  <2>1. [start EXCEPT !.left = left] \in Locals /\ [start EXCEPT !.left = left].pc = "loop"
    BY <1>1, <1>3 DEF Locals
  <2>2. mutex = Free /\ mutex' = t
    BY DEF LockNoise, MayEnter, Holder
  <2>3. QED  BY <1>5, <2>1, <2>2, StepLock DEF LockNoise
<1>6. CASE Set(t, [start EXCEPT !.left = <<<<Fail>>>>])
  BY <1>5, <1>6, FailingJobs
<1>7. CASE req.value_count >= 1 /\
           \E noise_count \in NoiseCount : Set(t, [start EXCEPT !.left = Left(noise_count)])
  <2>1. PICK noise_count \in NoiseCount : Set(t, [start EXCEPT !.left = Left(noise_count)])
    BY <1>7
  <2>2. NoiseJobs(req.value_count) \in Seq(ProperJob) /\ noise_count \in Nat
    BY <1>3, <1>7, NoiseJobsProper, ServiceAssumption
  <2>3. Left(noise_count) \in Seq(Seq(ProperJob))
    BY <2>2
  <2>4. QED  BY <1>5, <2>1, <2>3
<1>8. QED  BY <1>6, <1>7 DEF LockNoise

\* What is known of the locals of a thread.
LEMMA LocalsOf ==
    ASSUME Inv, NEW t \in Thread
    PROVE  /\ local[t] \in Locals /\ Proper(local[t])
           /\ local[t].jobs # << >> =>
                 HeadJob(t) \in ProperJob /\ Tail(local[t].jobs) \in Seq(ProperJob)
<1>1. local[t] \in Locals /\ Proper(local[t])
  BY DEF Inv, LocalInv
<1>2. local[t].jobs \in Seq(ProperJob)
  BY <1>1 DEF Locals
<1> HIDE DEF ProperJob
<1>3. QED  BY <1>1, <1>2 DEF HeadJob

LEMMA EncryptingStep ==
    ASSUME Inv, NEW t \in Thread, NEW point \in Point, Running(t), local[t].jobs # << >>,
           Encrypting(t, point), UNCHANGED <<request, response, mutex>>,
           scratch' \in Point \cup {NoPoint}, CacheSound'
    PROVE  Inv'
<1> DEFINE pc == IF HeadJob(t).times = 0 THEN "loop" ELSE "append"
           l == [local[t] EXCEPT !.jobs = Tail(@), !.point = point, !.pc = pc,
                                 !.times = HeadJob(t).times]
<1>1. /\ local[t] \in Locals
      /\ HeadJob(t) \in ProperJob /\ Tail(local[t].jobs) \in Seq(ProperJob)
  BY LocalsOf
<1>2. HeadJob(t).times \in Nat
  BY <1>1 DEF ProperJob, Jobs
<1>3. l \in Locals
  BY <1>1, <1>2 DEF Locals
<1>4. l.pc = pc /\ l.times = HeadJob(t).times /\ l.point = point
  BY <1>1 DEF Locals
<1>5. Proper(l) /\ l.pc \notin {"idle", "lock", "mul", "cipher"}
  BY <1>2, <1>4 DEF Proper
<1>6. Set(t, l)
  BY DEF Encrypting
<1>7. QED  BY <1>3, <1>5, <1>6, StepInside

LEMMA CachesUnchanged ==
    ASSUME Inv, UNCHANGED <<caches, max_counter_value>>
    PROVE  CacheSound'
BY DEF Inv, SharedInv, CacheSound, caches, Overflow

LEMMA LoopSteps ==
    ASSUME Inv, NEW t \in Thread,
           NextRegister(t) \/ ReturnOk(t) \/ FailJob(t) \/ MapToCurve(t) \/ FlagPoint(t)
    PROVE  Inv'
<1>1. local[t] \in Locals /\ Running(t)
  BY LocalsOf DEF NextRegister, ReturnOk, FailJob, MapToCurve, FlagPoint, HasJob, At, Running
<1>2. CASE NextRegister(t)
  <2> DEFINE l == [local[t] EXCEPT !.jobs = Head(local[t].left), !.left = Tail(@)]
  <2>1. local[t].left \in Seq(Seq(ProperJob)) /\ local[t].left # << >>
    BY <1>1, <1>2 DEF NextRegister, Locals
  <2>2. Head(local[t].left) \in Seq(ProperJob) /\ Tail(local[t].left) \in Seq(Seq(ProperJob))
    <3> HIDE DEF ProperJob
    <3> QED  BY <2>1
  <2>3. l \in Locals
    BY <1>1, <2>2 DEF Locals
  <2>4. l.pc = "loop" /\ Proper(l)
    BY <1>1, <1>2 DEF NextRegister, At, Locals, Proper
  <2>5. Set(t, l) /\ CacheSound' /\ scratch' \in Point \cup {NoPoint}
    BY <1>2, CachesUnchanged DEF NextRegister, Set, Inv, SharedInv
  <2>6. QED  BY <1>1, <1>2, <2>3, <2>4, <2>5, StepInside DEF NextRegister
<1>3. CASE ReturnOk(t)
  BY <1>1, <1>3, StepReturn DEF ReturnOk, Service!OK
<1>4. CASE FailJob(t)
  BY <1>1, <1>4, StepReturnError DEF FailJob
<1>5. CASE MapToCurve(t)
  <2>1. local[t].jobs # << >>
    BY <1>5 DEF MapToCurve, HasJob
  <2>2. HeadJob(t).arg \in Int
    BY <2>1, LocalsOf DEF ProperJob, Jobs
  <2>3. PICK point \in Point : Encrypting(t, point)
    <3>1. Text(HeadJob(t).arg) \in Point /\ Service!NoiseId \in Point
      BY <2>2 DEF Text, Point, Service!NoiseId
    <3>2. \A k \in RandomPoint : Service!Random(k) \in Point
      BY ServiceAssumption DEF Point, Service!Random
    <3>3. QED  BY <1>5, <3>1, <3>2 DEF MapToCurve
  <2>4. CacheSound' /\ scratch' \in Point \cup {NoPoint}
    BY <1>5, <2>3, CachesUnchanged DEF MapToCurve, Encrypting, Set, Inv, SharedInv
  <2>5. QED  BY <1>1, <1>5, <2>1, <2>3, <2>4, EncryptingStep DEF MapToCurve
<1>6. CASE FlagPoint(t)
  <2>1. destroyed_register_key_ec' = Service!Flag
    BY <1>6 DEF FlagPoint, Inv, SharedInv, CacheSound
  <2>2. Service!Flag \in Point
    BY DEF Service!Flag, Point
  <2>3. Encrypting(t, Service!Flag) /\ local[t].jobs # << >>
    BY <1>6, <2>1 DEF FlagPoint, HasJob
  <2>4. CacheSound' /\ scratch' \in Point \cup {NoPoint}
    BY <1>6, <2>1, <2>3 DEF FlagPoint, Encrypting, Set, Inv, SharedInv, CacheSound, Overflow
  <2>5. QED  BY <1>1, <1>6, <2>2, <2>3, <2>4, EncryptingStep DEF FlagPoint
<1>7. QED  BY <1>2, <1>3, <1>4, <1>5, <1>6

LEMMA CounterSteps ==
    ASSUME Inv, NEW t \in Thread,
           CallGetECPoint(t) \/ CacheHit(t) \/ Clamp(t) \/ ZeroError(t)
              \/ Multiply(t) \/ StorePoint(t)
    PROVE  Inv'
<1>1. local[t] \in Locals /\ Running(t)
  BY LocalsOf DEF CallGetECPoint, CacheHit, Clamp, ZeroError, Multiply, StorePoint, CacheMiss,
     HasJob, At, Running
<1>2. Overflow \in Nat /\ local[t].n \in Nat
  BY <1>1, MaximumFits DEF Inv, Locals
<1>3. CASE CallGetECPoint(t)
  <2> DEFINE l == [local[t] EXCEPT !.pc = "int", !.n = HeadJob(t).arg]
  <2>1. local[t].jobs # << >> /\ HeadJob(t).do = "int"
    BY <1>3 DEF CallGetECPoint, HasJob
  <2>2. HeadJob(t).arg \in Nat
    BY <2>1, LocalsOf DEF ProperJob
  <2>3. l \in Locals /\ l.pc = "int" /\ l.jobs = local[t].jobs
    BY <1>1, <2>2 DEF Locals
  <2>4. Proper(l)
    BY <2>1, <2>3 DEF Proper
  <2>5. Set(t, l) /\ CacheSound' /\ scratch' \in Point \cup {NoPoint}
    BY <1>3, CachesUnchanged DEF CallGetECPoint, Set, Inv, SharedInv
  <2>6. QED  BY <1>1, <1>3, <2>3, <2>4, <2>5, StepInside DEF CallGetECPoint
<1>4. CASE CacheHit(t)
  <2>1. integer_to_ec_point_map[local[t].n] \in Point
    BY <1>2, <1>4 DEF CacheHit, Inv, SharedInv, CacheSound, Times, Point
  <2>2. local[t].jobs # << >>
    BY <1>4, LocalsOf DEF CacheHit, At, Proper
  <2>3. CacheSound' /\ scratch' \in Point \cup {NoPoint}
    BY <1>4, CachesUnchanged DEF CacheHit, Encrypting, Set, Inv, SharedInv
  <2>4. QED  BY <1>1, <1>4, <2>1, <2>2, <2>3, EncryptingStep DEF CacheHit
<1>5. CASE Clamp(t)
  <2> DEFINE l == [local[t] EXCEPT !.n = Clamped]
  <2>1. l \in Locals /\ l.pc = "int" /\ l.jobs = local[t].jobs
    BY <1>1, <1>2, <1>5 DEF Clamp, CacheMiss, At, Locals, Clamped
  <2>2. Proper(l)
    BY <1>5, <2>1, LocalsOf DEF Proper, Clamp, CacheMiss, At
  <2>3. Set(t, l) /\ CacheSound' /\ scratch' \in Point \cup {NoPoint}
    BY <1>5, CachesUnchanged DEF Clamp, Set, Inv, SharedInv
  <2>4. QED  BY <1>1, <1>5, <2>1, <2>2, <2>3, StepInside DEF Clamp
<1>6. CASE ZeroError(t)
  BY <1>1, <1>6, StepReturnError DEF ZeroError
<1>7. CASE Multiply(t)
  <2> DEFINE l == [local[t] EXCEPT !.pc = "mul"]
  <2>1. /\ l \in Locals /\ l.pc = "mul" /\ l.jobs = local[t].jobs /\ l.n = local[t].n
    BY <1>1 DEF Locals
  <2>2. l.n \in 1 .. Overflow
    BY <1>2, <1>7, <2>1 DEF Multiply, Exceeds
  <2>3. Proper(l)
    BY <1>7, <2>1, <2>2, LocalsOf DEF Proper, Multiply, CacheMiss, At
  <2>4. scratch' = Times(l.n) /\ scratch' \in Point \cup {NoPoint}
    BY <1>7, <1>2, <2>1 DEF Multiply, Times, Point
  <2>5. Set(t, l) /\ CacheSound'
    BY <1>7, CachesUnchanged DEF Multiply, Set
  <2>6. QED  BY <1>1, <1>7, <2>1, <2>3, <2>4, <2>5, StepInside DEF Multiply
<1>8. CASE StorePoint(t)
  <2>1. scratch = Times(local[t].n) /\ local[t].n \in 1 .. Overflow /\ local[t].jobs # << >>
    BY <1>8, LocalsOf DEF StorePoint, At, Proper, Inv, ScratchUndisturbed
  <2>2. scratch \in Point
    BY <1>2, <2>1 DEF Times, Point
  <2>3. Overflow' = Overflow
    BY <1>8 DEF StorePoint, Encrypting, Set, Overflow
  <2>4. CacheSound'
    BY <1>8, <2>1, <2>3 DEF StorePoint, Inv, SharedInv, CacheSound
  <2>5. QED  BY <1>1, <1>8, <2>1, <2>2, <2>4, EncryptingStep DEF StorePoint
<1>9. QED  BY <1>3, <1>4, <1>5, <1>6, <1>7, <1>8

LEMMA CipherSteps ==
    ASSUME Inv, NEW t \in Thread, Encrypt(t) \/ AppendCiphertext(t) \/ CryptoError(t)
    PROVE  Inv'
<1>1. local[t] \in Locals /\ Running(t)
  BY LocalsOf DEF Encrypt, AppendCiphertext, CryptoError, HasJob, At, Running
<1>2. CASE Encrypt(t)
  <2> DEFINE l == [local[t] EXCEPT !.pc = "cipher"]
  <2>1. /\ l \in Locals /\ l.pc = "cipher" /\ l.times = local[t].times /\ l.point = local[t].point
    BY <1>1 DEF Locals
  <2>2. Proper(l) /\ l.point \in Point
    BY <1>2, <2>1, LocalsOf DEF Proper, Encrypt, At
  <2>3. scratch' = l.point
    BY <1>2, <2>1 DEF Encrypt
  <2>4. Set(t, l) /\ CacheSound'
    BY <1>2, CachesUnchanged DEF Encrypt, Set
  <2>5. QED  BY <1>1, <1>2, <2>1, <2>2, <2>3, <2>4, StepInside DEF Encrypt
<1>3. CASE AppendCiphertext(t)
  <2> DEFINE pc == IF LastOfRun(local[t].times) THEN "loop" ELSE "append"
             l == [local[t] EXCEPT !.out = Append(@, scratch), !.times = @ - 1, !.pc = pc]
  <2>1. /\ scratch = local[t].point /\ local[t].point \in Point
        /\ local[t].times \in Nat /\ local[t].times > 0
    BY <1>1, <1>3, LocalsOf DEF AppendCiphertext, At, Proper, Inv, ScratchUndisturbed, Locals
  <2>2. local[t].times - 1 \in Nat /\ Append(local[t].out, scratch) \in Seq(Point)
    <3>1. local[t].out \in Seq(Point)
      BY <1>1 DEF Locals
    <3>2. QED  BY <2>1, <3>1
  <2>3. l \in Locals
    BY <1>1, <2>2 DEF Locals
  <2>4. l.pc = pc /\ l.times = local[t].times - 1 /\ l.point = local[t].point
    BY <1>1 DEF Locals
  <2>5. Proper(l) /\ l.pc \in {"loop", "append"}
    BY <2>1, <2>4 DEF Proper, LastOfRun
  <2>6. Set(t, l) /\ CacheSound' /\ scratch' \in Point \cup {NoPoint}
    BY <1>3, CachesUnchanged DEF AppendCiphertext, Set
  <2>7. QED  BY <1>1, <1>3, <2>3, <2>5, <2>6, StepInside DEF AppendCiphertext
<1>4. CASE CryptoError(t)
  BY <1>1, <1>4, StepReturnError DEF CryptoError
<1>5. QED  BY <1>2, <1>3, <1>4

LEMMA NextInv == Inv /\ [Next]_vars => Inv'
<1> SUFFICES ASSUME Inv, [Next]_vars PROVE Inv'
  OBVIOUS
<1>1. CASE UNCHANGED vars
  BY <1>1 DEF vars, Inv, SharedInv, CallsInv, LocalInv, Proper, Exclusive, Running,
     ScratchUndisturbed, At, CacheSound, Overflow
<1>2. CASE \E t \in Thread, req \in EncryptRequest \cup NoiseRequest : Call(t, req)
  BY <1>2, CallStep
<1>3. CASE \E t \in Thread : Step(t)
  BY <1>3, LockEncryptStep, LockNoiseStep, LoopSteps, CounterSteps, CipherSteps DEF Step
<1>4. QED  BY <1>1, <1>2, <1>3 DEF Next

\* The invariant of the encrypter and of the calls that use it holds throughout.
THEOREM InvCorrect == Spec => []Inv
BY InitInv, NextInv, PTL DEF Spec

(***************************************************************************)
(* The type invariant.                                                     *)
(***************************************************************************)
THEOREM TypeCorrect == Spec => []TypeOK
<1>1. Inv => TypeOK
  <2> SUFFICES ASSUME Inv PROVE TypeOK
    OBVIOUS
  <2>1. \A n \in DOMAIN integer_to_ec_point_map : integer_to_ec_point_map[n] \in Point
    BY MaximumFits DEF Inv, SharedInv, CacheSound, Times, Point
  <2>2. destroyed_register_key_ec \in Point \cup {NoPoint}
    BY DEF Inv, SharedInv, CacheSound, Service!Flag, Point
  <2>3. ASSUME NEW t \in Thread, NEW j \in Range(local[t].jobs) PROVE j \in Jobs
    <3>1. local[t].jobs \in Seq(ProperJob)
      BY LocalsOf DEF Locals
    <3>2. PICK i \in DOMAIN local[t].jobs : j = local[t].jobs[i]
      BY DEF Range
    <3>3. j \in ProperJob
      <4> HIDE DEF ProperJob
      <4> QED  BY <3>1, <3>2
    <3>4. QED  BY <3>3 DEF ProperJob
  <2>4. \A t \in Thread : local[t] \in Locals
    BY LocalsOf
  <2>5. QED  BY <2>1, <2>2, <2>3, <2>4 DEF TypeOK, Inv, SharedInv, CallsInv, Locals
<1>2. QED  BY InvCorrect, <1>1, PTL

(***************************************************************************)
(* The mutex is held exactly by the thread that is inside, on every path.  *)
(***************************************************************************)
THEOREM ExclusiveCorrect == Spec => []Exclusive
<1>1. Inv => Exclusive
  BY DEF Inv
<1>2. QED  BY InvCorrect, <1>1, PTL

(***************************************************************************)
(* What a thread reads from the cipher is the result of its own operand.   *)
(***************************************************************************)
THEOREM ScratchCorrect == Spec => []ScratchUndisturbed
<1>1. Inv => ScratchUndisturbed
  BY DEF Inv
<1>2. QED  BY InvCorrect, <1>1, PTL

(***************************************************************************)
(* The caches hold what they stand for, whatever calls failed before.      *)
(***************************************************************************)
THEOREM CacheCorrect == Spec => []CacheSound
<1>1. Inv => CacheSound
  BY DEF Inv, SharedInv
<1>2. QED  BY InvCorrect, <1>1, PTL

(***************************************************************************)
(* Answers: no counter above the limit gets into one.                      *)
(***************************************************************************)
Clear(p) == p[1] = "times" => p[2] \in 1 .. Overflow
ClearSeq(out) == \A i \in 1 .. Len(out) : Clear(out[i])

ClearThread(t) ==
    /\ At(t, "idle") \/ At(t, "lock") => local[t].out = << >>
    /\ request[t].kind = "encrypt" => ClearSeq(local[t].out)
    /\ local[t].pc \in {"append", "cipher"} => Clear(local[t].point)
    /\ response[t].of.kind = "encrypt" =>
          Len(response[t].out) \in Nat /\ DOMAIN response[t].out = 1 .. Len(response[t].out)
             /\ ClearSeq(response[t].out)

ClearInv == \A t \in Thread : ClearThread(t)

LEMMA InitClear == Init => ClearInv
BY DEF Init, ClearInv, ClearThread, Idle, At, Service!None, Service!NoResponse

\* A step of a call that does not return yet.
LEMMA ClearInside ==
    ASSUME Inv, ClearInv, NEW t \in Thread, NEW l, Set(t, l), UNCHANGED <<request, response>>,
           l.pc \notin {"idle", "lock"},
           request[t].kind = "encrypt" => ClearSeq(l.out),
           l.pc \in {"append", "cipher"} => Clear(l.point)
    PROVE  ClearInv'
<1>1. /\ local'[t] = l /\ \A u \in Thread \ {t} : local'[u] = local[u]
      /\ Overflow' = Overflow
  BY DEF Set, Inv, LocalInv, Overflow
<1>2. ASSUME NEW u \in Thread PROVE ClearThread(u)'
  <2>1. CASE u = t
    BY <1>1, <2>1 DEF ClearInv, ClearThread, ClearSeq, Clear, At
  <2>2. CASE u # t
    BY <1>1, <2>2 DEF ClearInv, ClearThread, ClearSeq, Clear, At
  <2>3. QED  BY <2>1, <2>2
<1>3. QED  BY <1>2 DEF ClearInv

\* A call that returns.
LEMMA ClearReturn ==
    ASSUME Inv, ClearInv, NEW t \in Thread, NEW out \in Seq(Point), NEW res, Return(t, res),
           res.of = request[t], res.out = out, request[t].kind = "encrypt" => ClearSeq(out)
    PROVE  ClearInv'
<1>1. /\ local'[t] = Idle /\ \A u \in Thread \ {t} : local'[u] = local[u]
      /\ Overflow' = Overflow
  BY DEF Return, Set, Inv, LocalInv, Overflow
<1>2. /\ request'[t] = Service!None /\ response'[t] = res
      /\ \A u \in Thread \ {t} : request'[u] = request[u] /\ response'[u] = response[u]
  BY DEF Return, Inv, CallsInv
<1>3. Len(out) \in Nat /\ DOMAIN out = 1 .. Len(out)
  OBVIOUS
<1>4. ASSUME NEW u \in Thread PROVE ClearThread(u)'
  <2>1. CASE u = t
    BY <1>1, <1>2, <1>3, <2>1 DEF ClearThread, ClearSeq, Clear, At, Idle, Service!None
  <2>2. CASE u # t
    BY <1>1, <1>2, <2>2, SMTT(30) DEF ClearInv, ClearThread, ClearSeq, Clear, At
  <2>3. QED  BY <2>1, <2>2
<1>5. QED  BY <1>4 DEF ClearInv

LEMMA ClearReturnError ==
    ASSUME Inv, ClearInv, NEW t \in Thread, ReturnError(t)
    PROVE  ClearInv'
<1> DEFINE out == IF request[t].kind = "encrypt" THEN << >> ELSE local[t].out
<1>1. out \in Seq(Point) /\ (request[t].kind = "encrypt" => ClearSeq(out))
  BY LocalsOf DEF Locals, ClearSeq
<1>2. QED  BY <1>1, ClearReturn DEF ReturnError, Service!Error

LEMMA ClearOutside ==
    ASSUME Inv, ClearInv, NEW t \in Thread,
           (\E req \in EncryptRequest \cup NoiseRequest : Call(t, req))
              \/ LockEncrypt(t) \/ LockNoise(t)
    PROVE  ClearInv'
<1>1. local[t] \in Locals
  BY LocalsOf
<1>2. CASE \E req \in EncryptRequest \cup NoiseRequest : Call(t, req)
  <2>1. PICK req \in EncryptRequest \cup NoiseRequest : Call(t, req)
    BY <1>2
  <2>2. /\ local'[t].pc = "lock" /\ local'[t].out = << >>
        /\ \A u \in Thread \ {t} : local'[u] = local[u]
        /\ Overflow' = Overflow
    BY <1>1, <2>1 DEF Call, Set, Inv, LocalInv, Locals, Overflow, ClearInv, ClearThread
  <2>3. /\ response'[t] = Service!NoResponse
        /\ \A u \in Thread \ {t} : request'[u] = request[u] /\ response'[u] = response[u]
    BY <2>1 DEF Call, Inv, CallsInv
  <2>4. ASSUME NEW u \in Thread PROVE ClearThread(u)'
    <3>1. CASE u = t
      BY <2>2, <2>3, <3>1 DEF ClearThread, ClearSeq, At, Service!NoResponse, Service!None
    <3>2. CASE u # t
      BY <2>2, <2>3, <3>2, SMTT(30) DEF ClearInv, ClearThread, ClearSeq, Clear, At
    <3>3. QED  BY <3>1, <3>2
  <2>5. QED  BY <2>4 DEF ClearInv
<1>3. CASE LockEncrypt(t)
  <2> DEFINE left == IF ValidateSketch(request[t])
                     THEN [r \in DOMAIN request[t].registers |->
                             RegisterJobs(request[t].registers[r], request[t])]
                     ELSE <<<<Fail>>>>
             l == [local[t] EXCEPT !.pc = "loop", !.left = left]
  <2>1. Set(t, l) /\ UNCHANGED <<request, response>> /\ local[t].out = << >>
    BY <1>3 DEF LockEncrypt, ClearInv, ClearThread
  <2>2. l.pc = "loop" /\ l.out = << >>
    BY <1>1, <2>1 DEF Locals
  <2> HIDE DEF l
  <2>3. QED  BY <2>1, <2>2, ClearInside DEF ClearSeq
<1>4. CASE LockNoise(t)
  <2>1. PICK left : Set(t, [[local[t] EXCEPT !.pc = "loop", !.out = request[t].given]
                              EXCEPT !.left = left])
    BY <1>4 DEF LockNoise
  <2> DEFINE l == [[local[t] EXCEPT !.pc = "loop", !.out = request[t].given]
                     EXCEPT !.left = left]
  <2>2. Set(t, l) /\ l.pc \notin {"idle", "lock"} /\ l.pc \notin {"append", "cipher"}
    BY <1>1, <2>1 DEF Locals
  <2>3. request[t].kind # "encrypt" /\ UNCHANGED <<request, response>>
    BY <1>4 DEF LockNoise
  <2> HIDE DEF l
  <2>4. QED  BY <2>1, <2>2, <2>3, ClearInside
<1>5. QED  BY <1>2, <1>3, <1>4

LEMMA ClearEncrypting ==
    ASSUME Inv, ClearInv, NEW t \in Thread, NEW point, Clear(point), Encrypting(t, point),
           UNCHANGED <<request, response>>
    PROVE  ClearInv'
<1> DEFINE pc == IF HeadJob(t).times = 0 THEN "loop" ELSE "append"
           l == [local[t] EXCEPT !.jobs = Tail(@), !.point = point, !.pc = pc,
                                 !.times = HeadJob(t).times]
<1>1. l.pc = pc /\ l.point = point /\ l.out = local[t].out
  BY LocalsOf DEF Locals
<1>2. Set(t, l) /\ (request[t].kind = "encrypt" => ClearSeq(l.out))
  BY <1>1 DEF Encrypting, ClearInv, ClearThread
<1> HIDE DEF l
<1>3. QED  BY <1>1, <1>2, ClearInside

LEMMA ClearPoints ==
    ASSUME Inv, ClearInv, NEW t \in Thread,
           MapToCurve(t) \/ FlagPoint(t) \/ CacheHit(t) \/ StorePoint(t)
    PROVE  ClearInv'
<1>1. CASE MapToCurve(t)
  <2>1. /\ Clear(Text(HeadJob(t).arg)) /\ Clear(Service!NoiseId)
        /\ \A k \in RandomPoint : Clear(Service!Random(k))
    BY DEF Clear, Text, Service!NoiseId, Service!Random
  <2>2. PICK point : Encrypting(t, point) /\ Clear(point)
    BY <1>1, <2>1, Zenon DEF MapToCurve
  <2>3. QED  BY <1>1, <2>2, ClearEncrypting DEF MapToCurve
<1>2. CASE FlagPoint(t)
  <2>1. destroyed_register_key_ec' = Service!Flag
    BY <1>2 DEF FlagPoint, Inv, SharedInv, CacheSound
  <2>2. Clear(Service!Flag)
    BY DEF Clear, Service!Flag
  <2>3. QED  BY <1>2, <2>1, <2>2, ClearEncrypting DEF FlagPoint
<1>3. CASE CacheHit(t)
  <2>1. Clear(integer_to_ec_point_map[local[t].n])
    BY <1>3 DEF CacheHit, Inv, SharedInv, CacheSound, Clear, Times
  <2>2. QED  BY <1>3, <2>1, ClearEncrypting DEF CacheHit
<1>4. CASE StorePoint(t)
  <2>1. scratch = Times(local[t].n) /\ local[t].n \in 1 .. Overflow
    BY <1>4, LocalsOf DEF StorePoint, At, Proper, Inv, ScratchUndisturbed
  <2>2. Clear(scratch)
    BY <2>1 DEF Clear, Times
  <2>3. QED  BY <1>4, <2>2, ClearEncrypting DEF StorePoint
<1>5. QED  BY <1>1, <1>2, <1>3, <1>4

LEMMA ClearSteps ==
    ASSUME Inv, ClearInv, NEW t \in Thread,
           NextRegister(t) \/ CallGetECPoint(t) \/ Clamp(t) \/ Multiply(t)
              \/ Encrypt(t) \/ AppendCiphertext(t)
    PROVE  ClearInv'
<1>1. /\ local[t] \in Locals /\ ClearThread(t) /\ UNCHANGED <<request, response>>
  BY LocalsOf DEF ClearInv, NextRegister, CallGetECPoint, Clamp, Multiply, Encrypt, AppendCiphertext
<1>2. ASSUME NEW l, Set(t, l), l.out = local[t].out,
             l.pc \in {"loop", "int", "mul", "cipher"},
             l.pc = "cipher" => Clear(l.point)
      PROVE  ClearInv'
  BY <1>1, <1>2, ClearInside DEF ClearThread
<1>3. CASE NextRegister(t)
  <2> DEFINE l == [local[t] EXCEPT !.jobs = Head(local[t].left), !.left = Tail(@)]
  <2>1. Set(t, l) /\ l.out = local[t].out /\ l.pc \in {"loop", "int", "mul"}
    BY <1>1, <1>3 DEF NextRegister, At, Locals
  <2> HIDE DEF l
  <2>2. QED  BY <1>2, <2>1
<1>4. CASE CallGetECPoint(t)
  <2> DEFINE l == [local[t] EXCEPT !.pc = "int", !.n = HeadJob(t).arg]
  <2>1. Set(t, l) /\ l.out = local[t].out /\ l.pc \in {"loop", "int", "mul"}
    BY <1>1, <1>4 DEF CallGetECPoint, Locals
  <2> HIDE DEF l
  <2>2. QED  BY <1>2, <2>1
<1>5. CASE Clamp(t)
  <2> DEFINE l == [local[t] EXCEPT !.n = Clamped]
  <2>1. Set(t, l) /\ l.out = local[t].out /\ l.pc \in {"loop", "int", "mul"}
    BY <1>1, <1>5 DEF Clamp, CacheMiss, At, Locals
  <2> HIDE DEF l
  <2>2. QED  BY <1>2, <2>1
<1>6. CASE Multiply(t)
  <2> DEFINE l == [local[t] EXCEPT !.pc = "mul"]
  <2>1. Set(t, l) /\ l.out = local[t].out /\ l.pc \in {"loop", "int", "mul"}
    BY <1>1, <1>6 DEF Multiply, Locals
  <2> HIDE DEF l
  <2>2. QED  BY <1>2, <2>1
<1>7. CASE Encrypt(t)
  <2> DEFINE l == [local[t] EXCEPT !.pc = "cipher"]
  <2>1. /\ Set(t, l) /\ l.out = local[t].out /\ l.pc = "cipher" /\ l.point = local[t].point
    BY <1>1, <1>7 DEF Encrypt, Locals
  <2>2. Clear(l.point)
    BY <1>1, <1>7, <2>1 DEF Encrypt, At, ClearThread
  <2> HIDE DEF l
  <2>3. QED  BY <1>2, <2>1, <2>2
<1>8. CASE AppendCiphertext(t)
  <2> DEFINE pc == IF LastOfRun(local[t].times) THEN "loop" ELSE "append"
             l == [local[t] EXCEPT !.out = Append(@, scratch), !.times = @ - 1, !.pc = pc]
  <2>1. /\ Set(t, l) /\ l.out = Append(local[t].out, scratch) /\ l.pc = pc
        /\ l.point = local[t].point
    BY <1>1, <1>8 DEF AppendCiphertext, Locals
  <2>2. Clear(local[t].point) /\ scratch = local[t].point
    BY <1>1, <1>8 DEF AppendCiphertext, At, ClearThread, Inv, ScratchUndisturbed
  <2>3. local[t].out \in Seq(Point)
    BY <1>1 DEF Locals
  <2>4. request[t].kind = "encrypt" => ClearSeq(Append(local[t].out, scratch))
    BY <1>1, <2>2, <2>3 DEF ClearThread, ClearSeq
  <2> HIDE DEF l
  <2>5. QED  BY <1>1, <2>1, <2>2, <2>4, ClearInside
<1>9. QED  BY <1>3, <1>4, <1>5, <1>6, <1>7, <1>8

LEMMA ClearReturns ==
    ASSUME Inv, ClearInv, NEW t \in Thread,
           ReturnOk(t) \/ FailJob(t) \/ ZeroError(t) \/ CryptoError(t)
    PROVE  ClearInv'
<1>1. CASE ReturnOk(t)
  <2>1. local[t].out \in Seq(Point) /\ (request[t].kind = "encrypt" => ClearSeq(local[t].out))
    BY LocalsOf DEF Locals, ClearInv, ClearThread
  <2>2. QED  BY <1>1, <2>1, ClearReturn DEF ReturnOk, Service!OK
<1>2. CASE FailJob(t) \/ ZeroError(t) \/ CryptoError(t)
  BY <1>2, ClearReturnError DEF FailJob, ZeroError, CryptoError
<1>3. QED  BY <1>1, <1>2

LEMMA NextClear == Inv /\ ClearInv /\ [Next]_vars => ClearInv'
<1> SUFFICES ASSUME Inv, ClearInv, [Next]_vars PROVE ClearInv'
  OBVIOUS
<1>1. CASE UNCHANGED vars
  BY <1>1 DEF vars, ClearInv, ClearThread, ClearSeq, Clear, At, Overflow
<1>2. CASE Next
  BY <1>2, ClearOutside, ClearPoints, ClearSteps, ClearReturns DEF Next, Step
<1>3. QED  BY <1>1, <1>2

(***************************************************************************)
(* No answer holds a counter above max_counter_value_ + 1, or a counter at *)
(* all when that wraps to zero.                                            *)
(***************************************************************************)
THEOREM ClampCorrect == Spec => []CountersClamped
<1>1. Inv /\ ClearInv => CountersClamped
  BY DEF Inv, CallsInv, ClearInv, ClearThread, ClearSeq, Clear, CountersClamped, Responses, Range
<1>2. QED  BY InitInv, NextInv, InitClear, NextClear, <1>1, PTL DEF Spec
-----------------------------------------------------------------------------
(***************************************************************************)
(* SketchEncrypter implements EncryptionService: whatever the threads, the *)
(* caches and the failures, a call answers as if it ran alone.             *)
(*                                                                         *)
(* The two specifications share request and response, so that the mapping  *)
(* is the identity: a Call is a Call, a Return is a Respond, and all other *)
(* steps stutter.  The work is to know what a call that returns has in its *)
(* output.  The invariant compares what is there and what the jobs of the  *)
(* call still owe with the encoding of the sketch.                         *)
(***************************************************************************)

(***************************************************************************)
(* The encoding of EncryptionService for a given maximum m.                *)
(***************************************************************************)
Counter(n, m) == Times(Service!Smaller(n, m + 1))

Encoded(reg, req, m) ==
    LET width == Len(reg.values) IN
    IF ~Service!IsRegisterDestroyed(reg, req.aggregators)
    THEN <<Text(reg.index)>> \o
         [i \in 1 .. width |->
            IF req.aggregators[i] = "UNIQUE" THEN Text(reg.values[i])
            ELSE Counter(reg.values[i], m)]
    ELSE IF req.strategy = "FLAGGED_KEY"
    THEN <<Text(reg.index)>> \o Service!Repeat(Service!Flag, width)
    ELSE <<Text(reg.index)>> \o Service!Repeat(Counter(1, m), width) \o
         <<Text(reg.index)>> \o Service!Repeat(Counter(2, m), width)

EncodedRegisters(req, m) ==
    [r \in DOMAIN req.registers |-> Encoded(req.registers[r], req, m)]

\* EncryptionService has the library's operators under names of its own.
LEMMA ServiceFlattens == \A e : Service!FlattenSeq(e) = FlattenSeq(e)
BY Zenon DEF Service!FlattenSeq, FlattenSeq

LEMMA EncodedSketchAt ==
    \A req : Service!EncodedSketch(req) = FlattenSeq(EncodedRegisters(req, max_counter_value))
<1> SUFFICES ASSUME NEW req
             PROVE  Service!EncodedSketch(req) = FlattenSeq(EncodedRegisters(req, max_counter_value))
  OBVIOUS
<1>1. \A reg : Service!EncodedRegister(reg, req) = Encoded(reg, req, max_counter_value)
  BY Zenon DEF Service!EncodedRegister, Service!CounterPoint, Service!Times, Service!Text,
     Encoded, Counter, Times, Text
<1>2. [r \in DOMAIN req.registers |-> Service!EncodedRegister(req.registers[r], req)]
         = EncodedRegisters(req, max_counter_value)
  BY <1>1 DEF EncodedRegisters
<1>3. QED  BY <1>2, ServiceFlattens, Zenon DEF Service!EncodedSketch

(***************************************************************************)
(* What jobs owe: the points that they are to append.                      *)
(***************************************************************************)
Wanted(j, m) ==
    IF j.do = "text" THEN Text(j.arg)
    ELSE IF j.do = "flag" THEN Service!Flag
    ELSE Counter(j.arg, m)

RunOf(j, m) == Service!Repeat(Wanted(j, m), j.times)
Runs(jobs, m) == [i \in DOMAIN jobs |-> RunOf(jobs[i], m)]
Owed(jobs, m) == FlattenSeq(Runs(jobs, m))
OwedByEach(left, m) == [i \in DOMAIN left |-> Owed(left[i], m)]

RunLeft(l) ==
    IF l.pc \in {"append", "cipher"} THEN Service!Repeat(l.point, l.times) ELSE << >>

OwedBy(l, m) == Cat(RunLeft(l), Cat(Owed(l.jobs, m), FlattenSeq(OwedByEach(l.left, m))))

(***************************************************************************)
(* The calls in progress.                                                  *)
(***************************************************************************)
SoundJob(j) == j.do \in {"text", "flag"} \/ (j.do = "int" /\ j.arg > 0)
SoundJobs(jobs) == \A i \in DOMAIN jobs : SoundJob(jobs[i])
Failing(jobs) == \E i \in DOMAIN jobs : jobs[i].do = "fail"

Limit(m) == (m + 1) % Word

\* The counter that is being converted is that of the job, or the limit for it.
Converts(l, m) ==
    /\ Head(l.jobs).do = "int"
    /\ \/ l.n = Head(l.jobs).arg
       \/ l.n = Limit(m) /\ Head(l.jobs).arg > Limit(m)

\* A call that will succeed unless the curve fails, and one that will not.
EncryptSound(l, req, m) ==
    /\ SoundJobs(l.jobs) /\ \A i \in DOMAIN l.left : SoundJobs(l.left[i])
    /\ Cat(l.out, OwedBy(l, m)) = FlattenSeq(EncodedRegisters(req, m))

EncryptFails(l) == Failing(l.jobs) \/ \E i \in DOMAIN l.left : Failing(l.left[i])

EncryptInv(l, req, m) ==
    /\ l.pc \in {"int", "mul"} => Converts(l, m)
    /\ Service!Valid(req) => EncryptSound(l, req, m)
    /\ ~Service!Valid(req) => EncryptFails(l)

\* The noise of the finished registers.
NoiseAfter(req, randoms) ==
    Cat(req.given, Service!NoiseRegisters(req.value_count, randoms))

InNoise(l, req, randoms, p) ==
    LET before == NoiseAfter(req, randoms)
        width == req.value_count IN
    \/ l.pc = "loop" /\ l.jobs = NoiseJobs(width) /\ l.out = before
    \/ /\ l.pc \in {"append", "cipher"} /\ l.jobs = Tail(NoiseJobs(width)) /\ l.out = before
       /\ l.point = Service!NoiseId /\ l.times = 1
    \/ /\ l.pc = "loop" /\ l.jobs = Tail(NoiseJobs(width))
       /\ l.out = Cat(before, <<Service!NoiseId>>)
    \/ /\ l.pc \in {"append", "cipher"} /\ l.jobs = << >>
       /\ l.point = Service!Random(p) /\ l.times \in 1 .. width
       /\ l.out = Cat(Cat(before, <<Service!NoiseId>>),
                      Service!Repeat(l.point, width - l.times))

NoiseDrawn(l, req) ==
    \E count \in NoiseCount : \E done \in 0 .. count : \E randoms \in [1 .. done -> RandomPoint] :
        \/ /\ l.left = [i \in 1 .. count - done |-> NoiseJobs(req.value_count)]
           /\ l.pc = "loop" /\ l.jobs = << >> /\ l.out = NoiseAfter(req, randoms)
        \/ /\ done < count
           /\ l.left = [i \in 1 .. count - done - 1 |-> NoiseJobs(req.value_count)]
           /\ \E p \in RandomPoint : InNoise(l, req, randoms, p)

NoiseRejected(l, req) ==
    /\ l.pc = "loop" /\ l.out = req.given
    /\ \/ l.jobs = <<Fail>> /\ l.left = << >>
       \/ l.jobs = << >> /\ l.left = <<<<Fail>>>>

NoiseInv(l, req) == NoiseRejected(l, req) \/ (req.value_count >= 1 /\ NoiseDrawn(l, req))

CallInv(l, req, m) ==
    /\ l.pc = "idle" <=> req = Service!None
    /\ l.pc \in {"idle", "lock"} => l = [Idle EXCEPT !.pc = l.pc]
    /\ l.pc \notin {"idle", "lock"} /\ req.kind = "encrypt" => EncryptInv(l, req, m)
    /\ l.pc \notin {"idle", "lock"} /\ req.kind = "noise" => NoiseInv(l, req)

AnswerInv(res, m) ==
    res.status = "Ok" /\ res.of.kind = "encrypt" =>
        /\ res.of \in EncryptRequest /\ Service!Valid(res.of)
        /\ res.out = FlattenSeq(EncodedRegisters(res.of, m))

ServiceInv ==
    \A t \in Thread :
        /\ CallInv(local[t], request[t], max_counter_value)
        /\ AnswerInv(response[t], max_counter_value)

(***************************************************************************)
(* Facts about runs of points.                                             *)
(***************************************************************************)
LEMMA WantedPoint ==
    ASSUME NEW j \in ProperJob, NEW m \in Nat
    PROVE  Wanted(j, m) \in Point
<1>1. j.arg \in Int
  BY DEF ProperJob, Jobs
<1>2. Service!Smaller(j.arg, m + 1) \in Int
  BY <1>1 DEF Service!Smaller
<1>3. QED  BY <1>1, <1>2 DEF Wanted, Counter, Text, Times, Service!Flag, Point

LEMMA RepeatType ==
    ASSUME NEW point \in Point, NEW n \in Nat
    PROVE  Service!Repeat(point, n) \in Seq(Point)
<1>1. Service!Repeat(point, n) \in [1 .. n -> Point]
  BY DEF Service!Repeat
<1>2. QED  BY <1>1, FunctionIsSequence

LEMMA RepeatNone ==
    ASSUME NEW point
    PROVE  Service!Repeat(point, 0) = << >>
BY DEF Service!Repeat

LEMMA RepeatOne ==
    ASSUME NEW point
    PROVE  Service!Repeat(point, 1) = <<point>>
BY DEF Service!Repeat

\* A run begins with its point ...
LEMMA RepeatFirst ==
    ASSUME NEW point \in Point, NEW n \in Nat, n > 0
    PROVE  Service!Repeat(point, n) = Cat(<<point>>, Service!Repeat(point, n - 1))
<1>1. PICK s \in Seq(Point) : s = Service!Repeat(point, n - 1) /\ Len(s) = n - 1
  <2>1. Service!Repeat(point, n - 1) \in [1 .. n - 1 -> Point] /\ n - 1 \in Nat
    BY DEF Service!Repeat
  <2>2. Service!Repeat(point, n - 1) \in Seq(Point)
    BY <2>1, RepeatType
  <2>3. Len(Service!Repeat(point, n - 1)) = n - 1
    BY <2>1
  <2>4. QED  BY <2>2, <2>3
<1>2. \A i \in 1 .. n - 1 : s[i] = point
  BY <1>1 DEF Service!Repeat
<1>3. Cat(<<point>>, s) = [i \in 1 .. n |-> point]
  BY <1>1, <1>2 DEF Cat
<1>4. QED  BY <1>1, <1>3 DEF Service!Repeat

\* ... and ends with it.
LEMMA RepeatLast ==
    ASSUME NEW point \in Point, NEW n \in Nat
    PROVE  Service!Repeat(point, n + 1) = Cat(Service!Repeat(point, n), <<point>>)
<1>1. PICK s \in Seq(Point) : s = Service!Repeat(point, n) /\ Len(s) = n
  <2>1. Service!Repeat(point, n) \in [1 .. n -> Point]
    BY DEF Service!Repeat
  <2>2. QED  BY <2>1, RepeatType
<1>2. \A i \in 1 .. n : s[i] = point
  BY <1>1 DEF Service!Repeat
<1>3. Cat(s, <<point>>) = [i \in 1 .. n + 1 |-> point]
  BY <1>1, <1>2 DEF Cat
<1>4. QED  BY <1>1, <1>3 DEF Service!Repeat

LEMMA RepeatParts ==
    ASSUME NEW point \in Point, NEW m \in Nat, NEW n \in Nat
    PROVE  Service!Repeat(point, m + n) = Cat(Service!Repeat(point, m), Service!Repeat(point, n))
<1>1. \A k \in Nat : Len(Service!Repeat(point, k)) = k
  BY DEF Service!Repeat
<1>2. PICK s \in Seq(Point), u \in Seq(Point) :
          /\ s = Service!Repeat(point, m) /\ u = Service!Repeat(point, n)
          /\ Len(s) = m /\ Len(u) = n
  BY <1>1, RepeatType
<1>3. (\A i \in 1 .. m : s[i] = point) /\ (\A i \in 1 .. n : u[i] = point)
  BY <1>2 DEF Service!Repeat
<1>4. Cat(s, u) = [i \in 1 .. m + n |-> point]
  <2>1. s \o u \in Seq(Point) /\ Len(s \o u) = m + n
    BY <1>2
  <2>2. ASSUME NEW i \in 1 .. m + n PROVE (s \o u)[i] = point
    <3>1. CASE i <= m
      BY <1>2, <1>3, <3>1
    <3>2. CASE i > m
      <4>1. i - m \in 1 .. n
        BY <3>2
      <4>2. (s \o u)[i] = u[i - m]
        BY <1>2, <3>2, <4>1
      <4>3. QED  BY <1>3, <4>1, <4>2
    <3>3. i <= m \/ i > m
      OBVIOUS
    <3>4. QED  BY <3>1, <3>2, <3>3, Zenon
  <2>3. PICK v \in Seq(Point) : v = s \o u
    BY <2>1
  <2>4. v = [i \in 1 .. m + n |-> point]
    <3>1. Len(v) = m + n /\ \A i \in 1 .. m + n : v[i] = point
      BY <2>1, <2>2, <2>3, Zenon
    <3>2. QED  BY <3>1
  <2>5. QED  BY <2>3, <2>4, Zenon DEF Cat
<1>5. QED  BY <1>2, <1>4 DEF Service!Repeat

LEMMA RunType ==
    ASSUME NEW j \in ProperJob, NEW m \in Nat
    PROVE  RunOf(j, m) \in Seq(Point)
<1>1. j.times \in Nat
  BY DEF ProperJob, Jobs
<1>2. QED  BY <1>1, WantedPoint, RepeatType DEF RunOf

LEMMA RunsType ==
    ASSUME NEW jobs \in Seq(ProperJob), NEW m \in Nat
    PROVE  /\ Runs(jobs, m) \in Seq(Seq(Point))
           /\ Owed(jobs, m) \in Seq(Point)
<1>1. Len(jobs) \in Nat /\ DOMAIN jobs = 1 .. Len(jobs) /\ \A i \in DOMAIN jobs : jobs[i] \in ProperJob
  BY SequenceElements, Zenon
<1>2. \A i \in DOMAIN jobs : RunOf(jobs[i], m) \in Seq(Point)
  BY <1>1, RunType, Zenon
<1>3. Runs(jobs, m) \in [1 .. Len(jobs) -> Seq(Point)]
  BY <1>1, <1>2, Zenon DEF Runs
<1>4. QED  BY <1>1, <1>3, FunctionIsSequence, FlattenType DEF Owed

LEMMA OwedNothing == \A m : Owed(<< >>, m) = << >>
<1> SUFFICES ASSUME NEW m PROVE Owed(<< >>, m) = << >>
  OBVIOUS
<1>1. Runs(<< >>, m) = << >>
  BY DEF Runs
<1>2. QED  BY <1>1, FlattenEmpty, Zenon DEF Owed

LEMMA OwedFirst ==
    ASSUME NEW jobs \in Seq(ProperJob), NEW m \in Nat, jobs # << >>
    PROVE  Owed(jobs, m) = Cat(RunOf(Head(jobs), m), Owed(Tail(jobs), m))
<1>1. Runs(jobs, m) \in Seq(Seq(Point))
  BY RunsType
<1>2. /\ Runs(jobs, m) # << >>
      /\ Head(Runs(jobs, m)) = RunOf(Head(jobs), m)
      /\ Tail(Runs(jobs, m)) = Runs(Tail(jobs), m)
  <2> HIDE DEF ProperJob
  <2>1. Len(jobs) \in Nat /\ Len(jobs) > 0 /\ DOMAIN jobs = 1 .. Len(jobs)
    OBVIOUS
  <2>2. PICK runs \in Seq(Seq(Point)) : runs = Runs(jobs, m)
    BY <1>1
  <2>3. Len(runs) = Len(jobs) /\ \A i \in 1 .. Len(jobs) : runs[i] = RunOf(jobs[i], m)
    BY <2>1, <2>2 DEF Runs
  <2>4. Head(jobs) = jobs[1] /\ Tail(jobs) = [i \in 1 .. Len(jobs) - 1 |-> jobs[i + 1]]
    BY HeadAndTail
  <2>5. runs # << >> /\ Head(runs) = runs[1] /\ Tail(runs) = [i \in 1 .. Len(jobs) - 1 |-> runs[i + 1]]
    BY <2>1, <2>3, HeadAndTail
  <2>6. Runs(Tail(jobs), m) = [i \in 1 .. Len(jobs) - 1 |-> RunOf(jobs[i + 1], m)]
    BY <2>1, <2>4 DEF Runs
  <2>7. Tail(runs) = [i \in 1 .. Len(jobs) - 1 |-> RunOf(jobs[i + 1], m)]
    BY <2>1, <2>3, <2>5
  <2>8. runs # << >> /\ Head(runs) = RunOf(Head(jobs), m) /\ Tail(runs) = Runs(Tail(jobs), m)
    <3>1. runs[1] = RunOf(jobs[1], m)
      BY <2>1, <2>3
    <3>2. QED  BY <2>4, <2>5, <2>6, <2>7, <3>1, Zenon
  <2>9. QED  BY <2>2, <2>8, Zenon
<1>3. QED  BY <1>1, <1>2, FlattenHead DEF Owed

LEMMA OwedLater ==
    ASSUME NEW left \in Seq(Seq(ProperJob)), NEW m \in Nat
    PROVE  /\ OwedByEach(left, m) \in Seq(Seq(Point))
           /\ FlattenSeq(OwedByEach(left, m)) \in Seq(Point)
<1>1. /\ Len(left) \in Nat /\ DOMAIN left = 1 .. Len(left)
      /\ \A i \in DOMAIN left : left[i] \in Seq(ProperJob)
  BY SequenceElements, Zenon
<1>2. \A i \in DOMAIN left : Owed(left[i], m) \in Seq(Point)
  BY <1>1, RunsType, Zenon
<1>3. OwedByEach(left, m) \in [1 .. Len(left) -> Seq(Point)]
  BY <1>1, <1>2, Zenon DEF OwedByEach
<1>4. QED  BY <1>1, <1>3, FunctionIsSequence, FlattenType

LEMMA OwedLaterNothing == \A m : FlattenSeq(OwedByEach(<< >>, m)) = << >>
<1> SUFFICES ASSUME NEW m PROVE FlattenSeq(OwedByEach(<< >>, m)) = << >>
  OBVIOUS
<1>1. OwedByEach(<< >>, m) = << >>
  BY DEF OwedByEach
<1>2. QED  BY <1>1, FlattenEmpty, Zenon

LEMMA OwedNext ==
    ASSUME NEW left \in Seq(Seq(ProperJob)), NEW m \in Nat, left # << >>
    PROVE  FlattenSeq(OwedByEach(left, m))
              = Cat(Owed(Head(left), m), FlattenSeq(OwedByEach(Tail(left), m)))
<1>1. OwedByEach(left, m) \in Seq(Seq(Point))
  BY OwedLater
<1>2. /\ OwedByEach(left, m) # << >>
      /\ Head(OwedByEach(left, m)) = Owed(Head(left), m)
      /\ Tail(OwedByEach(left, m)) = OwedByEach(Tail(left), m)
  <2> DEFINE S == Seq(ProperJob)
  <2> HIDE DEF S
  <2>0. left \in Seq(S)
    BY DEF S
  <2>1. Len(left) \in Nat /\ Len(left) > 0 /\ DOMAIN left = 1 .. Len(left)
    BY <2>0
  <2>2. PICK each \in Seq(Seq(Point)) : each = OwedByEach(left, m)
    BY <1>1
  <2>3. Len(each) = Len(left) /\ \A i \in 1 .. Len(left) : each[i] = Owed(left[i], m)
    BY <2>1, <2>2 DEF OwedByEach
  <2>4. Head(left) = left[1] /\ Tail(left) = [i \in 1 .. Len(left) - 1 |-> left[i + 1]]
    BY <2>0, HeadAndTail
  <2>5. each # << >> /\ Head(each) = each[1] /\ Tail(each) = [i \in 1 .. Len(left) - 1 |-> each[i + 1]]
    BY <2>1, <2>3, HeadAndTail
  <2>6. OwedByEach(Tail(left), m) = [i \in 1 .. Len(left) - 1 |-> Owed(left[i + 1], m)]
    BY <2>1, <2>4 DEF OwedByEach
  <2>7. Tail(each) = [i \in 1 .. Len(left) - 1 |-> Owed(left[i + 1], m)]
    <3>1. \A i \in 1 .. Len(left) - 1 : each[i + 1] = Owed(left[i + 1], m)
      BY <2>1, <2>3
    <3>2. QED  BY <2>5, <3>1, Zenon
  <2>8. each # << >> /\ Head(each) = Owed(Head(left), m) /\ Tail(each) = OwedByEach(Tail(left), m)
    <3>1. each[1] = Owed(left[1], m)
      BY <2>1, <2>3
    <3>2. QED  BY <2>4, <2>5, <2>6, <2>7, <3>1, Zenon
  <2>9. QED  BY <2>2, <2>8, Zenon
<1>3. QED  BY <1>1, <1>2, FlattenHead

(***************************************************************************)
(* The jobs of a register owe its encoding.                                *)
(***************************************************************************)
LEMMA OwedFirstOf ==
    ASSUME NEW j \in ProperJob, NEW rest \in Seq(ProperJob), NEW m \in Nat
    PROVE  Owed(Cat(<<j>>, rest), m) = Cat(RunOf(j, m), Owed(rest, m))
<1>1. <<j>> \o rest \in Seq(ProperJob) /\ <<j>> \o rest # << >>
  <2> HIDE DEF ProperJob
  <2>1. QED  OBVIOUS
<1>2. Head(<<j>> \o rest) = j /\ Tail(<<j>> \o rest) = rest
  <2> HIDE DEF ProperJob
  <2>1. QED  OBVIOUS
<1>3. QED  BY <1>1, <1>2, OwedFirst DEF Cat

LEMMA OwedOnly ==
    ASSUME NEW j \in ProperJob, NEW m \in Nat
    PROVE  Owed(<<j>>, m) = RunOf(j, m)
<1>1. <<j>> = Cat(<<j>>, << >>) /\ << >> \in Seq(ProperJob)
  BY DEF Cat
<1>2. Owed(Cat(<<j>>, << >>), m) = Cat(RunOf(j, m), << >>)
  BY <1>1, OwedFirstOf, OwedNothing
<1>3. QED  BY <1>1, <1>2, RunType, CatEmpty

LEMMA RunsOfJobs ==
    ASSUME NEW m \in Nat
    PROVE  /\ \A n \in Int : RunOf(Job("text", n, 1), m) = <<Text(n)>>
           /\ \A w \in Nat : RunOf(Job("flag", 0, w), m) = Service!Repeat(Service!Flag, w)
           /\ \A n \in Int, w \in Nat : RunOf(Job("int", n, w), m) = Service!Repeat(Counter(n, m), w)
BY RepeatOne DEF RunOf, Wanted, Job

RegisterValid(reg, req) ==
    /\ Len(reg.values) = Len(req.aggregators)
    /\ IF Service!IsRegisterDestroyed(reg, req.aggregators)
       THEN req.strategy \in {"CONFLICTING_KEYS", "FLAGGED_KEY"}
       ELSE \A i \in DOMAIN reg.values :
               /\ req.aggregators[i] \in {"UNIQUE", "SUM"}
               /\ req.aggregators[i] = "SUM" => reg.values[i] > 0

LEMMA SameDestroyed ==
    \A reg, aggregators :
        Service!IsRegisterDestroyed(reg, aggregators) <=> IsRegisterDestroyed(reg, aggregators)
BY DEF Service!IsRegisterDestroyed, IsRegisterDestroyed

LEMMA SoundRegisterOwes ==
    ASSUME NEW req \in EncryptRequest, NEW reg \in [index : Int, values : Seq(Int)], NEW m \in Nat,
           RegisterValid(reg, req), ~IsRegisterDestroyed(reg, req.aggregators)
    PROVE  /\ Owed(RegisterJobs(reg, req), m) = Encoded(reg, req, m)
           /\ SoundJobs(RegisterJobs(reg, req))
<1> DEFINE width == Len(reg.values)
           first == Job("text", reg.index, 1)
           rest == [i \in DOMAIN reg.values |-> ValueJob(req.aggregators[i], reg.values[i])]
           points == [i \in 1 .. width |->
                        IF req.aggregators[i] = "UNIQUE" THEN Text(reg.values[i])
                        ELSE Counter(reg.values[i], m)]
<1>1. /\ width \in Nat /\ DOMAIN reg.values = 1 .. width /\ reg.index \in Int
      /\ \A i \in 1 .. width : reg.values[i] \in Int
  OBVIOUS
<1>2. \A i \in 1 .. width :
         /\ req.aggregators[i] \in {"UNIQUE", "SUM"}
         /\ req.aggregators[i] = "SUM" => reg.values[i] > 0
  BY <1>1, SameDestroyed DEF RegisterValid
<1>3. first \in ProperJob
  BY <1>1, JobIsProper
<1>4. RegisterJobs(reg, req) = Cat(<<first>>, rest)
  BY DEF RegisterJobs, NonDestroyedRegister, Cat
<1>5. ASSUME NEW i \in 1 .. width
      PROVE  /\ rest[i] \in ProperJob /\ SoundJob(rest[i])
             /\ RunOf(rest[i], m) = <<points[i]>> /\ points[i] \in Point
  <2>1. CASE req.aggregators[i] = "UNIQUE"
    <3>1. rest[i] = Job("text", reg.values[i], 1)
      BY <1>1, <2>1 DEF ValueJob
    <3>2. rest[i] \in ProperJob /\ RunOf(rest[i], m) = <<Text(reg.values[i])>>
      BY <1>1, <3>1, JobIsProper, RunsOfJobs
    <3>3. Text(reg.values[i]) \in Point
      BY <1>1 DEF Text, Point
    <3>4. QED  BY <2>1, <3>1, <3>2, <3>3 DEF SoundJob, Job
  <2>2. CASE req.aggregators[i] # "UNIQUE"
    <3>1. rest[i] = Job("int", reg.values[i], 1) /\ reg.values[i] > 0 /\ reg.values[i] \in Nat
      BY <1>1, <1>2, <2>2 DEF ValueJob
    <3>2. rest[i] \in ProperJob /\ RunOf(rest[i], m) = <<Counter(reg.values[i], m)>>
      <4>1. rest[i] \in ProperJob
        BY <3>1, CounterIsProper
      <4>2. RunOf(Job("int", reg.values[i], 1), m) = Service!Repeat(Counter(reg.values[i], m), 1)
        BY <1>1, RunsOfJobs
      <4>3. QED  BY <3>1, <4>1, <4>2, RepeatOne, Zenon
    <3>3. Counter(reg.values[i], m) \in Point
      BY <1>1 DEF Counter, Service!Smaller, Times, Point
    <3>4. QED  BY <2>2, <3>1, <3>2, <3>3 DEF SoundJob, Job
  <2>3. QED  BY <2>1, <2>2
<1>6. rest \in Seq(ProperJob)
  BY <1>1, <1>5, FunctionIsSequence
<1>7. SoundJobs(RegisterJobs(reg, req))
  <2>1. SoundJob(first)
    BY DEF SoundJob, Job
  <2>2. \A i \in DOMAIN (<<first>> \o rest) : i = 1 \/ i - 1 \in 1 .. width
    BY <1>1, <1>6
  <2>3. \A i \in DOMAIN (<<first>> \o rest) :
           (<<first>> \o rest)[i] = IF i = 1 THEN first ELSE rest[i - 1]
    <3> HIDE DEF first, ProperJob
    <3>1. QED  BY <1>1, <1>6
  <2> HIDE DEF first, rest
  <2>4. QED  BY <1>4, <1>5, <2>1, <2>2, <2>3 DEF SoundJobs, Cat
<1>8. Owed(rest, m) = points
  <2>1. points \in [1 .. width -> Point]
    BY <1>5
  <2>2. Runs(rest, m) = [i \in 1 .. width |-> <<points[i]>>]
    <3> HIDE DEF points
    <3>1. DOMAIN rest = 1 .. width
      BY <1>1
    <3> HIDE DEF rest
    <3>2. QED  BY <1>5, <3>1 DEF Runs
  <2> HIDE DEF points, rest
  <2>3. FlattenSeq([i \in 1 .. width |-> <<points[i]>>]) = points
    BY <1>1, <2>1, FlattenSingletons
  <2>4. QED  BY <2>2, <2>3, Zenon DEF Owed
<1>9. Owed(RegisterJobs(reg, req), m) = Cat(<<Text(reg.index)>>, points)
  <2>1. RunOf(first, m) = <<Text(reg.index)>>
    BY <1>1, RunsOfJobs
  <2> HIDE DEF first, points, rest
  <2>2. QED  BY <1>3, <1>4, <1>6, <1>8, <2>1, OwedFirstOf
<1>10. QED  BY <1>7, <1>9, SameDestroyed, Zenon DEF Encoded, Cat

LEMMA DestroyedRegisterOwes ==
    ASSUME NEW req \in EncryptRequest, NEW reg \in [index : Int, values : Seq(Int)], NEW m \in Nat,
           RegisterValid(reg, req), IsRegisterDestroyed(reg, req.aggregators)
    PROVE  /\ Owed(RegisterJobs(reg, req), m) = Encoded(reg, req, m)
           /\ SoundJobs(RegisterJobs(reg, req))
<1> DEFINE width == Len(reg.values)
           text == Job("text", reg.index, 1)
           flag == Job("flag", 0, width)
           one == Job("int", 1, width)
           two == Job("int", 2, width)
           head == <<Text(reg.index)>>
           flags == Service!Repeat(Service!Flag, width)
           ones == Service!Repeat(Counter(1, m), width)
           twos == Service!Repeat(Counter(2, m), width)
<1>1. width \in Nat /\ reg.index \in Int
  OBVIOUS
<1>2. /\ text \in ProperJob /\ flag \in ProperJob /\ one \in ProperJob /\ two \in ProperJob
      /\ SoundJob(text) /\ SoundJob(flag) /\ SoundJob(one) /\ SoundJob(two)
  <2>1. text \in ProperJob /\ flag \in ProperJob
    BY <1>1, JobIsProper
  <2>2. one \in ProperJob /\ two \in ProperJob
    BY <1>1, CounterIsProper
  <2>3. QED  BY <2>1, <2>2 DEF SoundJob, Job
<1>3. /\ RunOf(text, m) = head /\ RunOf(flag, m) = flags
      /\ RunOf(one, m) = ones /\ RunOf(two, m) = twos
  BY <1>1, RunsOfJobs
<1>4. /\ head \in Seq(Point) /\ ones \in Seq(Point) /\ twos \in Seq(Point)
  BY <1>2, <1>3, RunType
<1>5. RegisterJobs(reg, req) = DestroyedRegister(reg, req.strategy)
  BY DEF RegisterJobs
<1>6. CASE req.strategy = "FLAGGED_KEY"
  <2>1. RegisterJobs(reg, req) = <<text, flag>>
    BY <1>5, <1>6 DEF DestroyedRegister
  <2> HIDE DEF text, flag, flags, head
  <2>2. <<text, flag>> = Cat(<<text>>, <<flag>>) /\ <<flag>> \in Seq(ProperJob)
    BY <1>2, CatPair
  <2>3. Owed(<<text, flag>>, m) = Cat(head, flags)
    BY <1>2, <1>3, <2>2, OwedFirstOf, OwedOnly
  <2>4. Encoded(reg, req, m) = Cat(head, flags)
    BY <1>6, SameDestroyed, Zenon DEF Encoded, Cat, flags, head
  <2>5. SoundJobs(<<text, flag>>)
    BY <1>2 DEF SoundJobs
  <2>6. QED  BY <2>1, <2>3, <2>4, <2>5
<1>7. CASE req.strategy = "CONFLICTING_KEYS"
  <2> DEFINE jobs == Cat(<<text, one>>, <<text, two>>)
  <2>1. RegisterJobs(reg, req) = jobs
    BY <1>5, <1>7 DEF DestroyedRegister, SameValue, SecondValue, Cat
  <2>2. req.strategy # "FLAGGED_KEY"
    BY <1>7
  <2>3. Encoded(reg, req, m) = Cat(Cat(Cat(head, ones), head), twos)
    BY <2>2, SameDestroyed, Zenon DEF Encoded, Cat
  <2>4. SoundJobs(jobs)
    <3>1. DOMAIN jobs = 1 .. 4
      BY DEF Cat
    <3>2. jobs[1] = text /\ jobs[2] = one /\ jobs[3] = text /\ jobs[4] = two
      BY DEF Cat
    <3> HIDE DEF jobs, text, one, two
    <3>3. QED  BY <1>2, <3>1, <3>2 DEF SoundJobs
  <2> HIDE DEF text, one, two, head, ones, twos
  <2>5. /\ jobs = Cat(<<text>>, <<one, text, two>>)
        /\ <<one, text, two>> = Cat(<<one>>, <<text, two>>)
        /\ <<text, two>> = Cat(<<text>>, <<two>>)
    <3>1. jobs = Cat(<<text>>, <<one, text, two>>)
      BY CatPairs
    <3>2. <<one, text, two>> = Cat(<<one>>, <<text, two>>)
      BY CatTriple
    <3>3. <<text, two>> = Cat(<<text>>, <<two>>)
      BY CatPair
    <3>4. QED  BY <3>1, <3>2, <3>3
  <2>6. <<one, text, two>> \in Seq(ProperJob) /\ <<text, two>> \in Seq(ProperJob)
          /\ <<two>> \in Seq(ProperJob)
    BY <1>2
  <2> HIDE DEF jobs
  <2>7. Owed(<<text, two>>, m) = Cat(head, twos)
    <3>1. Owed(<<two>>, m) = twos
      BY <1>2, <1>3, OwedOnly
    <3>2. Owed(Cat(<<text>>, <<two>>), m) = Cat(RunOf(text, m), Owed(<<two>>, m))
      BY <1>2, <2>6, OwedFirstOf
    <3>3. QED  BY <1>3, <2>5, <3>1, <3>2, Zenon
  <2>8. Owed(<<one, text, two>>, m) = Cat(ones, Cat(head, twos))
    <3>1. Owed(Cat(<<one>>, <<text, two>>), m) = Cat(RunOf(one, m), Owed(<<text, two>>, m))
      BY <1>2, <2>6, OwedFirstOf
    <3>2. QED  BY <1>3, <2>5, <2>7, <3>1, Zenon
  <2>9. Owed(jobs, m) = Cat(head, Cat(ones, Cat(head, twos)))
    <3>1. Owed(Cat(<<text>>, <<one, text, two>>), m)
             = Cat(RunOf(text, m), Owed(<<one, text, two>>, m))
      BY <1>2, <2>6, OwedFirstOf
    <3>2. QED  BY <1>3, <2>5, <2>8, <3>1, Zenon
  <2>10. Cat(head, Cat(ones, Cat(head, twos))) = Cat(Cat(Cat(head, ones), head), twos)
    BY <1>4, CatAssociative, CatType
  <2>11. QED  BY <2>1, <2>3, <2>4, <2>9, <2>10, Zenon
<1>8. QED  BY <1>6, <1>7, SameDestroyed DEF RegisterValid

\* A register that is not valid comes to a job that fails.
LEMMA InvalidRegisterFails ==
    ASSUME NEW req \in EncryptRequest, NEW reg \in [index : Int, values : Seq(Int)],
           ~RegisterValid(reg, req), Len(reg.values) = Len(req.aggregators)
    PROVE  Failing(RegisterJobs(reg, req))
<1>1. CASE IsRegisterDestroyed(reg, req.aggregators)
  <2>1. RegisterJobs(reg, req) = <<Fail>>
    BY <1>1, SameDestroyed DEF RegisterValid, RegisterJobs, DestroyedRegister
  <2>2. QED  BY <2>1 DEF Failing, Fail, Job
<1>2. CASE ~IsRegisterDestroyed(reg, req.aggregators)
  <2> DEFINE rest == [i \in DOMAIN reg.values |-> ValueJob(req.aggregators[i], reg.values[i])]
             first == Job("text", reg.index, 1)
  <2>1. PICK i \in DOMAIN reg.values :
            \/ req.aggregators[i] \notin {"UNIQUE", "SUM"}
            \/ req.aggregators[i] = "SUM" /\ ~(reg.values[i] > 0)
    BY <1>2, SameDestroyed DEF RegisterValid
  <2>2. rest[i] = Fail
    BY <2>1 DEF ValueJob
  <2>3. RegisterJobs(reg, req) = <<first>> \o rest
    BY <1>2 DEF RegisterJobs, NonDestroyedRegister
  <2>4. i \in 1 .. Len(reg.values) /\ Len(reg.values) \in Nat
    OBVIOUS
  <2>5. rest \in [1 .. Len(reg.values) -> Range(rest)]
    <3>1. DOMAIN rest = 1 .. Len(reg.values) /\ rest = [k \in DOMAIN rest |-> rest[k]]
      BY <2>4
    <3> HIDE DEF rest
    <3>2. QED  BY <3>1 DEF Range
  <2>6. (<<first>> \o rest)[i + 1] = rest[i] /\ i + 1 \in DOMAIN (<<first>> \o rest)
    <3> HIDE DEF rest, first
    <3>1. PICK tail \in Seq(Range(rest)) : tail = rest /\ Len(tail) = Len(reg.values)
      <4>1. rest \in Seq(Range(rest)) /\ DOMAIN rest = 1 .. Len(reg.values)
        BY <2>4, <2>5, FunctionIsSequence
      <4>2. Len(rest) \in Nat /\ DOMAIN rest = 1 .. Len(rest)
        BY <4>1, SequenceElements
      <4>3. \A m, n \in Nat : 1 .. m = 1 .. n => m = n
        OBVIOUS
      <4>4. Len(rest) = Len(reg.values)
        BY <2>4, <4>1, <4>2, <4>3
      <4>5. QED  BY <4>1, <4>4
    <3>2. QED  BY <2>4, <3>1
  <2>7. QED  BY <2>2, <2>3, <2>6 DEF Failing, Fail, Job
<1>3. QED  BY <1>1, <1>2

\* The jobs that LockEncrypt makes of a sketch.
SketchJobs(req) ==
    IF ValidateSketch(req)
    THEN [r \in DOMAIN req.registers |-> RegisterJobs(req.registers[r], req)]
    ELSE <<<<Fail>>>>

LEMMA ValidByRegister ==
    ASSUME NEW req
    PROVE  /\ Service!Valid(req) <=> \A r \in DOMAIN req.registers : RegisterValid(req.registers[r], req)
           /\ ValidateSketch(req) <=>
                 \A r \in DOMAIN req.registers : Len(req.registers[r].values) = Len(req.aggregators)
BY DEF Service!Valid, Service!Range, Range, RegisterValid, ValidateSketch

LEMMA SketchJobsOwe ==
    ASSUME NEW req \in EncryptRequest, NEW m \in Nat
    PROVE  /\ Service!Valid(req) =>
                 /\ FlattenSeq(OwedByEach(SketchJobs(req), m)) = FlattenSeq(EncodedRegisters(req, m))
                 /\ \A i \in DOMAIN SketchJobs(req) : SoundJobs(SketchJobs(req)[i])
           /\ ~Service!Valid(req) =>
                 \E i \in DOMAIN SketchJobs(req) : Failing(SketchJobs(req)[i])
<1>1. /\ Len(req.registers) \in Nat /\ DOMAIN req.registers = 1 .. Len(req.registers)
      /\ \A r \in DOMAIN req.registers : req.registers[r] \in [index : Int, values : Seq(Int)]
  <2>1. req.registers \in Seq([index : Int, values : Seq(Int)])
    BY RequestAssumption
  <2>2. QED  BY <2>1, SequenceElements, Zenon
<1>2. ASSUME Service!Valid(req)
      PROVE  /\ FlattenSeq(OwedByEach(SketchJobs(req), m)) = FlattenSeq(EncodedRegisters(req, m))
             /\ \A i \in DOMAIN SketchJobs(req) : SoundJobs(SketchJobs(req)[i])
  <2>1. \A r \in DOMAIN req.registers : RegisterValid(req.registers[r], req)
    BY <1>2, ValidByRegister, Zenon
  <2>2. SketchJobs(req) = [r \in DOMAIN req.registers |-> RegisterJobs(req.registers[r], req)]
    <3>1. ValidateSketch(req)
      BY <2>1, ValidByRegister DEF RegisterValid
    <3>2. QED  BY <3>1 DEF SketchJobs
  <2>3. \A r \in DOMAIN req.registers :
           /\ Owed(RegisterJobs(req.registers[r], req), m) = Encoded(req.registers[r], req, m)
           /\ SoundJobs(RegisterJobs(req.registers[r], req))
    BY <1>1, <2>1, SoundRegisterOwes, DestroyedRegisterOwes, Zenon
  <2>4. OwedByEach(SketchJobs(req), m) = EncodedRegisters(req, m)
    BY <2>2, <2>3 DEF OwedByEach, EncodedRegisters
  <2>5. QED  BY <2>2, <2>3, <2>4, Zenon
<1>3. ASSUME ~Service!Valid(req)
      PROVE  \E i \in DOMAIN SketchJobs(req) : Failing(SketchJobs(req)[i])
  <2>1. CASE ValidateSketch(req)
    <3>1. PICK r \in DOMAIN req.registers : ~RegisterValid(req.registers[r], req)
      BY <1>3, ValidByRegister, Zenon
    <3>2. Failing(RegisterJobs(req.registers[r], req))
      BY <1>1, <2>1, <3>1, ValidByRegister, InvalidRegisterFails, Zenon
    <3>3. QED  BY <2>1, <3>2 DEF SketchJobs
  <2>2. CASE ~ValidateSketch(req)
    <3>1. SketchJobs(req) = <<<<Fail>>>> /\ Failing(<<Fail>>)
      BY <2>2 DEF SketchJobs, Failing, Fail, Job
    <3>2. QED  BY <3>1
  <2>3. QED  BY <2>1, <2>2
<1>4. QED  BY <1>2, <1>3

(***************************************************************************)
(* The steps of a call of Encrypt.                                         *)
(***************************************************************************)
LEMMA OwedTypes ==
    ASSUME NEW l \in Locals, NEW m \in Nat
    PROVE  /\ l.out \in Seq(Point)
           /\ Owed(l.jobs, m) \in Seq(Point)
           /\ FlattenSeq(OwedByEach(l.left, m)) \in Seq(Point)
           /\ l.jobs \in Seq(ProperJob) /\ l.left \in Seq(Seq(ProperJob))
           /\ l.jobs # << >> =>
                 Head(l.jobs) \in ProperJob /\ Tail(l.jobs) \in Seq(ProperJob)
<1>1. l.out \in Seq(Point) /\ l.jobs \in Seq(ProperJob) /\ l.left \in Seq(Seq(ProperJob))
  BY DEF Locals
<1>2. Owed(l.jobs, m) \in Seq(Point) /\ FlattenSeq(OwedByEach(l.left, m)) \in Seq(Point)
  BY <1>1, RunsType, OwedLater, Zenon
<1> HIDE DEF ProperJob
<1>3. QED  BY <1>1, <1>2

\* A step that leaves what was appended, and what is to be, as it is.
LEMMA SameOwed ==
    ASSUME NEW l \in Locals, NEW k \in Locals, NEW m \in Nat, NEW req,
           EncryptInv(l, req, m), k.jobs = l.jobs, k.left = l.left, k.out = l.out,
           RunLeft(k) = RunLeft(l), k.pc \in {"int", "mul"} => Converts(k, m)
    PROVE  EncryptInv(k, req, m)
BY Zenon DEF EncryptInv, EncryptSound, EncryptFails, OwedBy

\* The jobs of the next register.
LEMMA OwedByRegister ==
    ASSUME NEW l \in Locals, NEW k \in Locals, NEW m \in Nat, NEW req,
           EncryptInv(l, req, m), l.pc = "loop", l.jobs = << >>, l.left # << >>,
           k.pc = "loop", k.jobs = Head(l.left), k.left = Tail(l.left), k.out = l.out
    PROVE  EncryptInv(k, req, m)
<1>1. /\ Len(l.left) \in Nat /\ Len(l.left) > 0 /\ DOMAIN l.left = 1 .. Len(l.left)
      /\ Head(l.left) = l.left[1] /\ Tail(l.left) = [i \in 1 .. Len(l.left) - 1 |-> l.left[i + 1]]
  <2> DEFINE S == Seq(ProperJob)
  <2> HIDE DEF S
  <2>1. l.left \in Seq(S)
    BY OwedTypes DEF S
  <2>2. QED  BY <2>1, HeadAndTail
<1>2. RunLeft(l) = << >> /\ RunLeft(k) = << >>
  BY DEF RunLeft
<1>3. OwedBy(k, m) = OwedBy(l, m)
  <2>1. FlattenSeq(OwedByEach(l.left, m)) = Cat(Owed(k.jobs, m), FlattenSeq(OwedByEach(k.left, m)))
    BY OwedTypes, OwedNext
  <2>2. Owed(l.jobs, m) = << >>
    BY OwedNothing
  <2>3. Cat(<< >>, FlattenSeq(OwedByEach(l.left, m))) = FlattenSeq(OwedByEach(l.left, m))
    BY OwedTypes, CatEmpty
  <2>4. QED  BY <1>2, <2>1, <2>2, <2>3, Zenon DEF OwedBy
<1>4. ASSUME EncryptSound(l, req, m) PROVE EncryptSound(k, req, m)
  <2>1. \A i \in DOMAIN l.left : SoundJobs(l.left[i])
    BY <1>4 DEF EncryptSound
  <2>2. SoundJobs(k.jobs)
    BY <1>1, <2>1
  <2>3. \A i \in DOMAIN k.left : SoundJobs(k.left[i])
    BY <1>1, <2>1
  <2>4. Cat(k.out, OwedBy(k, m)) = FlattenSeq(EncodedRegisters(req, m))
    BY <1>3, <1>4, Zenon DEF EncryptSound
  <2>5. QED  BY <2>2, <2>3, <2>4 DEF EncryptSound
<1>5. ASSUME EncryptFails(l) PROVE EncryptFails(k)
  <2>1. ~Failing(l.jobs)
    BY DEF Failing
  <2>2. PICK i \in DOMAIN l.left : Failing(l.left[i])
    BY <1>5, <2>1 DEF EncryptFails
  <2>3. CASE i = 1
    BY <1>1, <2>2, <2>3 DEF EncryptFails
  <2>4. CASE i # 1
    <3>1. i - 1 \in DOMAIN k.left /\ k.left[i - 1] = l.left[i]
      BY <1>1, <2>4
    <3>2. QED  BY <2>2, <3>1 DEF EncryptFails
  <2>5. QED  BY <2>3, <2>4
<1>6. QED  BY <1>4, <1>5 DEF EncryptInv

\* A job becomes a run of its point.
LEMMA OwedByRun ==
    ASSUME NEW l \in Locals, NEW k \in Locals, NEW m \in Nat, NEW req,
           EncryptInv(l, req, m), l.pc \in {"loop", "int", "mul"}, l.jobs # << >>,
           Head(l.jobs).do # "fail",
           k.pc = IF Head(l.jobs).times = 0 THEN "loop" ELSE "append",
           k.jobs = Tail(l.jobs), k.left = l.left, k.out = l.out,
           k.times = Head(l.jobs).times,
           Service!Valid(req) => k.point = Wanted(Head(l.jobs), m)
    PROVE  EncryptInv(k, req, m)
<1>1. /\ Len(l.jobs) \in Nat /\ Len(l.jobs) > 0 /\ DOMAIN l.jobs = 1 .. Len(l.jobs)
      /\ Head(l.jobs) = l.jobs[1] /\ Tail(l.jobs) = [i \in 1 .. Len(l.jobs) - 1 |-> l.jobs[i + 1]]
  <2> HIDE DEF ProperJob
  <2>1. l.jobs \in Seq(ProperJob)
    BY OwedTypes
  <2>2. QED  BY <2>1, HeadAndTail
<1>2. /\ DOMAIN k.jobs = 1 .. Len(l.jobs) - 1
      /\ \A i \in DOMAIN k.jobs : i + 1 \in DOMAIN l.jobs /\ k.jobs[i] = l.jobs[i + 1]
  BY <1>1
<1>3. k.pc \in {"loop", "append"}
  OBVIOUS
<1>4. ASSUME Service!Valid(req) PROVE EncryptSound(k, req, m)
  <2>1. EncryptSound(l, req, m)
    BY <1>4 DEF EncryptInv
  <2>2. SoundJobs(k.jobs)
    BY <1>2, <2>1 DEF EncryptSound, SoundJobs
  <2>3. RunLeft(k) = RunOf(Head(l.jobs), m)
    <3>1. CASE Head(l.jobs).times = 0
      BY <3>1, RepeatNone DEF RunLeft, RunOf
    <3>2. CASE Head(l.jobs).times # 0
      BY <1>4, <3>2 DEF RunLeft, RunOf
    <3>3. QED  BY <3>1, <3>2
  <2>4. RunLeft(l) = << >>
    BY DEF RunLeft
  <2>5. Owed(l.jobs, m) = Cat(RunLeft(k), Owed(k.jobs, m))
    BY <2>3, OwedTypes, OwedFirst
  <2> DEFINE later == FlattenSeq(OwedByEach(l.left, m))
  <2>6. /\ RunLeft(k) \in Seq(Point) /\ Owed(k.jobs, m) \in Seq(Point) /\ later \in Seq(Point)
        /\ Cat(RunLeft(k), Owed(k.jobs, m)) \in Seq(Point)
    <3>1. RunLeft(k) \in Seq(Point)
      BY <2>3, OwedTypes, RunType
    <3>2. QED  BY <3>1, OwedTypes, CatType
  <2> HIDE DEF later
  <2>7. OwedBy(k, m) = OwedBy(l, m)
    <3>1. Cat(<< >>, Cat(Cat(RunLeft(k), Owed(k.jobs, m)), later))
            = Cat(RunLeft(k), Cat(Owed(k.jobs, m), later))
      BY <2>6, CatEmpty, CatAssociative, CatType
    <3>2. QED  BY <2>4, <2>5, <3>1, Zenon DEF OwedBy, later
  <2>8. QED  BY <2>1, <2>2, <2>7, Zenon DEF EncryptSound
<1>5. ASSUME EncryptFails(l) PROVE EncryptFails(k)
  <2>1. CASE Failing(l.jobs)
    <3>1. PICK i \in DOMAIN l.jobs : l.jobs[i].do = "fail"
      BY <2>1 DEF Failing
    <3>2. i - 1 \in DOMAIN k.jobs /\ k.jobs[i - 1] = l.jobs[i]
      BY <1>1, <3>1
    <3>3. QED  BY <3>1, <3>2 DEF EncryptFails, Failing
  <2>2. CASE ~Failing(l.jobs)
    BY <1>5, <2>2 DEF EncryptFails
  <2>3. QED  BY <2>1, <2>2
<1>6. QED  BY <1>3, <1>4, <1>5 DEF EncryptInv

\* One point of a run is appended.
LEMMA OwedByPoint ==
    ASSUME NEW l \in Locals, NEW k \in Locals, NEW m \in Nat, NEW req,
           EncryptInv(l, req, m), l.pc = "cipher", l.times > 0, l.point \in Point,
           k.pc = IF l.times = 1 THEN "loop" ELSE "append",
           k.jobs = l.jobs, k.left = l.left, k.times = l.times - 1, k.point = l.point,
           k.out = Append(l.out, l.point)
    PROVE  EncryptInv(k, req, m)
<1> DEFINE one == <<l.point>>
           later == Cat(Owed(l.jobs, m), FlattenSeq(OwedByEach(l.left, m)))
<1>1. l.times \in Nat /\ l.out \in Seq(Point)
  BY DEF Locals
<1>2. RunLeft(l) = Cat(one, RunLeft(k))
  <2>1. RunLeft(l) = Cat(one, Service!Repeat(l.point, l.times - 1))
    BY <1>1, RepeatFirst DEF RunLeft
  <2>2. RunLeft(k) = Service!Repeat(l.point, l.times - 1)
    <3>1. CASE l.times = 1
      <4>1. l.times - 1 = 0
        BY <3>1
      <4>2. QED  BY <3>1, <4>1, RepeatNone DEF RunLeft
    <3>2. CASE l.times # 1
      BY <3>2 DEF RunLeft
    <3>3. QED  BY <3>1, <3>2
  <2>3. QED  BY <2>1, <2>2
<1>3. RunLeft(k) \in Seq(Point) /\ one \in Seq(Point) /\ later \in Seq(Point)
  <2>1. l.times - 1 \in Nat
    BY <1>1
  <2>2. Service!Repeat(l.point, l.times - 1) \in Seq(Point) /\ << >> \in Seq(Point)
    BY <2>1, RepeatType
  <2>3. RunLeft(k) \in Seq(Point)
    BY <2>2 DEF RunLeft
  <2>4. QED  BY <2>3, OwedTypes, CatType
<1>4. k.out = Cat(l.out, one)
  BY <1>1 DEF Cat
<1> HIDE DEF one, later
<1>5. Cat(Cat(l.out, one), Cat(RunLeft(k), later)) = Cat(l.out, Cat(Cat(one, RunLeft(k)), later))
  BY <1>1, <1>3, CatMiddle
<1>6. Cat(k.out, OwedBy(k, m)) = Cat(l.out, OwedBy(l, m))
  BY <1>2, <1>4, <1>5, Zenon DEF OwedBy, later
<1>7. k.pc \in {"loop", "append"}
  OBVIOUS
<1>8. QED  BY <1>6, <1>7, Zenon DEF EncryptInv, EncryptSound, EncryptFails

(***************************************************************************)
(* Steps of the specification.                                             *)
(***************************************************************************)
LEMMA InitService == Init => ServiceInv
<1> SUFFICES ASSUME Init, NEW t \in Thread
             PROVE  /\ CallInv(local[t], request[t], max_counter_value)
                    /\ AnswerInv(response[t], max_counter_value)
  BY DEF ServiceInv
<1>1. local[t] = Idle /\ request[t] = Service!None /\ response[t] = Service!NoResponse
  BY DEF Init
<1>2. CallInv(Idle, Service!None, max_counter_value)
  BY DEF CallInv, Idle, Service!None
<1>3. AnswerInv(Service!NoResponse, max_counter_value)
  BY DEF AnswerInv, Service!NoResponse
<1>4. QED  BY <1>1, <1>2, <1>3

\* A step of a call that neither begins nor ends it.
LEMMA ServiceInside ==
    ASSUME Inv, ServiceInv, NEW t \in Thread, NEW l, Set(t, l), UNCHANGED <<request, response>>,
           CallInv(l, request[t], max_counter_value)
    PROVE  ServiceInv'
<1>1. /\ local'[t] = l /\ \A u \in Thread \ {t} : local'[u] = local[u]
      /\ max_counter_value' = max_counter_value
  BY DEF Set, Inv, LocalInv
<1>2. ASSUME NEW u \in Thread
      PROVE  /\ CallInv(local'[u], request[u], max_counter_value)
             /\ AnswerInv(response[u], max_counter_value)
  BY <1>1 DEF ServiceInv
<1>3. QED  BY <1>1, <1>2 DEF ServiceInv

LEMMA ServiceCall ==
    ASSUME Inv, ServiceInv, NEW t \in Thread, NEW req \in EncryptRequest \cup NoiseRequest,
           Call(t, req)
    PROVE  ServiceInv'
<1> DEFINE l == [local[t] EXCEPT !.pc = "lock"]
<1>1. /\ local'[t] = l /\ \A u \in Thread \ {t} : local'[u] = local[u]
      /\ max_counter_value' = max_counter_value
  BY DEF Call, Set, Inv, LocalInv
<1>2. /\ request'[t] = req /\ response'[t] = Service!NoResponse
      /\ \A u \in Thread \ {t} : request'[u] = request[u] /\ response'[u] = response[u]
  BY DEF Call, Inv, CallsInv
<1>3. local[t] = Idle
  BY DEF Call, At, ServiceInv, CallInv, Idle
<1>4. CallInv(l, req, max_counter_value)
  <2>1. req # Service!None
    BY RequestAssumption DEF Service!None
  <2>2. QED  BY <1>3, <2>1 DEF CallInv, Idle
<1>5. AnswerInv(Service!NoResponse, max_counter_value)
  BY DEF AnswerInv, Service!NoResponse
<1> HIDE DEF l
<1>6. ASSUME NEW u \in Thread
      PROVE  /\ CallInv(local'[u], request'[u], max_counter_value)
             /\ AnswerInv(response'[u], max_counter_value)
  <2>1. CASE u = t
    BY <1>1, <1>2, <1>4, <1>5, <2>1
  <2>2. CASE u # t
    BY <1>1, <1>2, <2>2 DEF ServiceInv
  <2>3. QED  BY <2>1, <2>2
<1>7. QED  BY <1>1, <1>6 DEF ServiceInv

LEMMA ServiceReturn ==
    ASSUME Inv, ServiceInv, NEW t \in Thread, NEW res, Return(t, res),
           AnswerInv(res, max_counter_value)
    PROVE  ServiceInv'
<1>1. /\ local'[t] = Idle /\ \A u \in Thread \ {t} : local'[u] = local[u]
      /\ max_counter_value' = max_counter_value
  BY DEF Return, Set, Inv, LocalInv
<1>2. /\ request'[t] = Service!None /\ response'[t] = res
      /\ \A u \in Thread \ {t} : request'[u] = request[u] /\ response'[u] = response[u]
  BY DEF Return, Inv, CallsInv
<1>3. CallInv(Idle, Service!None, max_counter_value)
  BY DEF CallInv, Idle, Service!None
<1>4. ASSUME NEW u \in Thread
      PROVE  /\ CallInv(local'[u], request'[u], max_counter_value)
             /\ AnswerInv(response'[u], max_counter_value)
  <2>1. CASE u = t
    BY <1>1, <1>2, <1>3, <2>1
  <2>2. CASE u # t
    BY <1>1, <1>2, <2>2 DEF ServiceInv
  <2>3. QED  BY <2>1, <2>2
<1>5. QED  BY <1>1, <1>4 DEF ServiceInv

\* The request of a thread that runs is one of the caller's.
LEMMA RequestOf ==
    ASSUME Inv, ServiceInv, NEW t \in Thread, ~At(t, "idle")
    PROVE  /\ \/ request[t] \in EncryptRequest /\ request[t].kind = "encrypt"
              \/ request[t] \in NoiseRequest /\ request[t].kind = "noise"
           /\ request[t].kind = "encrypt" /\ Running(t) =>
                 EncryptInv(local[t], request[t], max_counter_value)
           /\ request[t].kind = "noise" /\ Running(t) => NoiseInv(local[t], request[t])
           /\ max_counter_value \in Nat /\ max_counter_value <= Word - 1
<1>1. request[t] # Service!None
  BY DEF ServiceInv, CallInv, At
<1>2. request[t] \in EncryptRequest \cup NoiseRequest
  BY <1>1 DEF Inv, CallsInv
<1>3. max_counter_value \in 0 .. Word - 1 /\ Word \in Nat
  BY ServiceAssumption DEF Inv, SharedInv
<1>4. CallInv(local[t], request[t], max_counter_value)
  BY DEF ServiceInv
<1>5. /\ request[t].kind = "encrypt" /\ Running(t) =>
            EncryptInv(local[t], request[t], max_counter_value)
      /\ request[t].kind = "noise" /\ Running(t) => NoiseInv(local[t], request[t])
  BY <1>4 DEF CallInv, Running
<1>6. QED  BY <1>2, <1>3, <1>5, RequestAssumption

\* A step of a running call of Encrypt.
LEMMA ServiceEncrypting ==
    ASSUME Inv, ServiceInv, NEW t \in Thread, NEW l, Set(t, l), UNCHANGED <<request, response>>,
           request[t].kind = "encrypt", ~At(t, "idle"), l.pc \notin {"idle", "lock"},
           EncryptInv(l, request[t], max_counter_value)
    PROVE  ServiceInv'
<1>1. request[t] # Service!None
  BY DEF Service!None
<1>2. CallInv(l, request[t], max_counter_value)
  BY <1>1 DEF CallInv
<1>3. QED  BY <1>2, ServiceInside

LEMMA ServiceNoising ==
    ASSUME Inv, ServiceInv, NEW t \in Thread, NEW l, Set(t, l), UNCHANGED <<request, response>>,
           request[t].kind = "noise", ~At(t, "idle"), l.pc \notin {"idle", "lock"},
           NoiseInv(l, request[t])
    PROVE  ServiceInv'
<1>1. request[t] # Service!None
  BY DEF Service!None
<1>2. CallInv(l, request[t], max_counter_value)
  BY <1>1 DEF CallInv
<1>3. QED  BY <1>2, ServiceInside

LEMMA ServiceLockEncrypt ==
    ASSUME Inv, ServiceInv, NEW t \in Thread, LockEncrypt(t)
    PROVE  ServiceInv'
<1> DEFINE req == request[t]
           m == max_counter_value
           left == SketchJobs(req)
           l == [local[t] EXCEPT !.pc = "loop", !.left = left]
<1>1. /\ Set(t, l) /\ UNCHANGED <<request, response>> /\ req.kind = "encrypt"
      /\ At(t, "lock") /\ ~At(t, "idle")
  BY DEF LockEncrypt, SketchJobs, At
<1>2. req \in EncryptRequest /\ m \in Nat
  BY <1>1, RequestOf, RequestAssumption
<1>3. local[t] = [Idle EXCEPT !.pc = "lock"]
  BY <1>1 DEF ServiceInv, CallInv, At
<1>4. l.pc = "loop" /\ l.left = left /\ l.jobs = << >> /\ l.out = << >>
  BY <1>3 DEF Idle
<1>5. left \in Seq(Seq(ProperJob))
  <2>1. req.registers \in Seq([index : Int, values : Seq(Int)])
    BY <1>2, RequestAssumption
  <2>2. QED  BY <1>2, <2>1, SketchJobsProper, FailingJobs, Zenon DEF SketchJobs
<1> HIDE DEF l, left
<1>6. Cat(l.out, OwedBy(l, m)) = FlattenSeq(OwedByEach(left, m))
  <2>1. RunLeft(l) = << >> /\ Owed(l.jobs, m) = << >>
    BY <1>4, OwedNothing DEF RunLeft
  <2>2. FlattenSeq(OwedByEach(left, m)) \in Seq(Point)
    BY <1>2, <1>5, OwedLater
  <2>3. QED  BY <1>4, <2>1, <2>2, CatEmpty, Zenon DEF OwedBy
<1>7. EncryptInv(l, req, m)
  <2>1. ASSUME Service!Valid(req) PROVE EncryptSound(l, req, m)
    <3>1. /\ FlattenSeq(OwedByEach(left, m)) = FlattenSeq(EncodedRegisters(req, m))
          /\ \A i \in DOMAIN left : SoundJobs(left[i])
      BY <1>2, <2>1, SketchJobsOwe DEF left
    <3>2. SoundJobs(l.jobs)
      BY <1>4 DEF SoundJobs
    <3>3. QED  BY <1>4, <1>6, <3>1, <3>2, Zenon DEF EncryptSound
  <2>2. ASSUME ~Service!Valid(req) PROVE EncryptFails(l)
    <3>1. \E i \in DOMAIN left : Failing(left[i])
      BY <1>2, <2>2, SketchJobsOwe DEF left
    <3>2. QED  BY <1>4, <3>1 DEF EncryptFails
  <2>3. QED  BY <1>4, <2>1, <2>2 DEF EncryptInv
<1>8. QED  BY <1>1, <1>4, <1>7, ServiceEncrypting

LEMMA LimitIs ==
    ASSUME NEW m \in Nat, m <= Word - 1
    PROVE  Limit(m) = IF m = Word - 1 THEN 0 ELSE m + 1
<1>1. Word \in Nat /\ Word > 0
  BY ServiceAssumption
<1>2. CASE m = Word - 1
  <2>1. m + 1 = Word /\ Word % Word = 0
    BY <1>1, <1>2
  <2>2. QED  BY <1>2, <2>1 DEF Limit
<1>3. CASE m # Word - 1
  <2>1. m + 1 \in 0 .. Word - 1
    BY <1>1, <1>3
  <2>2. (m + 1) % Word = m + 1
    BY <1>1, <2>1
  <2>3. QED  BY <1>3, <2>2 DEF Limit
<1>4. QED  BY <1>2, <1>3

\* The conversion comes to the point that the job wants.
LEMMA CounterReached ==
    ASSUME NEW m \in Nat, m <= Word - 1, NEW l \in Locals, l.jobs # << >>, Converts(l, m),
           l.n \in 1 .. Limit(m)
    PROVE  Times(l.n) = Wanted(Head(l.jobs), m)
<1>1. Head(l.jobs).do = "int" /\ Head(l.jobs).arg \in Nat
  <2>1. Head(l.jobs) \in ProperJob
    BY OwedTypes
  <2>2. QED  BY <2>1 DEF Converts, ProperJob
<1>2. Word \in Nat /\ Limit(m) = m + 1
  BY ServiceAssumption, LimitIs
<1>3. Service!Smaller(Head(l.jobs).arg, m + 1) = l.n
  BY <1>1, <1>2 DEF Converts, Service!Smaller
<1>4. QED  BY <1>1, <1>3 DEF Wanted, Counter

\* A job of a call of Encrypt becomes a run.
LEMMA ServiceRun ==
    ASSUME Inv, ServiceInv, NEW t \in Thread, request[t].kind = "encrypt", Running(t),
           UNCHANGED <<request, response>>,
           local[t].pc \in {"loop", "int", "mul"}, local[t].jobs # << >>, HeadJob(t).do # "fail",
           NEW point \in Point, Encrypting(t, point),
           Service!Valid(request[t]) => point = Wanted(HeadJob(t), max_counter_value)
    PROVE  ServiceInv'
<1> DEFINE pc == IF HeadJob(t).times = 0 THEN "loop" ELSE "append"
           l == [local[t] EXCEPT !.jobs = Tail(@), !.point = point, !.pc = pc,
                                 !.times = HeadJob(t).times]
           req == request[t]
           m == max_counter_value
<1>1. /\ local[t] \in Locals
      /\ HeadJob(t) \in ProperJob /\ Tail(local[t].jobs) \in Seq(ProperJob)
  BY LocalsOf
<1>2. HeadJob(t).times \in Nat
  BY <1>1 DEF ProperJob, Jobs
<1>3. l \in Locals
  BY <1>1, <1>2 DEF Locals
<1>4. /\ l.pc = pc /\ l.times = HeadJob(t).times /\ l.point = point
      /\ l.jobs = Tail(local[t].jobs) /\ l.left = local[t].left /\ l.out = local[t].out
  BY <1>1 DEF Locals
<1>5. ~At(t, "idle") /\ EncryptInv(local[t], req, m) /\ m \in Nat
  BY RequestOf DEF Running, At
<1>6. Set(t, l)
  BY DEF Encrypting
<1> HIDE DEF l
<1>7. EncryptInv(l, req, m)
  BY <1>1, <1>3, <1>4, <1>5, OwedByRun DEF HeadJob
<1>8. QED  BY <1>4, <1>5, <1>6, <1>7, ServiceEncrypting

LEMMA ServicePoints ==
    ASSUME Inv, ServiceInv, NEW t \in Thread, request[t].kind = "encrypt", Running(t),
           MapToCurve(t) \/ FlagPoint(t) \/ CacheHit(t) \/ StorePoint(t)
    PROVE  ServiceInv'
<1> DEFINE l == local[t]
           m == max_counter_value
           req == request[t]
<1>1. /\ l \in Locals /\ Proper(l) /\ EncryptInv(l, req, m)
      /\ m \in Nat /\ m <= Word - 1 /\ Limit(m) = Overflow
      /\ UNCHANGED <<request, response>>
  BY LocalsOf, RequestOf
     DEF Running, At, Limit, Overflow, MapToCurve, FlagPoint, CacheHit, StorePoint
<1>2. ASSUME Service!Valid(req), l.jobs # << >> PROVE SoundJob(HeadJob(t))
  <2>1. l.jobs \in Seq(ProperJob)
    BY <1>1, OwedTypes
  <2>2. 1 \in DOMAIN l.jobs /\ HeadJob(t) = l.jobs[1]
    <3> HIDE DEF ProperJob
    <3>1. QED  BY <1>2, <2>1 DEF HeadJob
  <2>3. QED  BY <1>1, <1>2, <2>2 DEF EncryptInv, EncryptSound, SoundJobs
<1>3. CASE MapToCurve(t)
  <2>1. l.jobs # << >> /\ l.pc = "loop" /\ HeadJob(t).do \in {"text", "noise", "random"}
    BY <1>3 DEF MapToCurve, HasJob, At
  <2>2. HeadJob(t).arg \in Int
    BY <2>1, LocalsOf DEF ProperJob, Jobs
  <2>3. PICK point \in Point :
            Encrypting(t, point) /\ (HeadJob(t).do = "text" => point = Text(HeadJob(t).arg))
    <3>1. Text(HeadJob(t).arg) \in Point /\ Service!NoiseId \in Point
      BY <2>2 DEF Text, Point, Service!NoiseId
    <3>2. \A k \in RandomPoint : Service!Random(k) \in Point
      BY ServiceAssumption DEF Point, Service!Random
    <3>3. QED  BY <1>3, <3>1, <3>2 DEF MapToCurve, HasJob
  <2>4. Service!Valid(req) => point = Wanted(HeadJob(t), m)
    BY <1>2, <2>1, <2>3 DEF SoundJob, Wanted
  <2>5. QED  BY <1>1, <2>1, <2>3, <2>4, ServiceRun
<1>4. CASE FlagPoint(t)
  <2>1. destroyed_register_key_ec' = Service!Flag
    BY <1>4 DEF FlagPoint, Inv, SharedInv, CacheSound
  <2>2. Service!Flag \in Point
    BY DEF Service!Flag, Point
  <2>3. Encrypting(t, Service!Flag) /\ l.jobs # << >> /\ l.pc = "loop" /\ HeadJob(t).do = "flag"
    BY <1>4, <2>1 DEF FlagPoint, HasJob, At
  <2>4. Service!Flag = Wanted(HeadJob(t), m)
    BY <2>3 DEF Wanted
  <2>5. QED  BY <1>1, <2>2, <2>3, <2>4, ServiceRun
<1>5. ASSUME l.pc \in {"int", "mul"}, l.n \in 1 .. Overflow, Encrypting(t, Times(l.n))
      PROVE  ServiceInv'
  <2>1. l.jobs # << >> /\ Converts(l, m)
    BY <1>1, <1>5 DEF Proper, EncryptInv
  <2>2. Times(l.n) = Wanted(HeadJob(t), m) /\ HeadJob(t).do = "int"
    BY <1>1, <1>5, <2>1, CounterReached DEF HeadJob, Converts
  <2>3. Times(l.n) \in Point
    BY <1>5 DEF Times, Point
  <2>4. QED  BY <1>1, <1>5, <2>1, <2>2, <2>3, ServiceRun
<1>6. CASE CacheHit(t)
  <2>1. l.n \in 1 .. Overflow /\ integer_to_ec_point_map[l.n] = Times(l.n)
    BY <1>6 DEF CacheHit, Inv, SharedInv, CacheSound
  <2>2. QED  BY <1>5, <1>6, <2>1 DEF CacheHit, At
<1>7. CASE StorePoint(t)
  <2>1. l.n \in 1 .. Overflow /\ scratch = Times(l.n)
    BY <1>1, <1>7 DEF StorePoint, At, Proper, Inv, ScratchUndisturbed
  <2>2. QED  BY <1>5, <1>7, <2>1 DEF StorePoint, At
<1>8. QED  BY <1>3, <1>4, <1>6, <1>7

LEMMA ServiceSteps ==
    ASSUME Inv, ServiceInv, NEW t \in Thread, request[t].kind = "encrypt", Running(t),
           NextRegister(t) \/ CallGetECPoint(t) \/ Clamp(t) \/ Multiply(t)
              \/ Encrypt(t) \/ AppendCiphertext(t)
    PROVE  ServiceInv'
<1> DEFINE l == local[t]
           m == max_counter_value
           req == request[t]
<1>1. /\ l \in Locals /\ Proper(l) /\ EncryptInv(l, req, m) /\ ~At(t, "idle")
      /\ m \in Nat /\ m <= Word - 1 /\ Limit(m) = Overflow /\ Overflow \in Nat
      /\ UNCHANGED <<request, response>>
  BY LocalsOf, RequestOf, MaximumFits
     DEF Running, At, Limit, Overflow, Inv,
         NextRegister, CallGetECPoint, Clamp, Multiply, Encrypt, AppendCiphertext
<1>2. ASSUME NEW k \in Locals, Set(t, k), k.pc \notin {"idle", "lock"}, EncryptInv(k, req, m)
      PROVE  ServiceInv'
  BY <1>1, <1>2, ServiceEncrypting
<1>3. CASE NextRegister(t)
  <2> DEFINE k == [local[t] EXCEPT !.jobs = Head(local[t].left), !.left = Tail(@)]
  <2>1. Set(t, k) /\ l.pc = "loop" /\ l.jobs = << >> /\ l.left # << >>
    BY <1>3 DEF NextRegister, At
  <2>2. Head(l.left) \in Seq(ProperJob) /\ Tail(l.left) \in Seq(Seq(ProperJob))
    <3>1. l.left \in Seq(Seq(ProperJob))
      BY <1>1 DEF Locals
    <3> HIDE DEF ProperJob
    <3>2. QED  BY <2>1, <3>1
  <2>3. /\ k \in Locals /\ k.pc = "loop" /\ k.jobs = Head(l.left) /\ k.left = Tail(l.left)
        /\ k.out = l.out
    BY <1>1, <2>1, <2>2 DEF Locals
  <2> HIDE DEF k
  <2>4. EncryptInv(k, req, m)
    BY <1>1, <2>1, <2>3, OwedByRegister
  <2>5. QED  BY <1>2, <2>1, <2>3, <2>4
<1>4. CASE CallGetECPoint(t)
  <2> DEFINE k == [local[t] EXCEPT !.pc = "int", !.n = HeadJob(t).arg]
  <2>1. Set(t, k) /\ l.pc = "loop" /\ l.jobs # << >> /\ HeadJob(t).do = "int"
    BY <1>4 DEF CallGetECPoint, HasJob, At
  <2>2. HeadJob(t).arg \in Nat
    BY <2>1, LocalsOf DEF ProperJob
  <2>3. /\ k \in Locals /\ k.pc = "int" /\ k.jobs = l.jobs /\ k.left = l.left /\ k.out = l.out
        /\ k.n = HeadJob(t).arg
    BY <1>1, <2>2 DEF Locals
  <2> HIDE DEF k
  <2>4. Converts(k, m) /\ RunLeft(k) = RunLeft(l)
    BY <2>1, <2>3 DEF Converts, HeadJob, RunLeft
  <2>5. EncryptInv(k, req, m)
    BY <1>1, <2>3, <2>4, SameOwed
  <2>6. QED  BY <1>2, <2>1, <2>3, <2>5
<1>5. CASE Clamp(t)
  <2> DEFINE k == [local[t] EXCEPT !.n = Clamped]
  <2>1. Set(t, k) /\ l.pc = "int" /\ l.n > Overflow
    BY <1>5 DEF Clamp, CacheMiss, At, Exceeds
  <2>2. /\ k \in Locals /\ k.pc = "int" /\ k.jobs = l.jobs /\ k.left = l.left /\ k.out = l.out
        /\ k.n = Overflow
    BY <1>1, <2>1 DEF Locals, Clamped
  <2> HIDE DEF k
  <2>3. RunLeft(k) = RunLeft(l)
    BY <2>1, <2>2 DEF RunLeft
  <2>4. Converts(k, m)
    <3>1. Converts(l, m)
      BY <1>1, <2>1 DEF EncryptInv
    <3>2. l.n = Head(l.jobs).arg
      BY <1>1, <2>1, <3>1 DEF Converts
    <3>3. QED  BY <1>1, <2>1, <2>2, <3>1, <3>2 DEF Converts
  <2>5. EncryptInv(k, req, m)
    BY <1>1, <2>2, <2>3, <2>4, SameOwed
  <2>6. QED  BY <1>2, <2>1, <2>2, <2>5
<1>6. CASE Multiply(t)
  <2> DEFINE k == [local[t] EXCEPT !.pc = "mul"]
  <2>1. Set(t, k) /\ l.pc = "int"
    BY <1>6 DEF Multiply, CacheMiss, At
  <2>2. /\ k \in Locals /\ k.pc = "mul" /\ k.jobs = l.jobs /\ k.left = l.left /\ k.out = l.out
        /\ k.n = l.n
    BY <1>1, <2>1 DEF Locals
  <2> HIDE DEF k
  <2>3. Converts(k, m) /\ RunLeft(k) = RunLeft(l)
    BY <1>1, <2>1, <2>2 DEF Converts, EncryptInv, RunLeft
  <2>4. EncryptInv(k, req, m)
    BY <1>1, <2>2, <2>3, SameOwed
  <2>5. QED  BY <1>2, <2>1, <2>2, <2>4
<1>7. CASE Encrypt(t)
  <2> DEFINE k == [local[t] EXCEPT !.pc = "cipher"]
  <2>1. Set(t, k) /\ l.pc = "append"
    BY <1>7 DEF Encrypt, At
  <2>2. /\ k \in Locals /\ k.pc = "cipher" /\ k.jobs = l.jobs /\ k.left = l.left /\ k.out = l.out
        /\ k.point = l.point /\ k.times = l.times
    BY <1>1, <2>1 DEF Locals
  <2> HIDE DEF k
  <2>3. RunLeft(k) = RunLeft(l)
    BY <2>1, <2>2 DEF RunLeft
  <2>4. EncryptInv(k, req, m)
    BY <1>1, <2>2, <2>3, SameOwed
  <2>5. QED  BY <1>2, <2>1, <2>2, <2>4
<1>8. CASE AppendCiphertext(t)
  <2> DEFINE pc == IF l.times = 1 THEN "loop" ELSE "append"
             k == [local[t] EXCEPT !.out = Append(@, scratch), !.times = @ - 1, !.pc = pc]
  <2>1. Set(t, k) /\ l.pc = "cipher"
    BY <1>8 DEF AppendCiphertext, At, LastOfRun
  <2>2. scratch = l.point /\ l.point \in Point /\ l.times \in Nat /\ l.times > 0
    BY <1>1, <2>1 DEF Proper, Inv, ScratchUndisturbed, At, Locals
  <2>3. l.times - 1 \in Nat /\ Append(l.out, scratch) \in Seq(Point)
    <3>1. l.out \in Seq(Point)
      BY <1>1 DEF Locals
    <3>2. QED  BY <2>2, <3>1
  <2>4. /\ k \in Locals /\ k.pc = pc /\ k.jobs = l.jobs /\ k.left = l.left
        /\ k.out = Append(l.out, l.point) /\ k.point = l.point /\ k.times = l.times - 1
    BY <1>1, <2>2, <2>3 DEF Locals
  <2> HIDE DEF k
  <2>5. EncryptInv(k, req, m)
    BY <1>1, <2>1, <2>2, <2>4, OwedByPoint
  <2>6. QED  BY <1>2, <2>1, <2>4, <2>5
<1>9. QED  BY <1>3, <1>4, <1>5, <1>6, <1>7, <1>8

(***************************************************************************)
(* The steps of a call of AppendNoiseRegisters.                            *)
(***************************************************************************)
NoiseRun(p, width) == Cat(<<Service!NoiseId>>, Service!Repeat(Service!Random(p), width))
NoiseRuns(width, randoms) == [r \in DOMAIN randoms |-> NoiseRun(randoms[r], width)]

LEMMA NoiseFlattens ==
    \A width, randoms : Service!NoiseRegisters(width, randoms) = FlattenSeq(NoiseRuns(width, randoms))
BY ServiceFlattens, Zenon DEF Service!NoiseRegisters, NoiseRuns, NoiseRun, Cat

LEMMA NoiseRunType ==
    ASSUME NEW width \in Nat, NEW p \in RandomPoint
    PROVE  NoiseRun(p, width) \in Seq(Point) /\ Service!Random(p) \in Point
             /\ <<Service!NoiseId>> \in Seq(Point)
<1>1. Service!Random(p) \in Point /\ Service!NoiseId \in Point
  BY ServiceAssumption DEF Service!Random, Service!NoiseId, Point
<1>2. Service!Repeat(Service!Random(p), width) \in Seq(Point) /\ <<Service!NoiseId>> \in Seq(Point)
  BY <1>1, RepeatType
<1>3. QED  BY <1>1, <1>2, CatType DEF NoiseRun

LEMMA NoiseType ==
    ASSUME NEW width \in Nat, NEW n \in Nat, NEW randoms \in [1 .. n -> RandomPoint]
    PROVE  /\ NoiseRuns(width, randoms) \in [1 .. n -> Seq(Point)]
           /\ Service!NoiseRegisters(width, randoms) \in Seq(Point)
<1>1. NoiseRuns(width, randoms) \in [1 .. n -> Seq(Point)]
  BY NoiseRunType DEF NoiseRuns
<1>2. FlattenSeq(NoiseRuns(width, randoms)) \in Seq(Point)
  BY <1>1, FlattenType
<1>3. QED  BY <1>1, <1>2, NoiseFlattens, Zenon

\* One register more.
Extended(randoms, n, p) == [i \in 1 .. n + 1 |-> IF i = n + 1 THEN p ELSE randoms[i]]

LEMMA NoiseMore ==
    ASSUME NEW width \in Nat, NEW n \in Nat, NEW randoms \in [1 .. n -> RandomPoint],
           NEW p \in RandomPoint
    PROVE  /\ Extended(randoms, n, p) \in [1 .. n + 1 -> RandomPoint]
           /\ Service!NoiseRegisters(width, Extended(randoms, n, p))
                = Cat(Service!NoiseRegisters(width, randoms), NoiseRun(p, width))
<1> DEFINE more == Extended(randoms, n, p)
           runs == NoiseRuns(width, more)
<1>1. more \in [1 .. n + 1 -> RandomPoint] /\ more[n + 1] = p /\ \A i \in 1 .. n : more[i] = randoms[i]
  BY DEF Extended
<1>2. runs \in [1 .. n + 1 -> Seq(Point)]
  BY <1>1, NoiseType
<1>3. runs[n + 1] = NoiseRun(p, width)
  BY <1>1 DEF NoiseRuns
<1>4. [i \in 1 .. n |-> runs[i]] = NoiseRuns(width, randoms)
  BY <1>1 DEF NoiseRuns
<1>5. FlattenSeq(runs) = Cat(FlattenSeq([i \in 1 .. n |-> runs[i]]), runs[n + 1])
  <2> HIDE DEF runs
  <2>1. QED  BY <1>2, FlattenLast
<1>6. QED  BY <1>1, <1>3, <1>4, <1>5, NoiseFlattens, Zenon

LEMMA NoNoise ==
    ASSUME NEW width, NEW randoms \in [1 .. 0 -> RandomPoint]
    PROVE  Service!NoiseRegisters(width, randoms) = << >>
<1>1. NoiseRuns(width, randoms) = << >>
  BY DEF NoiseRuns
<1>2. QED  BY <1>1, NoiseFlattens, FlattenEmpty, Zenon

LEMMA NoiseShape ==
    ASSUME NEW width
    PROVE  LET jobs == NoiseJobs(width) IN
           /\ jobs # << >> /\ Head(jobs).do = "noise" /\ Head(jobs).times = 1
           /\ Tail(jobs) # << >> /\ Head(Tail(jobs)).do = "random" /\ Head(Tail(jobs)).times = width
           /\ Tail(Tail(jobs)) = << >>
<1>1. Tail(NoiseJobs(width)) = <<Job("random", 0, width)>>
  BY DEF NoiseJobs
<1>2. QED  BY <1>1 DEF NoiseJobs, Job

LEMMA GivenType ==
    ASSUME NEW req \in NoiseRequest
    PROVE  req.given \in Seq(Point) /\ req.value_count \in Int /\ req.kind = "noise"
BY RequestAssumption

\* Where the call is when it takes the lock ...
LEMMA NoiseStart ==
    ASSUME NEW req \in NoiseRequest, NEW l, l.pc = "loop", l.jobs = << >>, l.out = req.given,
           \/ l.left = <<<<Fail>>>>
           \/ /\ req.value_count >= 1
              /\ \E count \in NoiseCount : l.left = [i \in 1 .. count |-> NoiseJobs(req.value_count)]
    PROVE  NoiseInv(l, req)
<1>1. CASE l.left = <<<<Fail>>>>
  BY <1>1 DEF NoiseInv, NoiseRejected
<1>2. ASSUME req.value_count >= 1, NEW count \in NoiseCount,
             l.left = [i \in 1 .. count |-> NoiseJobs(req.value_count)]
      PROVE  NoiseInv(l, req)
  <2> DEFINE none == [i \in 1 .. 0 |-> CHOOSE p \in RandomPoint : TRUE]
  <2>1. none \in [1 .. 0 -> RandomPoint] /\ count \in Nat
    BY ServiceAssumption
  <2>2. NoiseAfter(req, none) = req.given
    <3> HIDE DEF none
    <3>1. Service!NoiseRegisters(req.value_count, none) = << >>
      BY <2>1, NoNoise
    <3>2. QED  BY <3>1, GivenType, CatEmpty DEF NoiseAfter
  <2> HIDE DEF none
  <2>3. 0 \in 0 .. count /\ l.left = [i \in 1 .. count - 0 |-> NoiseJobs(req.value_count)]
    <3>1. count - 0 = count /\ 0 \in 0 .. count
      BY <2>1
    <3>2. QED  BY <1>2, <3>1
  <2>4. NoiseDrawn(l, req)
    BY <1>2, <2>1, <2>2, <2>3, ZenonT(30) DEF NoiseDrawn
  <2>5. QED  BY <1>2, <2>4 DEF NoiseInv
<1>3. QED  BY <1>1, <1>2

\* ... when it comes to the next register ...
LEMMA NoiseNext ==
    ASSUME NEW req \in NoiseRequest, NEW l, NEW k, NoiseInv(l, req),
           l.pc = "loop", l.jobs = << >>, l.left # << >>,
           k.pc = "loop", k.jobs = Head(l.left), k.left = Tail(l.left), k.out = l.out
    PROVE  NoiseInv(k, req)
<1>1. CASE NoiseRejected(l, req)
  <2>1. \A x : Head(<<x>>) = x /\ Tail(<<x>>) = << >>
    OBVIOUS
  <2>2. l.left = <<<<Fail>>>>
    BY <1>1 DEF NoiseRejected
  <2>3. k.jobs = <<Fail>> /\ k.left = << >>
    BY <2>1, <2>2
  <2>4. QED  BY <1>1, <2>3 DEF NoiseRejected, NoiseInv
<1>2. CASE ~NoiseRejected(l, req)
  <2>1. req.value_count >= 1 /\ NoiseDrawn(l, req)
    BY <1>2 DEF NoiseInv
  <2> DEFINE w == req.value_count
  <2>2. \A r, p : ~InNoise(l, req, r, p)
    BY NoiseShape, ZenonT(30) DEF InNoise
  <2>3. PICK count, done, randoms :
            /\ count \in NoiseCount /\ done \in 0 .. count /\ randoms \in [1 .. done -> RandomPoint]
            /\ l.left = [i \in 1 .. count - done |-> NoiseJobs(w)]
            /\ l.out = NoiseAfter(req, randoms)
    BY <2>1, <2>2 DEF NoiseDrawn
  <2>4. count \in Nat /\ done \in Nat
    BY <2>3, ServiceAssumption
  <2>5. done < count
    <3>1. CASE done = count
      BY <2>3, <2>4, <3>1
    <3>2. QED  BY <2>3, <2>4, <3>1
  <2>6. count - done \in Nat \ {0} /\ count - done - 1 \in Nat
    BY <2>4, <2>5
  <2>7. Head(l.left) = NoiseJobs(w) /\ Tail(l.left) = [i \in 1 .. count - done - 1 |-> NoiseJobs(w)]
    <3> DEFINE n == count - done
               jobs == NoiseJobs(w)
               left == [i \in 1 .. n |-> jobs]
    <3> HIDE DEF n, jobs
    <3>1. n \in Nat \ {0} /\ l.left = left
      BY <2>3, <2>6 DEF n, jobs
    <3>2. left \in Seq({jobs}) /\ Len(left) = n /\ left # << >>
      BY <3>1
    <3>3. Head(left) = left[1] /\ Tail(left) = [i \in 1 .. n - 1 |-> left[i + 1]]
      BY <3>2, HeadAndTail, Zenon
    <3>4. left[1] = jobs /\ \A i \in 1 .. n - 1 : left[i + 1] = jobs
      BY <3>1
    <3>5. Head(left) = jobs /\ Tail(left) = [i \in 1 .. n - 1 |-> jobs]
      BY <3>3, <3>4
    <3>6. QED  BY <3>1, <3>5 DEF n, jobs
  <2>8. PICK p \in RandomPoint : TRUE
    BY ServiceAssumption
  <2>9. InNoise(k, req, randoms, p)
    BY <2>3, <2>7 DEF InNoise
  <2>10. NoiseDrawn(k, req)
    BY <2>3, <2>4, <2>5, <2>7, <2>8, <2>9 DEF NoiseDrawn
  <2>11. QED  BY <2>1, <2>10 DEF NoiseInv
<1>3. QED  BY <1>1, <1>2

\* A call inside register done + 1 of count.
InRegister(l, req, count, done, randoms, p) ==
    /\ count \in NoiseCount /\ count \in Nat /\ done \in 0 .. count /\ done < count
    /\ randoms \in [1 .. done -> RandomPoint] /\ p \in RandomPoint
    /\ l.left = [i \in 1 .. count - done - 1 |-> NoiseJobs(req.value_count)]
    /\ InNoise(l, req, randoms, p)

LEMMA NoiseInside ==
    ASSUME NEW req \in NoiseRequest, NEW l, NoiseInv(l, req), ~NoiseRejected(l, req),
           l.jobs # << >> \/ l.pc # "loop"
    PROVE  /\ req.value_count \in Nat /\ req.value_count >= 1
           /\ \E count, done, randoms, p : InRegister(l, req, count, done, randoms, p)
<1>1. req.value_count \in Nat /\ req.value_count >= 1 /\ NoiseDrawn(l, req)
  BY GivenType DEF NoiseInv
<1>2. \A count \in NoiseCount : count \in Nat
  BY ServiceAssumption
<1>3. QED  BY <1>1, <1>2 DEF NoiseDrawn, InRegister

LEMMA StillInRegister ==
    ASSUME NEW req \in NoiseRequest, NEW k, req.value_count >= 1,
           NEW count, NEW done, NEW randoms, NEW p, InRegister(k, req, count, done, randoms, p)
    PROVE  NoiseInv(k, req)
BY DEF NoiseInv, NoiseDrawn, InRegister

\* ... when a job becomes a run ...
LEMMA NoiseByRun ==
    ASSUME NEW req \in NoiseRequest, NEW l, NEW k, NoiseInv(l, req),
           l.pc = "loop", l.jobs # << >>, NEW point,
           \/ Head(l.jobs).do = "noise" /\ point = Service!NoiseId
           \/ Head(l.jobs).do = "random" /\ \E p \in RandomPoint : point = Service!Random(p),
           k.pc = IF Head(l.jobs).times = 0 THEN "loop" ELSE "append",
           k.jobs = Tail(l.jobs), k.left = l.left, k.out = l.out, k.times = Head(l.jobs).times,
           k.point = point
    PROVE  NoiseInv(k, req)
<1>1. ~NoiseRejected(l, req)
  BY DEF NoiseRejected, Fail, Job
<1> DEFINE w == req.value_count
<1>2. w \in Nat /\ w >= 1
  BY <1>1, NoiseInside
<1>3. PICK count, done, randoms, p : InRegister(l, req, count, done, randoms, p)
  BY <1>1, NoiseInside
<1>4. CASE l.jobs = NoiseJobs(w) /\ l.out = NoiseAfter(req, randoms)
  <2>1. point = Service!NoiseId /\ k.times = 1 /\ k.pc = "append"
    BY <1>4, NoiseShape
  <2>2. InRegister(k, req, count, done, randoms, p)
    BY <1>3, <1>4, <2>1 DEF InRegister, InNoise
  <2>3. QED  BY <1>2, <2>2, StillInRegister
<1>5. CASE /\ l.jobs = Tail(NoiseJobs(w))
           /\ l.out = Cat(NoiseAfter(req, randoms), <<Service!NoiseId>>)
  <2>1. k.times = w /\ k.pc = "append" /\ k.jobs = << >>
    BY <1>2, <1>5, NoiseShape
  <2>2. PICK q \in RandomPoint : point = Service!Random(q)
    BY <1>5, NoiseShape
  <2>3. Service!Repeat(point, w - k.times) = << >>
    <3>1. w - k.times = 0
      BY <1>2, <2>1
    <3>2. QED  BY <3>1, RepeatNone
  <2>4. l.out \in Seq(Point)
    <3>1. Service!NoiseRegisters(w, randoms) \in Seq(Point) /\ <<Service!NoiseId>> \in Seq(Point)
      <4>1. done \in Nat /\ randoms \in [1 .. done -> RandomPoint]
        BY <1>3 DEF InRegister
      <4>2. QED  BY <1>2, <2>2, <4>1, NoiseType, NoiseRunType
    <3>2. QED  BY <1>5, <3>1, GivenType, CatType DEF NoiseAfter
  <2>5. k.out = Cat(Cat(NoiseAfter(req, randoms), <<Service!NoiseId>>),
                    Service!Repeat(k.point, w - k.times))
    BY <1>5, <2>3, <2>4, CatEmpty
  <2>6. k.times \in 1 .. w
    BY <1>2, <2>1
  <2>7. InRegister(k, req, count, done, randoms, q)
    BY <1>3, <2>1, <2>2, <2>5, <2>6 DEF InRegister, InNoise
  <2>8. QED  BY <1>2, <2>7, StillInRegister
<1>6. QED  BY <1>3, <1>4, <1>5 DEF InRegister, InNoise

\* ... when it is about to encrypt ...
LEMMA NoiseByEncrypt ==
    ASSUME NEW req \in NoiseRequest, NEW l, NEW k, NoiseInv(l, req), l.pc = "append",
           k.pc = "cipher", k.jobs = l.jobs, k.left = l.left, k.out = l.out, k.times = l.times,
           k.point = l.point
    PROVE  NoiseInv(k, req)
<1>1. ~NoiseRejected(l, req)
  BY DEF NoiseRejected
<1>2. PICK count, done, randoms, p : InRegister(l, req, count, done, randoms, p)
  BY <1>1, NoiseInside
<1>3. InRegister(k, req, count, done, randoms, p)
  BY <1>2 DEF InRegister, InNoise
<1>4. QED  BY <1>1, <1>3, NoiseInside, StillInRegister

LEMMA NoiseAfterMore ==
    ASSUME NEW req \in NoiseRequest, req.value_count \in Nat, NEW n \in Nat,
           NEW randoms \in [1 .. n -> RandomPoint], NEW p \in RandomPoint
    PROVE  LET before == NoiseAfter(req, randoms)
               points == Service!Repeat(Service!Random(p), req.value_count) IN
           /\ before \in Seq(Point) /\ <<Service!NoiseId>> \in Seq(Point) /\ points \in Seq(Point)
           /\ Service!Random(p) \in Point /\ Service!NoiseId \in Point
           /\ Extended(randoms, n, p) \in [1 .. n + 1 -> RandomPoint]
           /\ NoiseAfter(req, Extended(randoms, n, p)) \in Seq(Point)
           /\ NoiseAfter(req, Extended(randoms, n, p)) = Cat(Cat(before, <<Service!NoiseId>>), points)
<1> DEFINE w == req.value_count
           before == NoiseAfter(req, randoms)
           points == Service!Repeat(Service!Random(p), w)
           id == <<Service!NoiseId>>
           drawn == Service!NoiseRegisters(w, randoms)
<1>1. /\ req.given \in Seq(Point) /\ drawn \in Seq(Point) /\ id \in Seq(Point)
      /\ Service!Random(p) \in Point /\ Service!NoiseId \in Point /\ NoiseRun(p, w) \in Seq(Point)
  <2>1. Service!NoiseId \in Point
    BY DEF Service!NoiseId, Point
  <2>2. drawn \in Seq(Point)
    BY NoiseType
  <2>3. Service!Random(p) \in Point /\ id \in Seq(Point) /\ NoiseRun(p, w) \in Seq(Point)
    BY NoiseRunType
  <2>4. QED  BY <2>1, <2>2, <2>3, GivenType
<1>2. points \in Seq(Point)
  BY <1>1, RepeatType
<1>3. before \in Seq(Point)
  BY <1>1, CatType DEF NoiseAfter
<1>4. /\ Extended(randoms, n, p) \in [1 .. n + 1 -> RandomPoint]
      /\ NoiseAfter(req, Extended(randoms, n, p)) = Cat(req.given, Cat(drawn, NoiseRun(p, w)))
  BY NoiseMore DEF NoiseAfter
<1>5. NoiseRun(p, w) = Cat(id, points) /\ before = Cat(req.given, drawn)
  BY Zenon DEF NoiseRun, NoiseAfter
<1> HIDE DEF id, points, drawn, before
<1>6. Cat(req.given, Cat(drawn, Cat(id, points))) = Cat(Cat(req.given, drawn), Cat(id, points))
  <2>1. Cat(id, points) \in Seq(Point)
    BY <1>1, <1>2, CatType
  <2>2. QED  BY <1>1, <2>1, CatAssociative
<1>7. Cat(before, Cat(id, points)) = Cat(Cat(before, id), points)
  BY <1>1, <1>2, <1>3, CatAssociative
<1>8. Cat(Cat(before, id), points) \in Seq(Point)
  BY <1>1, <1>2, <1>3, CatType
<1>9. QED  BY <1>1, <1>2, <1>3, <1>4, <1>5, <1>6, <1>7, <1>8 DEF id, points, drawn, before

\* ... and when a ciphertext is appended.
LEMMA NoiseByPoint ==
    ASSUME NEW req \in NoiseRequest, NEW l, NEW k, NoiseInv(l, req), l.pc = "cipher",
           k.pc = IF l.times = 1 THEN "loop" ELSE "append",
           k.jobs = l.jobs, k.left = l.left, k.times = l.times - 1, k.point = l.point,
           k.out = Append(l.out, l.point)
    PROVE  NoiseInv(k, req)
<1>1. ~NoiseRejected(l, req)
  BY DEF NoiseRejected
<1> DEFINE w == req.value_count
           id == <<Service!NoiseId>>
<1>2. w \in Nat /\ w >= 1
  BY <1>1, NoiseInside
<1>3. PICK count, done, randoms, p : InRegister(l, req, count, done, randoms, p)
  BY <1>1, NoiseInside
<1> DEFINE before == NoiseAfter(req, randoms)
           points(n) == Service!Repeat(l.point, n)
<1>4. /\ done \in Nat /\ count \in Nat /\ done < count /\ count \in NoiseCount
      /\ randoms \in [1 .. done -> RandomPoint] /\ p \in RandomPoint
      /\ l.left = [i \in 1 .. count - done - 1 |-> NoiseJobs(w)]
  BY <1>3 DEF InRegister
<1>5. /\ before \in Seq(Point) /\ id \in Seq(Point) /\ Service!NoiseId \in Point
      /\ Service!Random(p) \in Point /\ Cat(before, id) \in Seq(Point)
  BY <1>2, <1>4, NoiseAfterMore, CatType
<1>6. \A s \in Seq(Point), e \in Point : Append(s, e) = Cat(s, <<e>>)
  BY DEF Cat
<1>7. CASE /\ l.jobs = Tail(NoiseJobs(w)) /\ l.out = before
           /\ l.point = Service!NoiseId /\ l.times = 1
  <2>1. k.pc = "loop" /\ k.out = Cat(before, id)
    BY <1>5, <1>6, <1>7
  <2>2. InRegister(k, req, count, done, randoms, p)
    BY <1>3, <1>7, <2>1 DEF InRegister, InNoise
  <2>3. QED  BY <1>2, <2>2, StillInRegister
<1>8. CASE /\ l.jobs = << >> /\ l.point = Service!Random(p) /\ l.times \in 1 .. w
           /\ l.out = Cat(Cat(before, id), points(w - l.times))
  <2>1. w - l.times \in Nat /\ l.point \in Point
    BY <1>2, <1>5, <1>8
  <2>2. points(w - l.times) \in Seq(Point) /\ <<l.point>> \in Seq(Point)
    BY <2>1, RepeatType
  <2>3. points(w - l.times + 1) = Cat(points(w - l.times), <<l.point>>)
    BY <2>1, RepeatLast
  <2> HIDE DEF before, id
  <2>4. k.out = Cat(Cat(before, id), points(w - l.times + 1))
    <3>1. l.out \in Seq(Point)
      BY <1>5, <1>8, <2>2, CatType
    <3>2. k.out = Cat(Cat(Cat(before, id), points(w - l.times)), <<l.point>>)
      BY <1>6, <1>8, <2>1, <3>1
    <3> DEFINE one == <<l.point>>
    <3> HIDE DEF points, one
    <3>3. Cat(Cat(Cat(before, id), points(w - l.times)), one)
            = Cat(Cat(before, id), Cat(points(w - l.times), one))
      <4>1. one \in Seq(Point)
        BY <2>2 DEF one
      <4>2. QED  BY <1>5, <2>2, <4>1, CatAssociative
    <3> USE DEF one
    <3>4. QED  BY <2>3, <3>2, <3>3
  <2>5. CASE l.times = 1
    <3>1. w - l.times + 1 = w
      BY <1>2, <2>5
    <3>2. k.out = NoiseAfter(req, Extended(randoms, done, p))
      BY <1>2, <1>4, <1>8, <2>4, <3>1, NoiseAfterMore, ZenonT(30) DEF before, id
    <3>3. /\ Extended(randoms, done, p) \in [1 .. done + 1 -> RandomPoint]
          /\ done + 1 \in 0 .. count /\ count - (done + 1) = count - done - 1
      <4>1. Extended(randoms, done, p) \in [1 .. done + 1 -> RandomPoint]
        BY <1>2, <1>4, NoiseAfterMore
      <4>2. QED  BY <1>4, <4>1
    <3>4. k.left = [i \in 1 .. count - (done + 1) |-> NoiseJobs(w)] /\ k.pc = "loop" /\ k.jobs = << >>
      BY <1>4, <1>8, <2>5, <3>3
    <3>5. NoiseDrawn(k, req)
      BY <1>4, <3>2, <3>3, <3>4 DEF NoiseDrawn
    <3>6. QED  BY <1>2, <3>5 DEF NoiseInv
  <2>6. CASE l.times # 1
    <3>1. k.pc = "append" /\ k.times \in 1 .. w /\ w - k.times = w - l.times + 1
      BY <1>2, <1>8, <2>6
    <3>2. InNoise(k, req, randoms, p)
      BY <1>8, <2>4, <3>1 DEF InNoise, before, id
    <3>3. InRegister(k, req, count, done, randoms, p)
      BY <1>3, <3>2 DEF InRegister
    <3>4. QED  BY <1>2, <3>3, StillInRegister
  <2>7. QED  BY <2>5, <2>6
<1>9. QED  BY <1>3, <1>7, <1>8 DEF InRegister, InNoise

\* A call of AppendNoiseRegisters has no counters and no flags.
LEMMA NoiseKinds ==
    ASSUME NEW req, NEW l, NoiseInv(l, req)
    PROVE  /\ l.pc \in {"loop", "append", "cipher"}
           /\ l.pc = "loop" /\ l.jobs # << >> => Head(l.jobs).do \in {"noise", "random", "fail"}
<1>1. CASE NoiseRejected(l, req)
  BY <1>1 DEF NoiseRejected, Fail, Job
<1>2. CASE NoiseDrawn(l, req)
  <2>1. \/ l.pc = "loop" /\ l.jobs = << >>
        \/ \E randoms, p : InNoise(l, req, randoms, p)
    BY <1>2, Zenon DEF NoiseDrawn
  <2>2. ASSUME NEW randoms, NEW p, InNoise(l, req, randoms, p)
        PROVE  /\ l.pc \in {"loop", "append", "cipher"}
               /\ l.pc = "loop" /\ l.jobs # << >> => Head(l.jobs).do \in {"noise", "random"}
    BY <2>2, NoiseShape, SMTT(30) DEF InNoise
  <2>3. QED  BY <2>1, <2>2
<1>3. QED  BY <1>1, <1>2 DEF NoiseInv

LEMMA ServiceLockNoise ==
    ASSUME Inv, ServiceInv, NEW t \in Thread, LockNoise(t)
    PROVE  ServiceInv'
<1> DEFINE req == request[t]
           start == [local[t] EXCEPT !.pc = "loop", !.out = req.given]
           drawn(count) == [i \in 1 .. count |-> NoiseJobs(req.value_count)]
<1>1. /\ UNCHANGED <<request, response>> /\ req.kind = "noise" /\ At(t, "lock") /\ ~At(t, "idle")
      /\ \/ /\ req.value_count >= 1
            /\ \E count \in NoiseCount : Set(t, [start EXCEPT !.left = drawn(count)])
         \/ Set(t, [start EXCEPT !.left = <<<<Fail>>>>])
  BY DEF LockNoise, At
<1>2. req \in NoiseRequest
  BY <1>1, RequestOf
<1>3. local[t] = [Idle EXCEPT !.pc = "lock"]
  BY <1>1 DEF ServiceInv, CallInv, At
<1>4. PICK left : /\ Set(t, [start EXCEPT !.left = left])
                  /\ \/ left = <<<<Fail>>>>
                     \/ req.value_count >= 1 /\ \E count \in NoiseCount : left = drawn(count)
  BY <1>1
<1> DEFINE l == [start EXCEPT !.left = left]
<1>5. l.pc = "loop" /\ l.jobs = << >> /\ l.out = req.given /\ l.left = left
  BY <1>3 DEF Idle
<1> HIDE DEF l
<1>6. NoiseInv(l, req)
  BY <1>2, <1>4, <1>5, NoiseStart
<1>7. Set(t, l)
  BY <1>4 DEF l
<1>8. QED  BY <1>1, <1>5, <1>6, <1>7, ServiceNoising

LEMMA ServiceNoiseSteps ==
    ASSUME Inv, ServiceInv, NEW t \in Thread, request[t].kind = "noise", Running(t),
           NextRegister(t) \/ MapToCurve(t) \/ FlagPoint(t) \/ CallGetECPoint(t)
              \/ CacheHit(t) \/ Clamp(t) \/ Multiply(t) \/ StorePoint(t)
              \/ Encrypt(t) \/ AppendCiphertext(t)
    PROVE  ServiceInv'
<1> DEFINE l == local[t]
           req == request[t]
<1>1. /\ l \in Locals /\ Proper(l) /\ NoiseInv(l, req) /\ req \in NoiseRequest /\ ~At(t, "idle")
  BY LocalsOf, RequestOf DEF Running, At
<1>2. /\ NextRegister(t) \/ MapToCurve(t) \/ Encrypt(t) \/ AppendCiphertext(t)
      /\ UNCHANGED <<request, response>>
  <2>1. l.pc \notin {"int", "mul"} /\ ~HasJob(t, "flag") /\ ~HasJob(t, "int")
    BY <1>1, NoiseKinds DEF HasJob, At, HeadJob
  <2>2. ~(FlagPoint(t) \/ CallGetECPoint(t) \/ CacheHit(t) \/ Clamp(t) \/ Multiply(t) \/ StorePoint(t))
    BY <2>1 DEF FlagPoint, CallGetECPoint, CacheHit, Clamp, Multiply, StorePoint, CacheMiss, At
  <2>3. QED  BY <2>2 DEF NextRegister, MapToCurve, Encrypt, AppendCiphertext
<1>3. ASSUME NEW k, Set(t, k), k.pc \notin {"idle", "lock"}, NoiseInv(k, req)
      PROVE  ServiceInv'
  BY <1>1, <1>2, <1>3, ServiceNoising
<1>4. CASE NextRegister(t)
  <2> DEFINE k == [local[t] EXCEPT !.jobs = Head(local[t].left), !.left = Tail(@)]
  <2>1. Set(t, k) /\ l.pc = "loop" /\ l.jobs = << >> /\ l.left # << >>
    BY <1>4 DEF NextRegister, At
  <2>2. /\ k.pc = "loop" /\ k.jobs = Head(l.left) /\ k.left = Tail(l.left) /\ k.out = l.out
    BY <1>1, <2>1 DEF Locals
  <2> HIDE DEF k
  <2>3. NoiseInv(k, req)
    BY <1>1, <2>1, <2>2, NoiseNext
  <2>4. QED  BY <1>3, <2>1, <2>2, <2>3
<1>5. CASE MapToCurve(t)
  <2>1. l.jobs # << >> /\ l.pc = "loop" /\ HeadJob(t) = Head(l.jobs)
    BY <1>5 DEF MapToCurve, HasJob, At, HeadJob
  <2>2. HeadJob(t).do # "text"
    BY <1>1, <2>1, NoiseKinds
  <2>3. PICK point :
           /\ Encrypting(t, point)
           /\ \/ Head(l.jobs).do = "noise" /\ point = Service!NoiseId
              \/ Head(l.jobs).do = "random" /\ \E p \in RandomPoint : point = Service!Random(p)
    BY <1>5, <2>1, <2>2 DEF MapToCurve, HasJob
  <2> DEFINE pc == IF Head(l.jobs).times = 0 THEN "loop" ELSE "append"
             k == [local[t] EXCEPT !.jobs = Tail(@), !.point = point, !.pc = pc,
                                   !.times = Head(l.jobs).times]
  <2>4. Set(t, k)
    BY <2>1, <2>3 DEF Encrypting
  <2>5. /\ k.pc = pc /\ k.times = Head(l.jobs).times /\ k.point = point
        /\ k.jobs = Tail(l.jobs) /\ k.left = l.left /\ k.out = l.out
    BY <1>1 DEF Locals
  <2> HIDE DEF k
  <2>6. NoiseInv(k, req)
    BY <1>1, <2>1, <2>3, <2>5, NoiseByRun
  <2>7. QED  BY <1>3, <2>4, <2>5, <2>6
<1>6. CASE Encrypt(t)
  <2> DEFINE k == [local[t] EXCEPT !.pc = "cipher"]
  <2>1. Set(t, k) /\ l.pc = "append"
    BY <1>6 DEF Encrypt, At
  <2>2. /\ k.pc = "cipher" /\ k.jobs = l.jobs /\ k.left = l.left /\ k.out = l.out
        /\ k.point = l.point /\ k.times = l.times
    BY <1>1, <2>1 DEF Locals
  <2> HIDE DEF k
  <2>3. NoiseInv(k, req)
    BY <1>1, <2>1, <2>2, NoiseByEncrypt
  <2>4. QED  BY <1>3, <2>1, <2>2, <2>3
<1>7. CASE AppendCiphertext(t)
  <2> DEFINE pc == IF l.times = 1 THEN "loop" ELSE "append"
             k == [local[t] EXCEPT !.out = Append(@, scratch), !.times = @ - 1, !.pc = pc]
  <2>1. Set(t, k) /\ l.pc = "cipher" /\ scratch = l.point
    BY <1>7 DEF AppendCiphertext, At, LastOfRun, Inv, ScratchUndisturbed
  <2>2. /\ k.pc = pc /\ k.jobs = l.jobs /\ k.left = l.left
        /\ k.out = Append(l.out, l.point) /\ k.point = l.point /\ k.times = l.times - 1
    BY <1>1, <2>1 DEF Locals
  <2> HIDE DEF k
  <2>3. NoiseInv(k, req)
    BY <1>1, <2>1, <2>2, NoiseByPoint
  <2>4. QED  BY <1>3, <2>1, <2>2, <2>3
<1>8. QED  BY <1>2, <1>4, <1>5, <1>6, <1>7

(***************************************************************************)
(* What a call returns.                                                    *)
(***************************************************************************)
\* An encryption that comes to its end is that of the sketch.
LEMMA EncryptAtEnd ==
    ASSUME NEW l \in Locals, NEW m \in Nat, NEW req, EncryptInv(l, req, m),
           l.pc = "loop", l.jobs = << >>, l.left = << >>
    PROVE  Service!Valid(req) /\ l.out = FlattenSeq(EncodedRegisters(req, m))
<1>1. ~EncryptFails(l)
  BY DEF EncryptFails, Failing
<1>2. Service!Valid(req) /\ EncryptSound(l, req, m)
  BY <1>1 DEF EncryptInv
<1>3. OwedBy(l, m) = << >>
  <2>1. RunLeft(l) = << >> /\ Owed(l.jobs, m) = << >> /\ FlattenSeq(OwedByEach(l.left, m)) = << >>
    BY OwedNothing, OwedLaterNothing DEF RunLeft
  <2>2. Cat(<< >>, Cat(<< >>, << >>)) = << >>
    BY DEF Cat
  <2>3. QED  BY <2>1, <2>2, Zenon DEF OwedBy
<1>4. Cat(l.out, << >>) = l.out
  BY OwedTypes, CatEmpty
<1>5. QED  BY <1>2, <1>3, <1>4, Zenon DEF EncryptSound

LEMMA ServiceReturnOk ==
    ASSUME Inv, ServiceInv, NEW t \in Thread, ReturnOk(t)
    PROVE  ServiceInv'
<1> DEFINE res == Service!OK(request[t], local[t].out)
<1>1. Running(t) /\ ~At(t, "idle")
  BY DEF ReturnOk, Running, At
<1>2. AnswerInv(res, max_counter_value)
  <2>1. CASE request[t].kind = "encrypt"
    <3>1. /\ Service!Valid(request[t]) /\ request[t] \in EncryptRequest
          /\ local[t].out = FlattenSeq(EncodedRegisters(request[t], max_counter_value))
      BY <1>1, <2>1, LocalsOf, RequestOf, EncryptAtEnd DEF ReturnOk, At
    <3>2. QED  BY <3>1 DEF AnswerInv, Service!OK
  <2>2. CASE request[t].kind # "encrypt"
    BY <2>2 DEF AnswerInv, Service!OK
  <2>3. QED  BY <2>1, <2>2
<1>3. QED  BY <1>2, ServiceReturn DEF ReturnOk

LEMMA ServiceReturnError ==
    ASSUME Inv, ServiceInv, NEW t \in Thread, FailJob(t) \/ ZeroError(t) \/ CryptoError(t)
    PROVE  ServiceInv'
<1>1. \A out : AnswerInv(Service!Error(request[t], out), max_counter_value)
  BY DEF AnswerInv, Service!Error
<1>2. QED  BY <1>1, ServiceReturn DEF FailJob, ZeroError, CryptoError, ReturnError

LEMMA NextService == Inv /\ ServiceInv /\ [Next]_vars => ServiceInv'
<1> SUFFICES ASSUME Inv, ServiceInv, [Next]_vars PROVE ServiceInv'
  OBVIOUS
<1>1. CASE UNCHANGED vars
  <2>1. UNCHANGED <<local, request, response, max_counter_value>>
    BY <1>1 DEF vars
  <2>2. QED  BY <2>1 DEF ServiceInv
<1>2. ASSUME NEW t \in Thread, Step(t) PROVE ServiceInv'
  <2>1. CASE LockEncrypt(t) \/ LockNoise(t)
    BY <2>1, ServiceLockEncrypt, ServiceLockNoise
  <2>2. CASE ReturnOk(t) \/ FailJob(t) \/ ZeroError(t) \/ CryptoError(t)
    BY <2>2, ServiceReturnOk, ServiceReturnError
  <2>3. CASE \/ NextRegister(t) \/ MapToCurve(t) \/ FlagPoint(t) \/ CallGetECPoint(t)
             \/ CacheHit(t) \/ Clamp(t) \/ Multiply(t) \/ StorePoint(t)
             \/ Encrypt(t) \/ AppendCiphertext(t)
    <3>1. Running(t) /\ ~At(t, "idle")
      BY <2>3 DEF NextRegister, MapToCurve, FlagPoint, CallGetECPoint, CacheHit, Clamp, Multiply,
         StorePoint, Encrypt, AppendCiphertext, CacheMiss, HasJob, Running, At
    <3>2. request[t].kind \in {"encrypt", "noise"}
      BY <3>1, RequestOf
    <3>3. QED  BY <2>3, <3>1, <3>2, ServicePoints, ServiceSteps, ServiceNoiseSteps
  <2>4. QED  BY <1>2, <2>1, <2>2, <2>3 DEF Step
<1>3. QED  BY <1>1, <1>2, ServiceCall DEF Next

(***************************************************************************)
(* A running call has put out the points of whole registers, and what is   *)
(* left to append completes them to an answer of the service: the loops of *)
(* sketch_encrypter.cc between two steps, and every response they gave.    *)
(***************************************************************************)
THEOREM ServiceInvCorrect == Spec => [](Inv /\ ServiceInv)
BY InitInv, NextInv, InitService, NextService, PTL DEF Spec

\* Noise that was begun can be completed.
LEMMA NoiseExtends ==
    ASSUME NEW req \in NoiseRequest, req.value_count \in Nat, NEW n \in Nat, NEW count \in Nat,
           n <= count, NEW randoms \in [1 .. n -> RandomPoint]
    PROVE  \E full \in [1 .. count -> RandomPoint] :
              /\ NoiseAfter(req, full) \in Seq(Point)
              /\ BeginningOf(NoiseAfter(req, randoms), NoiseAfter(req, full), Point)
<1> DEFINE w == req.value_count
           full == [i \in 1 .. count |-> IF i <= n THEN randoms[i] ELSE CHOOSE p \in RandomPoint : TRUE]
           runs == NoiseRuns(w, full)
<1>1. full \in [1 .. count -> RandomPoint] /\ \A i \in 1 .. n : full[i] = randoms[i]
  BY ServiceAssumption
<1>2. count - n \in Nat /\ n + (count - n) = count
  OBVIOUS
<1> HIDE DEF full
<1>3. /\ runs \in [1 .. n + (count - n) -> Seq(Point)]
      /\ Service!NoiseRegisters(w, full) \in Seq(Point)
      /\ Service!NoiseRegisters(w, randoms) \in Seq(Point)
  BY <1>1, <1>2, NoiseType
<1>4. [i \in 1 .. n |-> runs[i]] = NoiseRuns(w, randoms)
  <2>1. \A i \in 1 .. n : i \in 1 .. count
    OBVIOUS
  <2>2. QED  BY <1>1, <2>1 DEF NoiseRuns
<1>5. BeginningOf(Service!NoiseRegisters(w, randoms), Service!NoiseRegisters(w, full), Point)
  <2> HIDE DEF runs
  <2>1. BeginningOf(FlattenSeq([i \in 1 .. n |-> runs[i]]), FlattenSeq(runs), Point)
    BY <1>2, <1>3, FlattenBegins
  <2> USE DEF runs
  <2>2. QED  BY <1>4, <2>1, NoiseFlattens, Zenon
<1>6. PICK b \in Seq(Point) :
         Service!NoiseRegisters(w, full) = Cat(Service!NoiseRegisters(w, randoms), b)
  BY <1>5 DEF BeginningOf
<1>7. NoiseAfter(req, full) = Cat(NoiseAfter(req, randoms), b)
  BY <1>3, <1>6, GivenType, CatAssociative DEF NoiseAfter
<1>8. NoiseAfter(req, full) \in Seq(Point)
  BY <1>3, GivenType, CatType DEF NoiseAfter
<1>9. QED  BY <1>1, <1>7, <1>8 DEF BeginningOf

\* What a call that is not rejected has in its string: all that was given,
\* and a beginning of complete noise.
LEMMA NoiseBegun ==
    ASSUME NEW req \in NoiseRequest, NEW l, NoiseInv(l, req), ~NoiseRejected(l, req)
    PROVE  \E count \in NoiseCount : \E full \in [1 .. count -> RandomPoint] :
              /\ l.out \in Seq(Point) /\ NoiseAfter(req, full) \in Seq(Point)
              /\ BeginningOf(req.given, l.out, Point)
              /\ BeginningOf(l.out, NoiseAfter(req, full), Point)
<1>1. req.value_count \in Nat /\ req.value_count >= 1 /\ NoiseDrawn(l, req)
  BY GivenType DEF NoiseInv
<1> DEFINE w == req.value_count
           id == <<Service!NoiseId>>
<1>2. ASSUME NEW count \in NoiseCount, NEW n \in Nat, n <= count,
             NEW randoms \in [1 .. n -> RandomPoint],
             l.out \in Seq(Point), BeginningOf(req.given, l.out, Point),
             NoiseAfter(req, randoms) \in Seq(Point),
             BeginningOf(l.out, NoiseAfter(req, randoms), Point)
      PROVE  \E full \in [1 .. count -> RandomPoint] :
                /\ l.out \in Seq(Point) /\ NoiseAfter(req, full) \in Seq(Point)
                /\ BeginningOf(req.given, l.out, Point)
                /\ BeginningOf(l.out, NoiseAfter(req, full), Point)
  <2>1. count \in Nat
    BY ServiceAssumption
  <2>2. PICK full \in [1 .. count -> RandomPoint] :
            /\ NoiseAfter(req, full) \in Seq(Point)
            /\ BeginningOf(NoiseAfter(req, randoms), NoiseAfter(req, full), Point)
    BY <1>1, <1>2, <2>1, NoiseExtends
  <2>3. BeginningOf(l.out, NoiseAfter(req, full), Point)
    BY <1>2, <2>2, BeginningThrough
  <2>4. QED  BY <1>2, <2>2, <2>3
<1>3. ASSUME NEW n \in Nat, NEW randoms \in [1 .. n -> RandomPoint]
      PROVE  LET before == NoiseAfter(req, randoms) IN
             before \in Seq(Point) /\ BeginningOf(req.given, before, Point)
  <2>1. Service!NoiseRegisters(w, randoms) \in Seq(Point) /\ req.given \in Seq(Point)
    BY <1>1, NoiseType, GivenType
  <2>2. QED  BY <2>1, CatType DEF NoiseAfter, BeginningOf
<1>4. CASE \E count, done, randoms : /\ count \in NoiseCount /\ done \in 0 .. count
                                     /\ randoms \in [1 .. done -> RandomPoint]
                                     /\ l.out = NoiseAfter(req, randoms)
  <2>1. PICK count, done, randoms : /\ count \in NoiseCount /\ done \in 0 .. count
                                    /\ randoms \in [1 .. done -> RandomPoint]
                                    /\ l.out = NoiseAfter(req, randoms)
    BY <1>4
  <2>2. done \in Nat /\ done <= count
    BY <2>1, ServiceAssumption
  <2>3. l.out \in Seq(Point) /\ BeginningOf(req.given, l.out, Point)
    BY <1>3, <2>1, <2>2
  <2>4. BeginningOf(l.out, NoiseAfter(req, randoms), Point)
    BY <2>1, <2>3, BeginningMore
  <2>5. QED  BY <1>2, <2>1, <2>2, <2>3, <2>4
<1>5. CASE \E count, done, randoms, p : InRegister(l, req, count, done, randoms, p)
  <2>1. PICK count, done, randoms, p : InRegister(l, req, count, done, randoms, p)
    BY <1>5
  <2> DEFINE before == NoiseAfter(req, randoms)
             points == Service!Repeat(Service!Random(p), w)
             more == Extended(randoms, done, p)
  <2>2. /\ count \in NoiseCount /\ done \in Nat /\ done + 1 \in Nat /\ done + 1 <= count
        /\ randoms \in [1 .. done -> RandomPoint] /\ p \in RandomPoint
    BY <2>1 DEF InRegister
  <2>3. /\ before \in Seq(Point) /\ id \in Seq(Point) /\ points \in Seq(Point)
        /\ Service!Random(p) \in Point
        /\ more \in [1 .. done + 1 -> RandomPoint] /\ NoiseAfter(req, more) \in Seq(Point)
        /\ NoiseAfter(req, more) = Cat(Cat(before, id), points)
    BY <1>1, <2>2, NoiseAfterMore
  <2>4. BeginningOf(req.given, before, Point) /\ req.given \in Seq(Point)
    BY <1>3, <2>2, GivenType
  <2>5. CASE l.out = before
    <3>1. done \in 0 .. count
      BY <2>1 DEF InRegister
    <3>2. QED  BY <1>4, <2>2, <2>5, <3>1
  <2>6. CASE l.out = Cat(before, id)
    <3> HIDE DEF before, id, points, more
    <3>1. l.out \in Seq(Point)
      BY <2>3, <2>6, CatType
    <3>2. BeginningOf(req.given, l.out, Point)
      BY <2>3, <2>4, <2>6, BeginningMore
    <3>3. BeginningOf(l.out, NoiseAfter(req, more), Point)
      BY <2>3, <2>6 DEF BeginningOf
    <3>4. QED  BY <1>2, <2>2, <2>3, <3>1, <3>2, <3>3
  <2>7. CASE /\ l.times \in 1 .. w
             /\ l.out = Cat(Cat(before, id), Service!Repeat(Service!Random(p), w - l.times))
    <3> DEFINE some == Service!Repeat(Service!Random(p), w - l.times)
               others == Service!Repeat(Service!Random(p), l.times)
    <3>1. /\ some \in Seq(Point) /\ others \in Seq(Point) /\ points = Cat(some, others)
      <4>1. w - l.times \in Nat /\ l.times \in Nat /\ w = (w - l.times) + l.times
        BY <1>1, <2>7
      <4>2. QED  BY <2>3, <4>1, RepeatType, RepeatParts
    <3> HIDE DEF before, id, points, more, some, others
    <3>2. Cat(before, id) \in Seq(Point) /\ BeginningOf(req.given, Cat(before, id), Point)
      BY <2>3, <2>4, BeginningMore, CatType
    <3>3. l.out = Cat(Cat(before, id), some)
      BY <2>7 DEF some
    <3>4. l.out \in Seq(Point) /\ BeginningOf(req.given, l.out, Point)
      BY <2>4, <3>1, <3>2, <3>3, BeginningMore, CatType
    <3>5. Cat(Cat(before, id), Cat(some, others)) = Cat(Cat(Cat(before, id), some), others)
      BY <3>1, <3>2, CatAssociative
    <3>6. BeginningOf(l.out, NoiseAfter(req, more), Point)
      BY <2>3, <3>1, <3>3, <3>5 DEF BeginningOf
    <3>7. QED  BY <1>2, <2>2, <2>3, <3>4, <3>6
  <2>8. QED  BY <2>1, <2>5, <2>6, <2>7 DEF InRegister, InNoise
<1>6. CASE l.jobs # << >> \/ l.pc # "loop"
  BY <1>5, <1>6, NoiseInside
<1>7. CASE l.jobs = << >> /\ l.pc = "loop"
  <2>1. \A randoms, p : ~InNoise(l, req, randoms, p)
    BY <1>7, NoiseShape DEF InNoise
  <2>2. QED  BY <1>1, <1>4, <2>1, Zenon DEF NoiseDrawn
<1>8. QED  BY <1>6, <1>7

\* Noise that comes to its end is complete.
LEMMA NoiseAtEnd ==
    ASSUME NEW req \in NoiseRequest, NEW l, NoiseInv(l, req),
           l.pc = "loop", l.jobs = << >>, l.left = << >>
    PROVE  /\ req.value_count >= 1
           /\ \E count \in NoiseCount : \E randoms \in [1 .. count -> RandomPoint] :
                 l.out = NoiseAfter(req, randoms)
<1>1. ~NoiseRejected(l, req)
  BY DEF NoiseRejected
<1>2. \A randoms, p : ~InNoise(l, req, randoms, p)
  BY NoiseShape DEF InNoise
<1>3. PICK count, done, randoms :
          /\ count \in NoiseCount /\ done \in 0 .. count /\ randoms \in [1 .. done -> RandomPoint]
          /\ l.left = [i \in 1 .. count - done |-> NoiseJobs(req.value_count)]
          /\ l.out = NoiseAfter(req, randoms)
  BY <1>1, <1>2 DEF NoiseInv, NoiseDrawn
<1>4. count = done
  <2>1. count \in Nat /\ done \in Nat /\ count - done \in Nat
    BY <1>3, ServiceAssumption
  <2>2. DOMAIN l.left = 1 .. count - done /\ DOMAIN l.left = {}
    <3>1. \A k, x : DOMAIN [i \in 1 .. k |-> x] = 1 .. k
      OBVIOUS
    <3>2. DOMAIN l.left = {}
      OBVIOUS
    <3>3. QED  BY <1>3, <3>1, <3>2, Zenon
  <2>3. \A n \in Nat : 1 .. n = {} => n = 0
    OBVIOUS
  <2>4. count - done = 0
    BY <2>1, <2>2, <2>3, Zenon
  <2>5. QED  BY <2>1, <2>4
<1>5. QED  BY <1>1, <1>3, <1>4 DEF NoiseInv

(***************************************************************************)
(* The refinement.  A maximum of SIZE_MAX wraps: with it, counters cannot  *)
(* be encrypted and calls of valid sketches fail, which EncryptionService  *)
(* allows only when the operations of the curve may fail.                  *)
(***************************************************************************)
WrapMayFail == Word - 1 \in MaxCounterValue => CryptoMayFail

\* The answers to Encrypt.
LEMMA OkIsAnswer ==
    ASSUME Inv, ServiceInv, NEW t \in Thread, ReturnOk(t)
    PROVE  Service!Answer(request[t], Service!OK(request[t], local[t].out))
<1> DEFINE req == request[t]
           l == local[t]
           m == max_counter_value
           res == Service!OK(req, l.out)
<1>1. Running(t) /\ ~At(t, "idle") /\ l.pc = "loop" /\ l.jobs = << >> /\ l.left = << >>
  BY DEF ReturnOk, Running, At
<1>2. CASE req.kind = "encrypt"
  <2>1. Service!Valid(req) /\ l.out = FlattenSeq(EncodedRegisters(req, m))
    BY <1>1, <1>2, LocalsOf, RequestOf, EncryptAtEnd
  <2>2. l.out = Service!EncodedSketch(req)
    BY <2>1, EncodedSketchAt, Zenon
  <2>3. Service!EncryptAnswer(req, res)
    BY <2>1, <2>2, Zenon DEF Service!EncryptAnswer
  <2>4. QED  BY <1>2, <2>3, Zenon DEF Service!Answer
<1>3. CASE req.kind = "noise"
  <2>1. req \in NoiseRequest /\ NoiseInv(l, req)
    BY <1>1, <1>3, RequestOf, RequestAssumption
  <2>2. req.value_count >= 1
    BY <1>1, <2>1, NoiseAtEnd
  <2>3. PICK count \in NoiseCount : \E randoms \in [1 .. count -> RandomPoint] :
            l.out = NoiseAfter(req, randoms)
    BY <1>1, <2>1, NoiseAtEnd
  <2>4. PICK randoms \in [1 .. count -> RandomPoint] : l.out = NoiseAfter(req, randoms)
    BY <2>3
  <2>5. l.out = req.given \o Service!NoiseRegisters(req.value_count, randoms)
    BY <2>4, Zenon DEF NoiseAfter, Cat
  <2>6. Service!NoiseAnswer(req, res)
    BY <2>2, <2>5, Zenon DEF Service!NoiseAnswer
  <2>7. QED  BY <1>3, <2>6, Zenon DEF Service!Answer
<1>4. QED  BY <1>1, <1>2, <1>3, RequestOf

LEMMA NoiseErrorIsAnswer ==
    ASSUME NEW req \in NoiseRequest, NEW l, NoiseInv(l, req)
    PROVE  Service!Answer(req, Service!Error(req, l.out))
<1> DEFINE res == Service!Error(req, l.out)
<1>0. req.kind = "noise" /\ req.given \in Seq(Point) /\ res.out = l.out /\ req.value_count \in Int
  BY GivenType DEF Service!Error
<1>1. \A p, s \in Seq(Point) : BeginningOf(p, s, Point) => Service!IsPrefix(p, s)
  BY BeginningIsPrefix DEF Service!IsPrefix
<1> HIDE DEF res
<1>2. ASSUME req.value_count >= 1,
             NEW count \in NoiseCount, NEW full \in [1 .. count -> RandomPoint],
             l.out \in Seq(Point), NoiseAfter(req, full) \in Seq(Point),
             BeginningOf(req.given, l.out, Point),
             BeginningOf(l.out, NoiseAfter(req, full), Point)
      PROVE  Service!NoiseAnswer(req, res)
  <2>1. Service!IsPrefix(req.given, l.out)
    BY <1>0, <1>1, <1>2
  <2>2. Service!IsPrefix(l.out, req.given \o Service!NoiseRegisters(req.value_count, full))
    <3>1. Service!IsPrefix(l.out, NoiseAfter(req, full))
      BY <1>1, <1>2
    <3>2. QED  BY <3>1, Zenon DEF NoiseAfter, Cat
  <2>3. res = Service!Error(req, res.out)
    BY <1>0, Zenon DEF res
  <2>4. QED  BY <1>0, <1>2, <2>1, <2>2, <2>3, Zenon DEF Service!NoiseAnswer
<1>3. CASE NoiseRejected(l, req)
  <2>1. l.out = req.given
    BY <1>3 DEF NoiseRejected
  <2>2. CASE req.value_count < 1
    <3>1. Service!NoiseAnswer(req, res)
      BY <2>1, <2>2, Zenon DEF Service!NoiseAnswer, res
    <3>2. QED  BY <1>0, <3>1, Zenon DEF Service!Answer, res
  <2>3. CASE req.value_count >= 1
    <3>1. PICK count \in NoiseCount : count \in Nat
      BY ServiceAssumption
    <3> DEFINE none == [i \in 1 .. 0 |-> CHOOSE p \in RandomPoint : TRUE]
    <3>2. none \in [1 .. 0 -> RandomPoint]
      OBVIOUS
    <3>3. NoiseAfter(req, none) = req.given
      <4> HIDE DEF none
      <4>1. Service!NoiseRegisters(req.value_count, none) = << >>
        BY <3>2, NoNoise
      <4>2. QED  BY <4>1, GivenType, CatEmpty DEF NoiseAfter
    <3> HIDE DEF none
    <3>4. PICK full \in [1 .. count -> RandomPoint] :
              /\ NoiseAfter(req, full) \in Seq(Point)
              /\ BeginningOf(NoiseAfter(req, none), NoiseAfter(req, full), Point)
      <4>1. req.value_count \in Nat /\ 0 \in Nat /\ 0 <= count
        BY <1>0, <2>3, <3>1
      <4>2. QED  BY <3>1, <3>2, <4>1, NoiseExtends
    <3>5. BeginningOf(req.given, l.out, Point) /\ BeginningOf(l.out, NoiseAfter(req, full), Point)
      BY <1>0, <2>1, <3>3, <3>4, BeginningMore
    <3>6. Service!NoiseAnswer(req, res)
      BY <1>0, <1>2, <2>1, <2>3, <3>1, <3>4, <3>5
    <3>7. QED  BY <1>0, <3>6, Zenon DEF Service!Answer, res
  <2>4. QED  BY <1>0, <2>2, <2>3
<1>4. CASE ~NoiseRejected(l, req)
  <2>1. req.value_count >= 1
    BY <1>4 DEF NoiseInv
  <2>2. Service!NoiseAnswer(req, res)
    BY <1>2, <1>4, <2>1, NoiseBegun
  <2>3. QED  BY <1>0, <2>2, Zenon DEF Service!Answer, res
<1>5. QED  BY <1>3, <1>4

\* A call of Encrypt that fails had a reason to.
LEMMA EncryptErrorIsAnswer ==
    ASSUME WrapMayFail, Inv, ServiceInv, NEW t \in Thread, request[t].kind = "encrypt",
           FailJob(t) \/ ZeroError(t) \/ CryptoError(t)
    PROVE  Service!Answer(request[t], Service!Error(request[t], << >>))
<1> DEFINE req == request[t]
           l == local[t]
           m == max_counter_value
<1>1. Running(t) /\ ~At(t, "idle")
  BY DEF FailJob, ZeroError, CryptoError, CacheMiss, HasJob, Running, At
<1>2. /\ l \in Locals /\ Proper(l) /\ EncryptInv(l, req, m) /\ m \in Nat /\ m <= Word - 1
      /\ m \in MaxCounterValue
  BY <1>1, LocalsOf, RequestOf DEF Inv, SharedInv
<1>3. ASSUME Service!Valid(req), l.jobs # << >> PROVE SoundJob(HeadJob(t))
  <2>1. l.jobs \in Seq(ProperJob)
    BY <1>2, OwedTypes
  <2>2. 1 \in DOMAIN l.jobs /\ HeadJob(t) = l.jobs[1]
    <3> HIDE DEF ProperJob
    <3>1. QED  BY <1>3, <2>1 DEF HeadJob
  <2>3. QED  BY <1>2, <1>3, <2>2 DEF EncryptInv, EncryptSound, SoundJobs
<1>4. ~Service!Valid(req) \/ CryptoMayFail
  <2>1. CASE FailJob(t)
    BY <1>3, <2>1 DEF FailJob, HasJob, SoundJob
  <2>2. CASE ZeroError(t)
    <3> SUFFICES ASSUME Service!Valid(req) PROVE CryptoMayFail
      OBVIOUS
    <3>1. l.pc = "int" /\ l.n = 0 /\ l.jobs # << >> /\ Converts(l, m)
      BY <1>2, <2>2 DEF ZeroError, CacheMiss, At, Proper, EncryptInv
    <3>2. HeadJob(t).do = "int" /\ HeadJob(t).arg > 0
      BY <1>3, <3>1 DEF SoundJob, Converts, HeadJob
    <3>3. Limit(m) = 0
      BY <3>1, <3>2 DEF Converts, HeadJob
    <3>4. m = Word - 1
      <4>1. Limit(m) = IF m = Word - 1 THEN 0 ELSE m + 1
        BY <1>2, LimitIs
      <4>2. QED  BY <1>2, <3>3, <4>1
    <3>5. QED  BY <1>2, <3>4 DEF WrapMayFail
  <2>3. CASE CryptoError(t)
    BY <2>3 DEF CryptoError
  <2>4. QED  BY <2>1, <2>2, <2>3
<1>5. Service!EncryptAnswer(req, Service!Error(req, << >>))
  BY <1>4, Zenon DEF Service!EncryptAnswer
<1>6. QED  BY <1>5, Zenon DEF Service!Answer

LEMMA ReturnResponds ==
    ASSUME Inv, NEW t \in Thread, NEW res, Return(t, res), Service!Answer(request[t], res)
    PROVE  Service!Respond(t)
<1>1. /\ response' = [response EXCEPT ![t] = res] /\ response'[t] = res
      /\ request' = [request EXCEPT ![t] = Service!None]
      /\ UNCHANGED max_counter_value
  BY DEF Return, Set, Inv, CallsInv
<1>2. QED  BY <1>1, Zenon DEF Service!Respond

LEMMA InitRefines == Init => Service!Init
BY DEF Init, Service!Init

LEMMA NextRefines ==
    ASSUME WrapMayFail, Inv, ServiceInv, [Next]_vars
    PROVE  [Service!Next]_<<max_counter_value, request, response>>
<1>1. CASE UNCHANGED vars
  BY <1>1 DEF vars
<1>2. ASSUME NEW t \in Thread, NEW req \in EncryptRequest \cup NoiseRequest, Call(t, req)
      PROVE  Service!Next
  <2>1. request[t] = Service!None
    BY <1>2 DEF Call, At, ServiceInv, CallInv
  <2>2. Service!Call(t, req)
    BY <1>2, <2>1 DEF Service!Call, Call, Set
  <2>3. QED  BY <2>2, Zenon DEF Service!Next, Service!Request
<1>3. ASSUME NEW t \in Thread, Step(t)
      PROVE  Service!Next \/ UNCHANGED <<max_counter_value, request, response>>
  <2>1. CASE ReturnOk(t)
    <3>1. Service!Respond(t)
      BY <2>1, OkIsAnswer, ReturnResponds DEF ReturnOk
    <3>2. QED  BY <3>1, Zenon DEF Service!Next
  <2>2. CASE FailJob(t) \/ ZeroError(t) \/ CryptoError(t)
    <3> DEFINE out == IF request[t].kind = "encrypt" THEN << >> ELSE local[t].out
    <3>1. Running(t) /\ ~At(t, "idle") /\ Return(t, Service!Error(request[t], out))
      BY <2>2 DEF FailJob, ZeroError, CryptoError, ReturnError, CacheMiss, HasJob, Running, At
    <3>2. Service!Answer(request[t], Service!Error(request[t], out))
      <4>1. CASE request[t].kind = "encrypt"
        BY <2>2, <4>1, EncryptErrorIsAnswer
      <4>2. CASE request[t].kind # "encrypt"
        <5>1. request[t] \in NoiseRequest /\ NoiseInv(local[t], request[t])
          BY <3>1, <4>2, RequestOf
        <5>2. QED  BY <4>2, <5>1, NoiseErrorIsAnswer
      <4>3. QED  BY <4>1, <4>2
    <3> HIDE DEF out
    <3>3. Service!Respond(t)
      BY <3>1, <3>2, ReturnResponds
    <3>4. QED  BY <3>3, Zenon DEF Service!Next
  <2>3. CASE \/ LockEncrypt(t) \/ LockNoise(t) \/ NextRegister(t) \/ MapToCurve(t)
             \/ FlagPoint(t) \/ CallGetECPoint(t) \/ CacheHit(t) \/ Clamp(t) \/ Multiply(t)
             \/ StorePoint(t) \/ Encrypt(t) \/ AppendCiphertext(t)
    BY <2>3 DEF LockEncrypt, LockNoise, NextRegister, MapToCurve, FlagPoint, CallGetECPoint,
       CacheHit, Clamp, Multiply, StorePoint, Encrypt, AppendCiphertext, Encrypting, Set
  <2>4. QED  BY <1>3, <2>1, <2>2, <2>3 DEF Step
<1>4. QED  BY <1>1, <1>2, <1>3 DEF Next

(***************************************************************************)
(* Whatever the threads that share the object, its caches and its          *)
(* failures: every call answers as EncryptionService promises.             *)
(***************************************************************************)
THEOREM ImplementsService == ASSUME WrapMayFail PROVE Spec => Implements
<1>1. Inv /\ ServiceInv /\ [Next]_vars
         => [Service!Next]_<<max_counter_value, request, response>>
  BY NextRefines
<1>2. QED
  BY InitRefines, ServiceInvCorrect, <1>1, PTL DEF Spec, Implements, Service!Spec

(***************************************************************************)
(* Conflicting keys.                                                       *)
(***************************************************************************)
\* What a register destroyed by conflicting keys is encoded as.
LEMMA ConflictingEncoding ==
    ASSUME NEW req \in EncryptRequest, NEW reg \in [index : Int, values : Seq(Int)],
           NEW m \in Nat \ {0},
           IsRegisterDestroyed(reg, req.aggregators), req.strategy = "CONFLICTING_KEYS"
    PROVE  LET e == Encoded(reg, req, m) IN
           /\ e \in Seq(Point)
           /\ \E i, j \in 1 .. Len(e) - 1 :
                 e[i] = Text(reg.index) /\ e[j] = Text(reg.index) /\ e[i + 1] # e[j + 1]
<1> DEFINE w == Len(reg.values)
           head == <<Text(reg.index)>>
           ones == Service!Repeat(Counter(1, m), w)
           twos == Service!Repeat(Counter(2, m), w)
           first == Cat(head, ones)
           second == Cat(head, twos)
<1>1. w \in Nat /\ w >= 1
  BY DEF IsRegisterDestroyed
<1>2. Counter(1, m) = Times(1) /\ Counter(2, m) = Times(2)
  BY DEF Counter, Service!Smaller
<1>3. Times(1) # Times(2) /\ Times(1) \in Point /\ Times(2) \in Point /\ Text(reg.index) \in Point
  BY DEF Times, Text, Point
<1>4. head \in Seq(Point) /\ ones \in Seq(Point) /\ twos \in Seq(Point)
  BY <1>1, <1>2, <1>3, RepeatType
<1>5. /\ Len(ones) = w /\ Len(twos) = w /\ ones[1] = Times(1) /\ twos[1] = Times(2)
  BY <1>1, <1>2 DEF Service!Repeat
<1>6. Len(head) = 1 /\ head[1] = Text(reg.index)
  OBVIOUS
<1>7. Encoded(reg, req, m) = Cat(Cat(Cat(head, ones), head), twos)
  <2>1. req.strategy # "FLAGGED_KEY"
    OBVIOUS
  <2>2. QED  BY <2>1, SameDestroyed, Zenon DEF Encoded, Cat
<1> HIDE DEF head, ones, twos
<1>8. Encoded(reg, req, m) = Cat(first, second)
  BY <1>4, <1>7, CatType, CatAssociative
<1>9. /\ first \in Seq(Point) /\ Len(first) = w + 1
      /\ first[1] = Text(reg.index) /\ first[2] = Times(1)
  <2>1. /\ Cat(head, ones) \in Seq(Point) /\ Len(Cat(head, ones)) = 1 + w
        /\ \A i \in 1 .. 1 : Cat(head, ones)[i] = head[i]
        /\ \A i \in 1 .. w : Cat(head, ones)[1 + i] = ones[i]
    <3>1. Cat(head, ones) \in Seq(Point) /\ Joined(Cat(head, ones), head, ones)
      BY <1>4, CatElements, Zenon
    <3>2. QED  BY <1>5, <1>6, <3>1, Zenon DEF Joined
  <2>2. 1 \in 1 .. 1 /\ 1 \in 1 .. w /\ 1 + 1 = 2 /\ 1 + w = w + 1
    BY <1>1
  <2>3. QED  BY <1>5, <1>6, <2>1, <2>2
<1>10. /\ second \in Seq(Point) /\ Len(second) = w + 1
       /\ second[1] = Text(reg.index) /\ second[2] = Times(2)
  <2>1. /\ Cat(head, twos) \in Seq(Point) /\ Len(Cat(head, twos)) = 1 + w
        /\ \A i \in 1 .. 1 : Cat(head, twos)[i] = head[i]
        /\ \A i \in 1 .. w : Cat(head, twos)[1 + i] = twos[i]
    <3>1. Cat(head, twos) \in Seq(Point) /\ Joined(Cat(head, twos), head, twos)
      BY <1>4, CatElements, Zenon
    <3>2. QED  BY <1>5, <1>6, <3>1, Zenon DEF Joined
  <2>2. 1 \in 1 .. 1 /\ 1 \in 1 .. w /\ 1 + 1 = 2 /\ 1 + w = w + 1
    BY <1>1
  <2>3. QED  BY <1>5, <1>6, <2>1, <2>2
<1> HIDE DEF first, second
<1>11. PICK e \in Seq(Point) : e = Cat(first, second)
  BY <1>9, <1>10, CatType
<1>12. /\ Len(e) = (w + 1) + (w + 1)
       /\ e[1] = Text(reg.index) /\ e[2] = Times(1)
       /\ e[w + 2] = Text(reg.index) /\ e[w + 3] = Times(2)
  <2>1. /\ Len(e) = (w + 1) + (w + 1)
        /\ \A i \in 1 .. w + 1 : e[i] = first[i]
        /\ \A i \in 1 .. w + 1 : e[(w + 1) + i] = second[i]
    <3>1. Joined(e, first, second)
      BY <1>9, <1>10, <1>11, CatElements, Zenon
    <3>2. QED  BY <1>9, <1>10, <3>1, Zenon DEF Joined
  <2>2. /\ 1 \in 1 .. w + 1 /\ 2 \in 1 .. w + 1
        /\ (w + 1) + 1 = w + 2 /\ (w + 1) + 2 = w + 3
    BY <1>1
  <2>3. QED  BY <1>9, <1>10, <2>1, <2>2
<1>13. 1 \in 1 .. Len(e) - 1 /\ w + 2 \in 1 .. Len(e) - 1 /\ (w + 2) + 1 = w + 3
  BY <1>1, <1>12
<1>14. \E i, j \in 1 .. Len(e) - 1 :
           e[i] = Text(reg.index) /\ e[j] = Text(reg.index) /\ e[i + 1] # e[j + 1]
  <2>1. e[1 + 1] # e[(w + 2) + 1]
    BY <1>3, <1>12, <1>13
  <2>2. QED  BY <1>12, <1>13, <2>1
<1>15. QED  BY <1>8, <1>11, <1>14

\* What a register is encoded as when its sketch is valid.
LEMMA EncodedType ==
    ASSUME NEW req \in EncryptRequest, NEW m \in Nat, Service!Valid(req)
    PROVE  /\ Len(req.registers) \in Nat
           /\ \A r \in DOMAIN req.registers : req.registers[r] \in [index : Int, values : Seq(Int)]
           /\ EncodedRegisters(req, m) \in [1 .. Len(req.registers) -> Seq(Point)]
<1>1. /\ Len(req.registers) \in Nat /\ DOMAIN req.registers = 1 .. Len(req.registers)
      /\ \A r \in DOMAIN req.registers : req.registers[r] \in [index : Int, values : Seq(Int)]
  <2>1. req.registers \in Seq([index : Int, values : Seq(Int)])
    BY RequestAssumption
  <2>2. QED  BY <2>1, SequenceElements, Zenon
<1>2. ASSUME NEW r \in DOMAIN req.registers
      PROVE  Encoded(req.registers[r], req, m) \in Seq(Point)
  <2> DEFINE reg == req.registers[r]
  <2>1. reg \in [index : Int, values : Seq(Int)] /\ RegisterValid(reg, req)
    BY <1>1, ValidByRegister
  <2> HIDE DEF reg
  <2>2. Encoded(reg, req, m) = Owed(RegisterJobs(reg, req), m)
    BY <2>1, SoundRegisterOwes, DestroyedRegisterOwes
  <2>3. Owed(RegisterJobs(reg, req), m) \in Seq(Point)
    BY <2>1, RegisterJobsProper, RunsType
  <2>4. QED  BY <2>2, <2>3 DEF reg
<1>3. QED  BY <1>1, <1>2 DEF EncodedRegisters

(***************************************************************************)
(* A register that was destroyed stays destroyed: in every answer its two  *)
(* registers of the same index have different counters.  With a maximum of *)
(* zero both would be the same counter, so that such maxima are excluded.  *)
(***************************************************************************)
THEOREM ConflictingKeysCorrect ==
    ASSUME 0 \notin MaxCounterValue PROVE Spec => []ConflictingKeysDiffer
<1>1. Inv /\ ServiceInv => ConflictingKeysDiffer
  <2> SUFFICES ASSUME Inv, ServiceInv PROVE ConflictingKeysDiffer
    OBVIOUS
  <2> SUFFICES ASSUME NEW res \in Responses("encrypt"), res.of.strategy = "CONFLICTING_KEYS",
                      NEW reg \in Range(res.of.registers),
                      IsRegisterDestroyed(reg, res.of.aggregators)
               PROVE  \E i, j \in 1 .. Len(res.out) - 1 :
                         /\ res.out[i] = Text(reg.index) /\ res.out[j] = Text(reg.index)
                         /\ res.out[i + 1] # res.out[j + 1]
    BY Zenon DEF ConflictingKeysDiffer
  <2>0. PICK t \in Thread : res = response[t] /\ res.of.kind = "encrypt" /\ res.status = "Ok"
    BY DEF Responses
  <2> DEFINE req == res.of
             m == max_counter_value
             each == EncodedRegisters(req, m)
  <2>1. m \in Nat \ {0} /\ m \in Nat
    BY ServiceAssumption DEF Inv, SharedInv
  <2>2. /\ req \in EncryptRequest /\ Service!Valid(req)
        /\ res.out = FlattenSeq(each)
    BY <2>0 DEF ServiceInv, AnswerInv
  <2>3. PICK r \in DOMAIN req.registers : reg = req.registers[r]
    BY DEF Range
  <2>4. /\ Len(req.registers) \in Nat /\ each \in [1 .. Len(req.registers) -> Seq(Point)]
        /\ reg \in [index : Int, values : Seq(Int)]
    BY <2>1, <2>2, <2>3, EncodedType
  <2>5. each[r] = Encoded(reg, req, m) /\ r \in 1 .. Len(req.registers)
    <3>1. r \in DOMAIN each
      BY <2>3 DEF EncodedRegisters
    <3>2. QED  BY <2>3, <2>4, <3>1 DEF EncodedRegisters
  <2>6. each[r] \in Seq(Point) /\ \E i, j \in 1 .. Len(each[r]) - 1 :
            /\ each[r][i] = Text(reg.index) /\ each[r][j] = Text(reg.index)
            /\ each[r][i + 1] # each[r][j + 1]
    <3>1. LET e == Encoded(reg, req, m) IN
          /\ e \in Seq(Point)
          /\ \E i, j \in 1 .. Len(e) - 1 :
                e[i] = Text(reg.index) /\ e[j] = Text(reg.index) /\ e[i + 1] # e[j + 1]
      BY <2>1, <2>2, <2>4, ConflictingEncoding
    <3>2. QED  BY <2>5, <3>1, Zenon
  <2> HIDE DEF each
  <2>7. PICK p \in Seq(Point), out \in Seq(Point) : p = each[r] /\ out = FlattenSeq(each)
    BY <2>4, <2>6, FlattenType
  <2>8. PartOf(p, out, Point)
    <3>1. PartOf(each[r], FlattenSeq(each), Point)
      BY <2>4, <2>5, FlattenParts
    <3>2. QED  BY <2>7, <3>1
  <2>9. PICK n \in Nat : /\ n + Len(p) <= Len(out)
                         /\ \A k \in 1 .. Len(p) : out[n + k] = p[k]
    <3>1. Within(p, out)
      BY <2>8, PartElements, Zenon
    <3>2. QED  BY <3>1 DEF Within
  <2>10. PICK i \in 1 .. Len(p) - 1, j \in 1 .. Len(p) - 1 :
             p[i] = Text(reg.index) /\ p[j] = Text(reg.index) /\ p[i + 1] # p[j + 1]
    BY <2>6, <2>7
  <2>11. /\ i \in 1 .. Len(p) /\ i + 1 \in 1 .. Len(p) /\ j \in 1 .. Len(p) /\ j + 1 \in 1 .. Len(p)
         /\ n + i \in 1 .. Len(out) - 1 /\ n + j \in 1 .. Len(out) - 1
         /\ (n + i) + 1 = n + (i + 1) /\ (n + j) + 1 = n + (j + 1)
    <3>1. Len(p) \in Nat /\ Len(out) \in Nat /\ n + Len(p) <= Len(out)
      BY <2>9
    <3>2. i \in Nat /\ i >= 1 /\ i <= Len(p) - 1 /\ j \in Nat /\ j >= 1 /\ j <= Len(p) - 1
      BY <3>1
    <3> HIDE <2>9
    <3>3. QED  BY <3>1, <3>2
  <2>12. /\ out[n + i] = p[i] /\ out[n + j] = p[j]
         /\ out[(n + i) + 1] = p[i + 1] /\ out[(n + j) + 1] = p[j + 1]
    BY <2>9, <2>11
  <2>13. \E x, y \in 1 .. Len(out) - 1 :
             out[x] = Text(reg.index) /\ out[y] = Text(reg.index) /\ out[x + 1] # out[y + 1]
    BY <2>10, <2>11, <2>12
  <2>14. QED  BY <2>2, <2>7, <2>13 DEF each
<1>2. QED  BY ServiceInvCorrect, <1>1, PTL
=============================================================================
