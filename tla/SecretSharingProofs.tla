------------------------ MODULE SecretSharingProofs ------------------------
(***************************************************************************)
(* The two shares of a frequency vector add up to it, for vectors of any   *)
(* length, every stream a seed may stand for and every ring whose elements *)
(* the generator does not read beyond its batches.  Secret sharing runs    *)
(* the generator, so what is proved of the generator holds of it.          *)
(***************************************************************************)
EXTENDS SecretSharing, PseudorandomGeneratorProofs

\* Subtracting and adding in the ring cancel out; nothing wraps in a word.
LEMMA SubModAddsBack ==
    ASSUME NEW m \in 0 .. Word - 1, NEW x \in Nat, NEW y \in Nat, NEW d \in SubMod(x, y, m)
    PROVE  x < m /\ y < m /\ d \in 0 .. m - 1 /\ ((d + y) % m) = x
<1>1. x < m /\ y < m /\ m \in Nat /\ m > 0 /\ Word \in Nat
  BY GeneratorAssumption DEF SubMod
<1> DEFINE e == x - y + (IF x < y THEN 1 ELSE 0) * m
<1>2. e \in 0 .. m - 1
  BY <1>1
<1>3. (e % Word) = e
  BY <1>2, <1>1
<1>4. d = e
  BY <1>1, <1>3 DEF SubMod
<1>5. ((e + y) % m) = x
  <2>1. CASE x < y
    <3>1. e + y = x + 1 * m
      BY <2>1, <1>1
    <3>2. ((x + 1 * m) % m) = x
      BY <1>1
    <3> QED  BY <3>1, <3>2
  <2>2. CASE ~(x < y)
    <3>1. e + y = x /\ (x % m) = x
      BY <2>2, <1>1
    <3> QED  BY <3>1
  <2> QED  BY <2>1, <2>2
<1> QED  BY <1>1, <1>2, <1>4, <1>5
-----------------------------------------------------------------------------
(***************************************************************************)
(* Secret sharing implements the generator: its own steps are stutters.    *)
(***************************************************************************)
LEMMA StartsGenerator == ASSUME SharingAssumption, SharingInit PROVE Init
BY DEF SharingAssumption, SharingInit, Init

LEMMA StepsGenerator == ASSUME SharingAssumption, [SharingNext]_shareVars PROVE [Next]_vars
BY DEF SharingAssumption, SharingNext, DealerStep, RejectRequest, NoRandomness, ExpandFirstShare,
       SubtractFirstShare, ExpandSeed, Answer, Next, shareVars

LEMMA SharingGenerates == ASSUME SharingAssumption PROVE SharingSpec => Spec
BY StartsGenerator, StepsGenerator, PTL DEF SharingSpec, Spec

\* A generator that has run its script is left alone.
LEMMA StepsPend == ASSUME Inv, NEW g \in Generator, GeneratorStep(g) PROVE Pending(g)
<1>1. StateInv(gen[g])
  BY DEF Inv
<1>2. gen[g].pc = "idle" \/ Pending(g)
  BY <1>1 DEF StateInv, InCall, Pending
<1> QED  BY <1>2 DEF GeneratorStep, GeneratePseudorandomBytes, InvalidCall, Begin, DrawSamples,
                 Sample, SampleBeyond, Sampling, EndSamples, RangeReturn, RangeFull, NonZeroSamples,
                 NonZeroKeep, Filtering, NonZeroEnd, NonZeroDraw, NonZeroReturn, At

LEMMA StepsKeepScript == ASSUME NEW g \in Generator, GeneratorStep(g) PROVE script' = script
BY DEF GeneratorStep, GeneratePseudorandomBytes, InvalidCall, Begin, DrawSamples, Keep, Sample,
       SampleBeyond, EndSamples, RangeReturn, NonZeroSamples, NonZeroKeep, NonZeroEnd, NonZeroDraw,
       NonZeroReturn, Respond, Step

LEMMA StepsAlone ==
    ASSUME Inv, NEW g \in Generator, NEW h \in Generator, h # g, GeneratorStep(g)
    PROVE  gen'[h] = gen[h]
BY DEF Inv, GeneratorStep, GeneratePseudorandomBytes, InvalidCall, Begin, DrawSamples, Keep,
       Sample, SampleBeyond, EndSamples, RangeReturn, NonZeroSamples, NonZeroKeep, NonZeroEnd,
       NonZeroDraw, NonZeroReturn, Respond, Step
-----------------------------------------------------------------------------
(***************************************************************************)
(* The inductive invariant: a share that was handed out is the difference  *)
(* of the data and of what the dealer's generator has returned, which does *)
(* not run again.                                                          *)
(***************************************************************************)
SharesInv ==
    /\ request \in ShareRequest
    /\ script = ExpandCall(request.data, request.ring_modulus)
    /\ share.status = "Ok" =>
          /\ Valid /\ ~Pending(Dealer) /\ ResultOf(Dealer, 1).status = "Ok"
          /\ share.share_vector = [i \in DOMAIN request.data |-> share.share_vector[i]]
          /\ \A i \in DOMAIN request.data :
                share.share_vector[i] \in
                    SubMod(request.data[i], ResultOf(Dealer, 1).values[i], request.ring_modulus)

LEMMA SharesInit == SharingInit => SharesInv
BY DEF SharingInit, SharesInv, NoShare, SecretShare

LEMMA AnswerKeeps ==
    ASSUME SharesInv, NEW status, status # "Ok", Answer(status, << >>)
    PROVE  SharesInv'
BY DEF SharesInv, Answer, SecretShare, vars

LEMMA SubtractKeeps == ASSUME SharesInv, SubtractFirstShare PROVE SharesInv'
<1> DEFINE returned == ResultOf(Dealer, 1).values
           difference == [i \in DOMAIN request.data |->
                             SubMod(request.data[i], returned[i], request.ring_modulus)]
           taken == [i \in DOMAIN request.data |-> CHOOSE d \in difference[i] : TRUE]
<1>1. CASE \/ Answer("InvalidArgument", << >>)
           \/ ResultOf(Dealer, 1).status # "Ok" /\ Answer(ResultOf(Dealer, 1).status, << >>)
  BY <1>1, AnswerKeeps
<1>2. CASE /\ Answer("Ok", taken) /\ ResultOf(Dealer, 1).status = "Ok"
           /\ \A i \in DOMAIN request.data : difference[i] # {}
  <2>1. UNCHANGED <<request, script, gen>> /\ share' = SecretShare("Ok", taken)
    BY <1>2 DEF Answer, vars
  <2>2. share'.status = "Ok" /\ share'.share_vector = taken
    BY <2>1 DEF SecretShare
  <2>3. \A i \in DOMAIN request.data : taken[i] \in difference[i]
    BY <1>2
  <2>4. \A i \in DOMAIN request.data :
           taken[i] \in SubMod(request.data[i], returned[i], request.ring_modulus)
    BY <2>3
  <2>5. Valid /\ ~Pending(Dealer)
    BY DEF SubtractFirstShare
  <2>6. taken = [i \in DOMAIN request.data |-> taken[i]]
    OBVIOUS
  <2> HIDE DEF taken
  <2>7. returned' = returned /\ ResultOf(Dealer, 1)' = ResultOf(Dealer, 1)
        /\ Valid' = Valid /\ Pending(Dealer)' = Pending(Dealer)
    BY <2>1 DEF ResultOf, Valid, Pending
  <2> QED  BY <1>2, <2>1, <2>2, <2>4, <2>5, <2>6, <2>7 DEF SharesInv
<1> QED  BY <1>1, <1>2 DEF SubtractFirstShare

LEMMA SharesStep ==
    ASSUME SharingAssumption, Inv, SharesInv, [SharingNext]_shareVars
    PROVE  SharesInv'
<1>1. CASE UNCHANGED shareVars
  BY <1>1 DEF shareVars, vars, SharesInv, Valid, Pending, ResultOf
<1>2. CASE RejectRequest \/ NoRandomness
  BY <1>2, AnswerKeeps DEF RejectRequest, NoRandomness
<1>3. CASE ExpandFirstShare
  <2>1. share' = share /\ request' = request /\ script' = script /\ share.status # "Ok"
    BY <1>3, StepsKeepScript
       DEF ExpandFirstShare, NoShare, SecretShare, SharingAssumption
  <2> QED  BY <2>1 DEF SharesInv
<1>4. CASE SubtractFirstShare
  BY <1>4, SubtractKeeps
<1>5. CASE ExpandSeed
  <2>1. share' = share /\ request' = request /\ script' = script /\ gen'[Dealer] = gen[Dealer]
    BY <1>5, StepsAlone, StepsKeepScript DEF ExpandSeed, SharingAssumption
  <2> QED  BY <2>1 DEF SharesInv, Valid, Pending, ResultOf
<1> QED  BY <1>1, <1>2, <1>3, <1>4, <1>5 DEF SharingNext, DealerStep
-----------------------------------------------------------------------------
\* A party whose generator has run the script has one result.
LEMMA OneResult ==
    ASSUME SharingAssumption, Inv, SharesInv, NEW g \in Generator, ~Pending(g)
    PROVE  1 \in Done(g) /\ AsRequested(script[1], ResultOf(g, 1))
<1>1. StateInv(gen[g]) /\ script = ExpandCall(request.data, request.ring_modulus)
  BY DEF Inv, SharesInv
<1>2. Len(script) = 1
  BY <1>1 DEF ExpandCall
<1>3. Len(gen[g].done) \in Nat /\ Len(gen[g].done) <= 1
  BY <1>1, <1>2 DEF StateInv, IsTuple
<1>4. Len(gen[g].done) = 1
  BY <1>2, <1>3, SMTT(30) DEF Pending
<1> QED  BY <1>1, <1>4 DEF StateInv, IsTuple, Done, ResultOf

\* If it is no error, it has an element of the ring for each frequency.
LEMMA Expansion ==
    ASSUME SharingAssumption, Inv, SharesInv, NEW g \in Generator, ~Pending(g),
           ResultOf(g, 1).status = "Ok"
    PROVE  /\ Len(ResultOf(g, 1).values) = Len(request.data)
           /\ \A i \in DOMAIN request.data :
                 ResultOf(g, 1).values[i] \in 0 .. request.ring_modulus - 1
<1>1. script[1] = [op |-> "range", size |-> Len(request.data), modulus |-> request.ring_modulus]
  BY DEF SharesInv, ExpandCall
<1>2. request.data \in Seq(0 .. Word - 1)
  BY DEF SharingAssumption, SharesInv
<1>3. DOMAIN request.data = 1 .. Len(request.data)
  BY <1>2
<1> QED  BY <1>1, <1>3, OneResult DEF AsRequested, Asked

\* The helper's generator returns what the dealer's has returned.
LEMMA SameExpansion ==
    ASSUME SharingAssumption, RingsFit, Inv, SameSeedSameResults, SharesInv,
           share.status = "Ok", ~Pending(Helper)
    PROVE  ResultOf(Helper, 1) = ResultOf(Dealer, 1)
<1>1. ~Pending(Dealer) /\ Dealer \in Generator /\ Helper \in Generator
  BY DEF SharesInv, SharingAssumption
<1>2. 1 \in Done(Dealer) \cap Done(Helper)
  BY <1>1, OneResult
<1>3. script[1].modulus = request.ring_modulus 
      /\ \/ request.ring_modulus <= 1 \/ BytesPerValue(request.ring_modulus) = 1
         \/ MaskRange(request.ring_modulus) = request.ring_modulus
  BY DEF SharesInv, ExpandCall, RingsFit
<1>4. WithinDraw(1)
  BY <1>3 DEF WithinDraw
<1> QED  BY <1>1, <1>2, <1>4 DEF SameSeedSameResults, ResultOf

(***************************************************************************)
(* What both parties rely on when they have their shares: vectors over the *)
(* ring, as long as the data, whose sums are the data.                     *)
(***************************************************************************)
SharesFit ==
    share.status = "Ok" =>
        /\ Len(share.share_vector) = Len(request.data)
        /\ \A i \in DOMAIN request.data :
              share.share_vector[i] \in 0 .. request.ring_modulus - 1
        /\ ~Pending(Helper) =>
              /\ Len(ResultOf(Helper, 1).values) = Len(request.data)
              /\ \A i \in DOMAIN request.data :
                    ResultOf(Helper, 1).values[i] \in 0 .. request.ring_modulus - 1

LEMMA DealerSubtracted ==
    ASSUME SharingAssumption, Inv, SharesInv, share.status = "Ok"
    PROVE  \A i \in DOMAIN request.data :
              LET y == ResultOf(Dealer, 1).values[i] IN
              /\ y \in 0 .. request.ring_modulus - 1
              /\ share.share_vector[i] \in 0 .. request.ring_modulus - 1
              /\ ((share.share_vector[i] + y) % request.ring_modulus) = request.data[i]
<1> TAKE i \in DOMAIN request.data
<1> DEFINE y == ResultOf(Dealer, 1).values[i]
<1>1. ~Pending(Dealer) /\ Dealer \in Generator /\ ResultOf(Dealer, 1).status = "Ok"
  BY DEF SharesInv, SharingAssumption
<1>2. y \in 0 .. request.ring_modulus - 1
  BY <1>1, Expansion
<1>3. request.data \in Seq(0 .. Word - 1) /\ request.ring_modulus \in 0 .. Word - 1
  BY DEF SharingAssumption, SharesInv
<1>4. request.data[i] \in 0 .. Word - 1
  <2> DEFINE S == 0 .. Word - 1
  <2> HIDE DEF S
  <2>1. \A s \in Seq(S) : \A j \in DOMAIN s : s[j] \in S
    OBVIOUS
  <2>2. request.data \in Seq(S)
    BY <1>3 DEF S
  <2> QED  BY <2>1, <2>2 DEF S
<1>5. request.data[i] \in Nat /\ y \in Nat
  BY <1>2, <1>3, <1>4, GeneratorAssumption
<1>6. share.share_vector[i] \in SubMod(request.data[i], y, request.ring_modulus)
  BY DEF SharesInv
<1> HIDE DEF y
<1>7. share.share_vector[i] \in 0 .. request.ring_modulus - 1
      /\ ((share.share_vector[i] + y) % request.ring_modulus) = request.data[i]
  BY <1>3, <1>5, <1>6, SubModAddsBack
<1> QED  BY <1>2, <1>7 DEF y

LEMMA FitCorrect ==
    ASSUME SharingAssumption, RingsFit, Inv, SameSeedSameResults, SharesInv
    PROVE  SharesFit /\ SharesReconstruct
<1> SUFFICES ASSUME share.status = "Ok" PROVE SharesFit /\ SharesReconstruct
  BY DEF SharesFit, SharesReconstruct
<1>1. request.data \in Seq(0 .. Word - 1) /\ ResultOf(Dealer, 1).status = "Ok"
      /\ Helper \in Generator
  BY DEF SharingAssumption, SharesInv
<1>2. DOMAIN request.data = 1 .. Len(request.data) /\ Len(request.data) \in Nat
  BY <1>1
<1>3. Len(share.share_vector) = Len(request.data)
  <2>1. share.share_vector = [i \in 1 .. Len(request.data) |-> share.share_vector[i]]
    BY <1>2 DEF SharesInv
  <2>2. share.share_vector \in [1 .. Len(request.data) -> 0 .. request.ring_modulus - 1]
    BY <2>1, <1>2, DealerSubtracted
  <2> QED  BY <2>2, <1>2, FunctionIsSequence
<1>4. ASSUME ~Pending(Helper)
      PROVE  /\ ResultOf(Helper, 1) = ResultOf(Dealer, 1)
             /\ Len(ResultOf(Helper, 1).values) = Len(request.data)
             /\ \A i \in DOMAIN request.data :
                   ResultOf(Helper, 1).values[i] \in 0 .. request.ring_modulus - 1
  BY <1>1, <1>4, SameExpansion, Expansion
<1>5. SharesFit
  BY <1>3, <1>4, DealerSubtracted DEF SharesFit
<1>6. SharesReconstruct
  BY <1>1, <1>4, DealerSubtracted DEF SharesReconstruct
<1> QED  BY <1>5, <1>6

LEMMA SharingInvariant ==
    ASSUME SharingAssumption PROVE SharingSpec => [](Inv /\ SharesInv)
<1>1. SharingInit => Inv /\ SharesInv
  BY StartsGenerator, InitInv, SharesInit
<1>2. Inv /\ SharesInv /\ [SharingNext]_shareVars => Inv' /\ SharesInv'
  BY StepsGenerator, NextInv, SharesStep
<1> QED  BY <1>1, <1>2, PTL DEF SharingSpec

(***************************************************************************)
(* Whoever gets the two shares of a frequency vector recovers it, whenever *)
(* the seed is expanded: the shares add up in the ring, no difference has  *)
(* wrapped, and both generators have returned the same.                    *)
(***************************************************************************)
THEOREM ReconstructCorrect ==
    ASSUME SharingAssumption, RingsFit PROVE SharingSpec => []SharesReconstruct
<1>1. SharingSpec => []SameSeedSameResults
  BY SharingGenerates, SameSeedCorrect, PTL
<1> QED  BY <1>1, SharingInvariant, FitCorrect, PTL

(***************************************************************************)
(* The same with the invariant behind it, for the module that composes     *)
(* sharing with the shuffle: generators that keep their invariant, a share *)
(* that is the difference of the data and of what the dealer's generator   *)
(* returned, and vectors over the ring as long as the data.                *)
(***************************************************************************)
THEOREM FitsCorrect ==
    ASSUME SharingAssumption, RingsFit PROVE SharingSpec => [](Inv /\ SharesInv /\ SharesFit)
<1>1. SharingSpec => []SameSeedSameResults
  BY SharingGenerates, SameSeedCorrect, PTL
<1> QED  BY <1>1, SharingInvariant, FitCorrect, PTL
====
