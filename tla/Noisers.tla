------------------------------ MODULE Noisers ------------------------------
(***************************************************************************)
(* math/distributed_geometric_noiser.cc and                                *)
(* math/distributed_discrete_gaussian_noiser.cc: GenerateNoiseComponent of *)
(* the two noisers, one call at a time, and the options that               *)
(* math/noise_parameters_computation.cc makes for them.  Each draws until  *)
(* a number lies within the truncation threshold; the geometric noiser     *)
(* gives up after kMaximumAttempts_ draws, the Gaussian one never does.    *)
(*                                                                         *)
(* The distributions are sets of what they may draw.  p is the probability *)
(* in per cent, for which only "between 0 and 1" matters, or NaN, which    *)
(* compares with nothing (an epsilon that is NaN makes it one).            *)
(***************************************************************************)
EXTENDS Integers

CONSTANTS
    NoiseOptions,     \* the options of noisers that are called directly
    Polya,            \* what GetPolyaRandomVariable may draw
    Geometric,        \* what a draw of geometric_distribution may be
    MaximumAttempts,  \* kMaximumAttempts_
    NaN,              \* the double that is not a number
    IntMax            \* the largest int

Probability == Int \cup {NaN}
Options == [kind : {"geometric", "gaussian"}, contributor_count : Int, p : Probability,
            truncate_threshold : Int, shift_offset : Int]

ASSUME NoisersAssumption ==
    /\ NoiseOptions \subseteq Options
    /\ Polya \subseteq Nat /\ Geometric \subseteq Nat
    /\ MaximumAttempts \in Nat \ {0}
    /\ IntMax \in Nat /\ NaN \notin Int

\* A double that becomes an int: undefined beyond the range, where processors
\* give the largest int or the smallest, and for a NaN also zero.
AnyInt == -IntMax - 1 .. IntMax
ToInt(x) == IF x \in AnyInt THEN {x} ELSE {IntMax, -IntMax - 1, 0}

\* params holds what the formulas make of epsilon, delta and the count: p, and
\* mu before it becomes an int.  Nothing but assertions restricts epsilon and
\* delta, so that mu may be negative, or no int: a NaN counts as too large.
PublisherOptions(kind, count, params) ==
    {[kind |-> kind, contributor_count |-> count, p |-> params.p,
      truncate_threshold |-> mu, shift_offset |-> mu] : mu \in ToInt(params.mu)}

\* Mutant of GetGeometricPublisherNoiseOptions: no room below the offset.
PublisherNoiseOptionsTwice(params) ==
    {[options EXCEPT !.truncate_threshold = 2 * @] :
       options \in PublisherOptions("geometric", 1, params)}

GetGeometricPublisherNoiseOptions(params) == PublisherOptions("geometric", 1, params)

GetDiscreteGaussianPublisherNoiseOptions(params, contributor_count) ==
    PublisherOptions("gaussian", contributor_count, params)

VARIABLE noise   \* the call of GenerateNoiseComponent: its locals, then its result

\* options: contributor_count, p, truncate_threshold, shift_offset and the kind.
\* pc: polya_a, polya_b (the two loops), gaussian, bernoulli (the Gaussian loop)
\* or a status.
NoiseResults == {"Ok", "InvalidArgument", "Internal"}
NoNoise == [pc |-> "none"]

NoiseInit == noise = NoNoise
NoiseAt(pc) == noise.pc = pc
NoiseFails(status) == noise' = [noise EXCEPT !.pc = status]

GenerateNoiseComponent(options) ==
    noise' = [pc |-> "call", options |-> options, attempts |-> 0, polya_a |-> 0, value |-> 0]

RejectContributors ==
    /\ NoiseAt("call")
    /\ noise.options.kind = "geometric" /\ noise.options.contributor_count < 1
    /\ NoiseFails("InvalidArgument")

AcceptsContributors ==
    noise.options.kind = "geometric" => noise.options.contributor_count >= 1

SeedError == NoiseAt("call") /\ AcceptsContributors /\ NoiseFails("Internal")

\* The check of both noisers, whose comparisons are false for a NaN.
OutOfUnit(p) == p # NaN /\ (p <= 0 \/ p >= 100)

RejectP ==
    /\ NoiseAt("call") /\ AcceptsContributors /\ OutOfUnit(noise.options.p)
    /\ NoiseFails("InvalidArgument")

StartDrawing ==
    /\ NoiseAt("call") /\ AcceptsContributors /\ ~OutOfUnit(noise.options.p)
    /\ noise' = [noise EXCEPT !.pc =
                   IF noise.options.kind = "geometric" THEN "polya_a" ELSE "gaussian"]

\* A negative threshold means no truncation.
Truncates == noise.options.truncate_threshold >= 0
TooLarge(polya) == Truncates /\ polya > noise.options.truncate_threshold

KeepPolya(polya) ==
    \/ /\ NoiseAt("polya_a")
       /\ noise' = [noise EXCEPT !.pc = "polya_b", !.polya_a = polya, !.attempts = 0]
    \/ /\ NoiseAt("polya_b")
       /\ noise' = [noise EXCEPT !.pc = "Ok",
                      !.value = noise.options.shift_offset + noise.polya_a - polya]

\* Mutant of NextAttempt: the attempts are counted, but never run out.
EndlessAttempt == (noise.attempts + 1) % MaximumAttempts

NextAttempt == noise.attempts + 1

\* Mutant of MayRetry: one attempt too many.
MayRetryOnceMore == NextAttempt <= MaximumAttempts

MayRetry == NextAttempt < MaximumAttempts

\* Mutant of GiveUp: the last of the allowed draws is taken as it is.
GiveUpKeeping(polya) == KeepPolya(polya)

GiveUp(polya) == NoiseFails("Internal")

RetryPolya(polya) ==
    /\ TooLarge(polya)
    /\ \/ MayRetry /\ noise' = [noise EXCEPT !.attempts = NextAttempt]
       \/ ~MayRetry /\ GiveUp(polya)

\* Distributions with a NaN for a parameter return whatever they return.
Drawn == IF noise.options.p = NaN THEN AnyInt ELSE Polya

GetTruncatedPolyaRandomVariable ==
    /\ NoiseAt("polya_a") \/ NoiseAt("polya_b")
    /\ \E polya \in Drawn : (~TooLarge(polya) /\ KeepPolya(polya)) \/ RetryPolya(polya)

InThreshold(y) ==
    Truncates => /\ y >= -noise.options.truncate_threshold
                 /\ y <= noise.options.truncate_threshold

\* A turn of the while loop: y is drawn, then the binomial variable ...
DrawGaussian ==
    /\ NoiseAt("gaussian")
    /\ \E a, b \in Geometric : noise' = [noise EXCEPT !.pc = "bernoulli", !.value = a - b]

\* ... which is 1, and y is in range, or another turn follows.
AcceptGaussian ==
    /\ NoiseAt("bernoulli") /\ InThreshold(noise.value)
    /\ noise' = [noise EXCEPT !.pc = "Ok", !.value = noise.options.shift_offset + noise.value]

RejectGaussian == NoiseAt("bernoulli") /\ noise' = [noise EXCEPT !.pc = "gaussian", !.value = 0]

NoiseStep ==
    \/ RejectContributors \/ SeedError \/ RejectP \/ StartDrawing
    \/ GetTruncatedPolyaRandomVariable
    \/ DrawGaussian \/ AcceptGaussian \/ RejectGaussian

\* What the locals of a call may hold.
NoiseLocals ==
    [pc : NoiseResults \cup {"call", "polya_a", "polya_b", "gaussian", "bernoulli"},
     options : Options, attempts : 0 .. MaximumAttempts - 1, polya_a : Int, value : Int]

(***************************************************************************)
(* A component lies within the threshold around the offset, whichever of   *)
(* the bounded number of attempts gave its two variables (the geometric    *)
(* and the Gaussian test measure the smallest and the largest component).  *)
(* The check of p is meant to keep it between 0 and 1 and lets a NaN pass, *)
(* of whose draws nothing is known.                                        *)
(***************************************************************************)
NoiseInRange ==
    NoiseAt("Ok") /\ Truncates /\ noise.options.p # NaN =>
        /\ noise.value >= noise.options.shift_offset - noise.options.truncate_threshold
        /\ noise.value <= noise.options.shift_offset + noise.options.truncate_threshold
=============================================================================
