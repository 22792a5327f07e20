--------------------------- MODULE Distributions ---------------------------
(***************************************************************************)
(* The distributions of any_sketch/distributions.cc: a deterministic map   *)
(* from an item and its metadata to a number between a minimum and a       *)
(* maximum, or an error.                                                   *)
(*                                                                         *)
(* A StatusOr<int64_t> is a set with at most one element: {v} is the value *)
(* v, {} an error.  An item is a record [fingerprint, metadata]: the only  *)
(* things the distributions look at are the 64-bit fingerprints that their *)
(* fingerprinters make of its bytes, and the features found in its         *)
(* metadata (a partial function from feature names to integers).           *)
(***************************************************************************)
EXTENDS Integers, FiniteSetsExt

CONSTANTS
    FingerprintBits,   \* width of a fingerprint: 64 in the code
    ExpBucket          \* ExpBucket[n][fp]: floor(x * n) of ExponentialDistribution

(***************************************************************************)
(* FingerprintBits is a power of two because CountTrailingZeros halves it. *)
(* The floating point arithmetic of the exponential distribution is not    *)
(* modelled: ExpBucket is any table with the facts that the code's formula *)
(* gives: it grows with the fingerprint, starts at 0, and reaches n itself *)
(* for the largest fingerprint, where u is exactly 1.0.                    *)
(***************************************************************************)
MaxFingerprint == 2 ^ FingerprintBits - 1

ASSUME FingerprintBitsAssumption ==
    FingerprintBits \in {1, 2, 4, 8, 16, 32, 64}

ASSUME ExpBucketAssumption ==
    \A n \in DOMAIN ExpBucket :
        LET bucket == ExpBucket[n] IN
        /\ bucket \in [0 .. MaxFingerprint -> 0 .. n]
        /\ bucket[0] = 0 /\ bucket[MaxFingerprint] = n
        /\ \A f \in 1 .. MaxFingerprint : bucket[f - 1] <= bucket[f]

GetOracleDistribution(feature_name, min_value, max_value) ==
    [kind |-> "oracle", feature |-> feature_name, min |-> min_value, max |-> max_value]
GetUniformDistribution(fingerprinter, min_value, max_value) ==
    [kind |-> "uniform", fingerprinter |-> fingerprinter, min |-> min_value, max |-> max_value]
GetExponentialDistribution(fingerprinter, n) ==
    [kind |-> "exponential", fingerprinter |-> fingerprinter, min |-> 0, max |-> n - 1]
GetGeometricDistribution(fingerprinter, min_value, max_value) ==
    [kind |-> "geometric", fingerprinter |-> fingerprinter, min |-> min_value, max |-> max_value]

size(d) == d.max - d.min + 1

\* The positions of the one bits of n.
OneBits(n) == {b \in 0 .. FingerprintBits - 1 : (n \div 2 ^ b) % 2 = 1}

(***************************************************************************)
(* CountTrailingZeros on the set of one bits of n.  n & (~n + 1) keeps the *)
(* lowest one.  The mask tested before "c -= w" has a one at every         *)
(* position whose bit of weight w is zero: 0x00000000FFFFFFFF for w = 32   *)
(* down to 0x5555555555555555 for w = 1.  With fewer than 64 bits only the *)
(* smaller masks remain.                                                   *)
(***************************************************************************)
LowestBit(bits) == {b \in bits : \A c \in bits : b <= c}

\* The mask that tests bit w of a position.
Mask(w) == {b \in 0 .. FingerprintBits - 1 : (b \div w) % 2 = 0}

Halving(bits, w) ==
    IF w < FingerprintBits /\ bits \cap Mask(w) # {} THEN w ELSE 0

Counted(bits) ==
    FingerprintBits - 1
    - Halving(bits, 32) - Halving(bits, 16) - Halving(bits, 8)
    - Halving(bits, 4) - Halving(bits, 2) - Halving(bits, 1)

CountTrailingZeros(bits) ==
    IF bits = {} THEN FingerprintBits ELSE Counted(LowestBit(bits))

(***************************************************************************)
(* CountTrailingZeros returns the position of the lowest one bit of every  *)
(* fingerprint, whatever is above it, and the width for zero.              *)
(***************************************************************************)
TrailingZerosCounted ==
    \A n \in 0 .. MaxFingerprint :
        LET bits == OneBits(n) IN
        /\ bits = {} => CountTrailingZeros(bits) = FingerprintBits
        /\ \A lowest \in bits :
              (\A b \in bits : lowest <= b) => CountTrailingZeros(bits) = lowest

\* OracleDistribution: the value found in the metadata.
OracleApply(d, item) ==
    {item.metadata[f] : f \in {d.feature} \cap DOMAIN item.metadata}

\* UniformDistribution.
UniformApply(d, fingerprint) == {(fingerprint % size(d)) + d.min}

\* ExponentialDistribution.
ExponentialApply(d, fingerprint) == {ExpBucket[size(d)][fingerprint]}

\* GeometricDistribution.
GeometricApply(d, fingerprint) ==
    {Min({d.max, d.min + CountTrailingZeros(OneBits(fingerprint))})}

\* FingerprintingDistribution hands the fingerprint of its own fingerprinter on.
Fingerprint(d, item) == item.fingerprint[d.fingerprinter]

ApplyInternal(d, item) ==
    CASE d.kind = "oracle"      -> OracleApply(d, item)
      [] d.kind = "uniform"     -> UniformApply(d, Fingerprint(d, item))
      [] d.kind = "exponential" -> ExponentialApply(d, Fingerprint(d, item))
      [] d.kind = "geometric"   -> GeometricApply(d, Fingerprint(d, item))

\* Mutant of Apply: the range is not checked.
ApplyUnchecked(d, item) == ApplyInternal(d, item)

\* Apply: a value outside the declared range is an error, not a value.
Apply(d, item) == ApplyInternal(d, item) \cap (d.min .. d.max)

(***************************************************************************)
(* All the distributions of a list applied in order, as GetIndex and       *)
(* Insert do: the vector of values, or an error as soon as one fails.      *)
(***************************************************************************)
ApplyAll(ds, item) ==
    IF \E k \in DOMAIN ds : Apply(ds[k], item) = {} THEN {}
    ELSE {[k \in DOMAIN ds |-> CHOOSE v \in Apply(ds[k], item) : TRUE]}
=============================================================================
