\* Two threads, every kind of call, curve operations that may fail; the maximum
\* is an ordinary one or the largest size_t.
SPECIFICATION FairSpec
CONSTANTS
    Thread = {t1, t2}
    Requests = {"counts", "keys", "flags", "nothing", "zero", "unset", "other", "narrow"}
    EncryptRequest <- MCEncryptRequest
    NoiseRequest <- MCNoiseRequest
    MaxCounterValue = {3, 15}
    Word = 16
    NoiseCount = {0, 1}
    RandomPoint = {1, 2}
    CryptoMayFail = TRUE
INVARIANTS
    TypeOK
    Exclusive
    ScratchUndisturbed
    CacheSound
    ConflictingKeysDiffer
    CountersClamped
PROPERTIES
    Implements
    CallsReturn
