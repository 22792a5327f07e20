\* Destroyed registers when the maximum is zero, as in a request that sets none.
SPECIFICATION Spec
CONSTANTS
    Thread = {t1, t2}
    Requests = {"keys"}
    EncryptRequest <- MCEncryptRequest
    NoiseRequest = {}
    MaxCounterValue = {0}
    Word = 16
    NoiseCount = {0, 1}
    RandomPoint = {1, 2}
    CryptoMayFail = FALSE
INVARIANTS
    ConflictingKeysDiffer
