\* The sketch operations on three sketches, at most MaxContent contributions each.
SPECIFICATION Spec
CONSTANTS
    FingerprintBits = 8
    ExpBucket <- MCExpBucket
    Sketch = {"a", "b", "n"}
    IndexDists <- MCIndexDists
    ValueFunctions <- MCValueFunctions
    Item <- MCItem
    RawContribution <- MCRawContribution
    MergeList <- MCMergeList
    Word = 256
    MaxContent = 3
INVARIANTS
    TypeOK
    UniqueSound
    SumConserved
    ContentDecidesRegisters
    OneVectorPerRegister
    MergeExactlyOnce
