\* Indexes whose second distribution is larger than the first.
SPECIFICATION Spec
CONSTANTS
    FingerprintBits = 8
    ExpBucket <- MCExpBucket
    Sketch = {"a", "b", "n"}
    IndexDists <- SwappedIndexDists
    ValueFunctions <- MCValueFunctions
    Item <- SpreadItem
    RawContribution <- MCRawContribution
    MergeList <- MCMergeList
    Word = 256
    MaxContent = 3
INVARIANTS
    OneVectorPerRegister
