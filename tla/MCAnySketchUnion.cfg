\* Merges of sketches of sets of items.
SPECIFICATION Spec
CONSTANTS
    FingerprintBits = 8
    ExpBucket <- MCExpBucket
    Sketch = {"a", "b", "n"}
    IndexDists <- MCIndexDists
    ValueFunctions <- MCValueFunctions
    Item <- MCItem
    RawContribution = {}
    MergeList <- MCMergeList
    Word = 256
    MaxContent = 3
PROPERTIES
    MergeIsUnion
