\* Two generators with one seed, streams with a period of four bytes.
SPECIFICATION FairSpec
CONSTANTS
    Generator = {dealer, helper}
    Stream <- FourBytes
    Script <- MCScript
    ByteBits = 2
    WordBits = 5
INVARIANTS
    TypeOK
    RequestedValues
    SameSeedSameResults
    RangeFiltersStream
    BytesAreStream
PROPERTIES
    CallsReturn
CHECK_DEADLOCK FALSE
