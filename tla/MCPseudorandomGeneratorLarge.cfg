\* A modulus above half the range of an unsigned int.
SPECIFICATION FairSpec
CONSTANTS
    Generator = {dealer, helper}
    Stream <- FourBytes
    Script <- LargeModulusScript
    ByteBits = 2
    WordBits = 5
PROPERTIES
    CallsReturn
CHECK_DEADLOCK FALSE
