\* A ring that needs two bytes per element and is no power of two.
SPECIFICATION SharingSpec
CONSTANTS
    Generator = {dealer, helper}
    Dealer = dealer
    Helper = helper
    Stream <- MCStream
    Script <- MCScript
    ShareRequest <- MCRequest
    ByteBits = 2
    WordBits = 5
INVARIANTS
    SharesReconstruct
CHECK_DEADLOCK FALSE
