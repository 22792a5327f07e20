\* Every request over small rings, and every pair of vectors and seeds.
SPECIFICATION SharedFairSpec
CONSTANTS
    Dealer = dealer
    Helper = helper
    Party = {dealer, helper}
    Stream <- MCStream
    ShareRequest <- MCRequest
    Modulus = {0, 2, 3, 4}
    ByteBits = 2
    WordBits = 5
    SharedSeed = {"s3", "short key"}
    Vector <- MCVector
    Element <- Words
    Input <- MCInput
    Seed <- MCSeed
    ValidSeed <- MCValidSeed
    Rand <- MCRand
    RandRange = 16
INVARIANTS
    TypeOK
    Rearranged
    FailureKeepsData
    SameSeedSameOrder
    SwapsDecideOrder
    SharesReconstruct
    ShuffledSharesReconstruct
PROPERTIES
    SharingEnds
CHECK_DEADLOCK FALSE
