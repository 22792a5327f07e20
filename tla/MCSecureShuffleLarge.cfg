\* Vectors whose random numbers have more bytes than an int can count.
SPECIFICATION Spec
CONSTANTS
    Party = {p, q}
    Element <- MCElement
    Input <- MCInput
    Seed <- MCSeed
    ValidSeed <- MCSeed
    Rand <- MCRand
    RandRange = 4
INVARIANTS
    SwapsDecideOrder
CHECK_DEADLOCK FALSE
