\* Every staircase of up to 3 steps over a 5 bit word, at every target.
SPECIFICATION FairSpec
CONSTANTS
    Word = 32
    MaxValue = 3
    Function <- MCFunction
    Target <- MCTarget
    Registers = 3
    Rate <- MCRate
    Precision = 8
    Scale <- MCScale
INVARIANTS
    TypeOK
    SearchInterval
    InverseWithinOne
    EstimateWithinOne
PROPERTIES
    Terminates
CHECK_DEADLOCK FALSE
