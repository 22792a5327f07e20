CONSTANTS
    Worker <- Workers
    WorkerKey <- Keys
    Order = 7
    MaxKeys = 3
    MaxCombined = 2
    NoiseOptions <- OptionsOfCallers
    Polya <- Draws
    Geometric <- Draws
    MaximumAttempts = 2
    NaN = NaN
    IntMax = 3
    EncryptSketchRequest <- Requests
    Word = 16
    RandomPoint = {r1}
SPECIFICATION FairSpec
INVARIANTS
    TypeOK
    CombinedIsSum
    WorkersCanDecrypt
    NoiseInRange
    SketchThenNoise
PROPERTY
    CallsReturn
