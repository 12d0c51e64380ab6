SPECIFICATION Spec
CONSTANTS
    c1 = c1
    w1 = w1  w2 = w2
    Workers = {w1, w2}
    Claims = {c1}
    MinRate = 1
    MaxRate = 2
    MaxTime = 3
    MaxHeld = 2
    GB <- MCGB
SYMMETRY WorkerSymmetry
INVARIANTS
    TypeOK
    Capped
    InPace
    BoundedPace
PROPERTY NeverBack
