\* Two workers and the metrics endpoint around one bucket.
SPECIFICATION Spec
CONSTANTS
    w1 = w1
    w2 = w2
    Workers <- MCWorkers
    Weights <- MCWeights
    Window = 1
    AlertThreshold = 2
    ResponseThreshold = 3
    MaxTime = 3
    MaxHits = 3
SYMMETRY Symmetry
CHECK_DEADLOCK FALSE
INVARIANTS
    NothingMissed
    EventTrue
PROPERTIES
    OncePerCrossing
