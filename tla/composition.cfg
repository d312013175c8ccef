CONSTANTS
    Threads = {t1, t2}
    Fences = {f1, f2, f3}
    NoFence = NoFence
    MaxLayers = 2
SYMMETRY Symmetry
SPECIFICATION Spec
INVARIANTS
    TypeOK
    ChangesAreCurrent
    FenceHasOneHolder
    FencesAreAccountedFor
PROPERTY InFlightCallsFinish
