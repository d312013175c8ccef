CONSTANTS
    Threads = {t1, t2}
    Fences = {f1}
    NoFence = NoFence
    MaxLayers = 2
SYMMETRY Symmetry
SPECIFICATION Spec
INVARIANT FailedCallsCloseTheirFence
