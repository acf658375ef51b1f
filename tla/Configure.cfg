SPECIFICATION Spec
CONSTANTS
    Partners = {a, b}
    HicannPages = 1
    TracePages = 2048
    None = None
    Nodes = {{0}}
    MaxCalls = 3
    MaxFaults = 2
INVARIANTS NoMixedRing LagIsBroken ReturnedIsConfigured ServedIsConfigured NotifiedBeforeThreshold
SYMMETRY MCSymmetry
