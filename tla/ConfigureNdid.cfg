SPECIFICATION Spec
CONSTANTS
    Partners = {a, b}
    HicannPages = 1
    TracePages = 2048
    None = None
    Nodes = {{0}, {1}}
    MaxCalls = 2
    MaxFaults = 0
INVARIANTS NdidIsNodeId
