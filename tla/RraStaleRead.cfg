SPECIFICATION Spec
CONSTANTS
    Registers = {id, r}
    Values = {u, v}
    IdRegister = id
    Rounds = 20
    MaxCalls = 3
    MaxFaults = 0
INVARIANT ReadReturnsRegister
CHECK_DEADLOCK FALSE
