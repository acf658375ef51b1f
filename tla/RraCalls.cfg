SPECIFICATION HostFairSpec
CONSTANTS
    Registers = {id, r}
    Values = {u, v}
    IdRegister = id
    Rounds = 20
    MaxCalls = 3
    MaxFaults = 1
INVARIANTS TypeOK NothingLeftBehind CompletedReadReturnsRegister CompletedWriteTakesEffect
PROPERTIES PingReturns CallsReturn
CHECK_DEADLOCK FALSE
