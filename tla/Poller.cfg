CONSTANTS
    PacketCallers = {p1}
    ResponseCallers = {r1}
    Payloads = {1, 6}
    Classes = {"trace", "response", "unknown"}
    PayloadRange = 4
    InvalidPort = TRUE
    MaxArrivals = 2
SPECIFICATION FairSpec
INVARIANTS TypeOK PacketConservation NoLostWakeup
PROPERTIES ImplementsCounter CallsReturn DestructorReturns
CHECK_DEADLOCK FALSE
