SPECIFICATION DoorSpec
CONSTANTS
    c1 = c1  c2 = c2  c3 = c3  c4 = c4  c5 = c5  p1 = p1  p2 = p2
    Calls = {c1, c2, c3}
    Processes = {p1, p2}
    ProcOf <- MCProcOf
    Anonymous = {c3}
    Elsewhere = {}
    PerUser = 1
    QPS = 1
    Burst = 1
    Window = 2
    MaxFaults = 2
    MaxExpiries = 1
CHECK_DEADLOCK FALSE
INVARIANTS
    DoorTypeOK
    HandledOnce
    HolderIsAlone
    ReplayIsFirst
PROPERTIES
    AnswerStable
    KeyFreed
