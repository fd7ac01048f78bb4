SPECIFICATION DoorSpec
CONSTANTS
    c1 = c1  c2 = c2  c3 = c3  c4 = c4  c5 = c5  p1 = p1  p2 = p2
    Calls = {c1, c2, c3, c4, c5}
    Processes = {p1, p2}
    ProcOf <- MCProcOf
    Anonymous = {}
    Elsewhere = {c1, c2, c3, c4, c5}
    PerUser = 2
    QPS = 1
    Burst = 2
    Window = 2
    MaxFaults = 1
    MaxExpiries = 1
CHECK_DEADLOCK FALSE
INVARIANTS
    MinuteBound
    CounterKept
PROPERTIES
    CounterEnds
