SPECIFICATION Spec
CONSTANTS
    r1 = r1  r2 = r2  r3 = r3  r4 = r4
    t1 = t1  t2 = t2  p1 = p1  p2 = p2
    Requests = {r1, r2, r3, r4}
    UserOf <- MCUserOf
    TokenOf <- MCTokenOf
    Processes = {p1, p2}
    ProcOf <- MCProcOf
    MaxInt = 15
    Total = 2
    DBCount = 3
    MaxClock = 3
    MaxFaults = 2
CHECK_DEADLOCK FALSE
INVARIANTS
    TypeOK
    UnitsAddUp
    ReadYourOrder
    IdsIncrease
    DuplicateHasCause
    ShardExists
PROPERTIES
    ImplementsSale
