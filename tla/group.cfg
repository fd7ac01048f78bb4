SPECIFICATION Spec
CONSTANTS
    r1 = r1  r2 = r2  r3 = r3
    u1 = u1  u2 = u2  t1 = t1  t2 = t2
    Requests = {r1, r2}
    Users = {u1}
    Tokens = {t1, t2}
    UserOf <- RetryUserOf
    TokenOf <- OwnTokenOf
    IdOf <- OwnIdOf
    Unstorable = {r2}
    Shards = 1
    ShardOf <- OneShard
    Consumers = {c1, c2}
    NoConsumer = NoConsumer
    Garbage = Garbage
    Total = 2
    Limit = 1
    MaxRetries = 1
    MaxWarms = 2
    MaxFaults = 2
    MaxStops = 1
    MaxGarbage = 0
    KeysExpire = TRUE
CHECK_DEADLOCK FALSE
SYMMETRY GroupSymmetry
INVARIANTS
    Bookkeeping
    LossNeedsExhaustion
    StockConservation
    PerUserLimit
PROPERTIES
    TokenNeverRequeued
