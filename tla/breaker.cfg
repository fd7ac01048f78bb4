SPECIFICATION BreakerSpec
CONSTANTS
    r1 = r1  r2 = r2  r3 = r3  r4 = r4  u3 = u3  u4 = u4
    u1 = u1  u2 = u2  t1 = t1  t2 = t2
    Requests = {r1, r2, r3, r4}
    Users = {u1, u2, u3, u4}
    Tokens = {t1}
    UserOf <- BuyerOf
    TokenOf <- RetryTokenOf
    IdOf <- OneIdOf
    Unstorable = {r4}
    Shards = 1
    ShardOf <- OneShard
    Consumers = {c1}
    NoConsumer = NoConsumer
    Garbage = Garbage
    Total = 4
    Limit = 1
    MaxRetries = 1
    MaxWarms = 1
    MaxFaults = 1
    MaxStops = 1
    MaxGarbage = 0
    KeysExpire = FALSE
    Volume = 3
    Ratio = 70
    MaxProbes = 1
SYMMETRY BuyerSymmetry
CHECK_DEADLOCK FALSE
INVARIANTS
    BreakerTypeOK
    DeadLetterHasCause
    NothingSlipsAway
