SPECIFICATION Spec
CONSTANTS
    r1 = r1  r2 = r2  r3 = r3
    u1 = u1  u2 = u2  t1 = t1  t2 = t2
    Requests = {r1}
    Users = {u1}
    Tokens = {t1}
    UserOf <- RetryUserOf
    TokenOf <- RetryTokenOf
    IdOf <- OwnIdOf
    Unstorable = {}
    Shards = 1
    ShardOf <- OneShard
    Consumers = {c1}
    NoConsumer = NoConsumer
    Garbage = Garbage
    Total = 1
    Limit = 1
    MaxRetries = 3
    MaxWarms = 1
    MaxFaults = 0
    MaxStops = 1
    MaxGarbage = 0
    KeysExpire = FALSE
CHECK_DEADLOCK FALSE
INVARIANTS
    CommittedIsAccounted
