SPECIFICATION Spec
CONSTANTS
    r1 = r1  r2 = r2  r3 = r3
    u1 = u1  u2 = u2  t1 = t1  t2 = t2
    Requests = {r1, r2, r3}
    Users = {u1, u2}
    Tokens = {t1}
    UserOf <- RetryUserOf
    TokenOf <- RetryTokenOf
    IdOf <- ClashIdOf
    Unstorable = {}
    Shards = 1
    ShardOf <- OneShard
    Consumers = {c1}
    NoConsumer = NoConsumer
    Garbage = Garbage
    Total = 1
    Limit = 2
    MaxRetries = 1
    MaxWarms = 2
    MaxFaults = 3
    MaxStops = 0
    MaxGarbage = 0
    KeysExpire = FALSE
CHECK_DEADLOCK FALSE
INVARIANTS
    TypeOK
    Bookkeeping
    NoOversell
    AckedIsLogged
    NothingUnpaid
    SuccessHasRow
    LossNeedsExhaustion
PROPERTIES
    ImplementsSale
