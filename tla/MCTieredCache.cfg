SPECIFICATION FairSpec

CONSTANTS
    Requests = {r1, r2}
    Ttl = 1
    RpcTimeout = 1
    RedisDelay = 1
    MaxTime = 4

INVARIANT TypeOK

PROPERTIES
    BoundedStaleness
    UncacheableAreFresh
    RequestsSettle
