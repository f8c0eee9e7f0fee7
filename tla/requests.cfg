SPECIFICATION FairSpec
CONSTANTS
    k1 = k1  k2 = k2
    None = None
    Name = {"Session", "AuthorizationCode", "AccessToken"}
    SnakeCase <- MCSnakeCase
    Key = {k1, k2}
    KeyFor <- MCKeyFor
    Grant = {g1}
    Uid = {u1}
    Request = {r1, r2}
    Lifetime <- MCLifetime
    MaxTime = 2
INVARIANTS TypeOK UidUniqueUnlessShared ReuseRevokes
PROPERTIES GoneStaysGone LivesItsTime ImplementsExchange ExpiredRemoved
CHECK_DEADLOCK FALSE
