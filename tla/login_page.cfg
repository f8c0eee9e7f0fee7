SPECIFICATION FairSpec
CONSTANTS
    x = x  y = y
    PageId = {p1, p2}
    Tag = {t}
    MaxSocket = 2
    Name = {x, y}
    Scope <- NamedTwice
    Session <- OneSession
    Elsewhere <- OtherSession
    KeyLength = 5
    Array <- SampleArrays
    digest <- DigestOfName
    InitialTries = 2
    None = None
INVARIANTS TypeOK EssentialAsked OnlyOtherPageTakesOver OneKeepAlive PostsOnce PairingKept OnlyOtherEndUnderstands
PROPERTIES RegistrySpec LinkSettles
CHECK_DEADLOCK FALSE
