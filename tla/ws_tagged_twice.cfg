SPECIFICATION Spec
CONSTANTS
    x = x  y = y
    PageId = {p1}
    Tag = {t}
    MaxSocket = 2
    Name = {x, y}
    Scope <- NamedTwice
    Session <- NoSession
    Elsewhere <- NoSession
    KeyLength = 5
    Array <- SampleArrays
    digest <- DigestOfName
    InitialTries = 2
    None = None
INVARIANT NeverTaggedTwice
CHECK_DEADLOCK FALSE
