SPECIFICATION FairDevelopersSpec
CONSTANTS
    MaxStart = 3
    Absent = Absent
    Partial = Partial
    Unset = Unset
    None = None
    NoHash = NoHash
    Uri <- MCUri
    WebUri <- MCWebUri
    HostOf <- MCHostOf
    Number = {"3300"}
    Tunnel = {"https://tunnel.ngrok.io"}
    Environment <- MCEnvironment
    Email = {eve}
    Password = {p, q}
    Developer = {d1, d2}
    MaxChange = 2
INVARIANTS TypeOK ServesItsFiles ServesItsAddress HangExplained OnlyGenuine
PROPERTIES IdentityKept ComesUp DeveloperAnswered
CHECK_DEADLOCK FALSE
