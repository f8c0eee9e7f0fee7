SPECIFICATION DevelopersSpec
CONSTANTS
    MaxStart = 2
    Absent = Absent
    Partial = Partial
    Unset = Unset
    None = None
    NoHash = NoHash
    Uri <- MCUri
    WebUri <- MCWebUri
    HostOf <- MCHostOf
    Number = {"3300"}
    Tunnel = {"https://tunnel.ngrok.io"}
    Environment <- MCEnvironment
    Email = {eve}
    Password = {p, q}
    Developer = {d1}
    MaxChange = 0
INVARIANT IssuedVerifiable
CHECK_DEADLOCK FALSE
