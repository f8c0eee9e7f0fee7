SPECIFICATION FairSpec
CONSTANTS
    alice = alice  bob = bob
    wide = wide  narrow = narrow  other = other
    a = a  b = b
    card = card  garbled = garbled
    None = None  Denied = Denied
    Browser = {br}
    Client = {rp}
    Account = {alice, bob}
    Scope = {narrow, other}
    ScopeValue = {a, b}
    ValuesOf <- MCValuesOf
    Credential = {card, garbled}
    SubjectOf <- MCSubjectOf
    Malformed = {garbled}
    Presentation <- OneOrGarbled
    SessionUid = {s1, s2}
    InteractionUid = {i1, i2}
    Request = {r1}
    MaxOpen = 1
    MaxDisclosed = 2
    MaxCode = 1
    Essential = {a}
    Answers <- MCAnswers
INVARIANTS CodeRedeemable PostsSorted
PROPERTIES ClaimsKept RequestAnswered
CHECK_DEADLOCK FALSE
