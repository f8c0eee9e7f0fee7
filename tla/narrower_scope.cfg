SPECIFICATION Spec
CONSTANTS
    alice = alice  bob = bob
    wide = wide  narrow = narrow  other = other
    a = a  b = b
    card = card  garbled = garbled
    None = None  Denied = Denied
    Browser = {br}
    Client = {rp}
    Account = {alice, bob}
    Scope = {wide, narrow}
    ScopeValue = {a, b}
    ValuesOf <- MCValuesOf
    Credential = {card}
    SubjectOf <- MCSubjectOf
    Malformed = {}
    Presentation <- OneCard
    SessionUid = {s1, s2}
    InteractionUid = {i1, i2}
    Request = {r1}
    MaxOpen = 1
    MaxDisclosed = 3
    MaxCode = 1
    Essential = {a}
    Answers <- MCAnswers
INVARIANT CodeRedeemable
SYMMETRY Identifiers
CHECK_DEADLOCK FALSE
