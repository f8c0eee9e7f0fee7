SPECIFICATION Spec
CONSTANTS
    Tag = {u1, u2}
    MaxSocket = 5
    None = None
INVARIANTS TypeOK RegistryLive GetNewest OnlyNewerTakesOver
SYMMETRY Uids
