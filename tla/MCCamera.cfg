CONSTANT MaxOpens = 4
SPECIFICATION Spec
INVARIANTS
    TypeOK
    ReleasedWhenPaused
    NoReleasedCamera
    NoLostCamera
    NoSelfConflict
    HandsOutHeldCamera
