CONSTANTS
    MaxTasks = 3
    MaxBursts = 2
    Listener = {a1, a2}
    NoListener = NoListener
SPECIFICATION ISpec
INVARIANTS
    TypeOK
    Inv
    StackMirrorsWork
    MemoryAccounting
    BuffersFollowTask
    NoPhotoOverwritten
    OneFirstPerBurst
    IndicatorTypeOK
    NeverIdleWhileSaving
PROPERTIES
    ListedTaskCompletes
    ImplementsPhotoStore
