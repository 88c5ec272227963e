CONSTANTS
    MaxTasks = 2
    MaxBursts = 1
    Listener = {a1, a2}
    NoListener = NoListener
SPECIFICATION ISpec
INVARIANT StopsWhenStored
