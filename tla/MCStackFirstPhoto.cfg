CONSTANTS
    MaxTasks = 3
    MaxBursts = 2
    Listener = {a1}
    NoListener = NoListener
SPECIFICATION Spec
PROPERTY FirstPhotoIsOfCurrentBurst
