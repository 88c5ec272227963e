CONSTANTS
    MaxBursts = 2
    MaxLooper = 2
    MaxEarlier = 1
SPECIFICATION Spec
INVARIANTS
    TypeOK
    StoredOnlyInOpenBurst
    OpenOnlyWhileCapturing
    ChainAlive
    ReadyWhenActive
    DetachedWhenDestroyed
    FreshFrameStored
PROPERTIES
    CaptureNeverStalls
