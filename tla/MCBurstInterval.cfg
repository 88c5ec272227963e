CONSTANTS
    MaxBursts = 2
    MaxLooper = 2
    MaxEarlier = 1
SPECIFICATION Spec
INVARIANT MinimumIntervalKept
