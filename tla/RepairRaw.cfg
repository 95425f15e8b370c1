CONSTANTS
    Sound <- MCSound
    Values = {0, 3, 15}
    MaxFaults = 1
    NoRaw = NoRaw
SPECIFICATION Spec
CHECK_DEADLOCK FALSE
INVARIANTS RawIsCurrent
