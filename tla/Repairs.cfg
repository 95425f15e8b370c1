CONSTANTS
    Sound <- MCSound
    Values = {0, 6, 10, 13, 14, 15, 16}
    MaxFaults = 2
    NoRaw = NoRaw
SPECIFICATION Spec
CHECK_DEADLOCK FALSE
INVARIANTS TypeOk
PROPERTIES RepairStable NoWorse NoNewReference Apart ReferencesFollow MembershipDecides SeedAbove
