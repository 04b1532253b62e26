CONSTANTS
    Loops = {"cookies"}
    MaxTokens = 3
    MaxFaults = 2
    MaxFaultsOn = 0
    MaxFetch = 2
    MaxAuth = 2
    MaxShort = 2
    MaxCaptcha = 2
SPECIFICATION Spec
INVARIANTS TypeOK RefusedNotReused
PROPERTIES RenewalSpared Recovers ZombieEnds
CHECK_DEADLOCK FALSE
