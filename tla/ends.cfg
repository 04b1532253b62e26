CONSTANTS
    Orders = {o1}
    Codes = {k1}
    Autos = {a1}
    Calls = {w1}
    Scheds = {s1}
    Manuals = {m1}
    NoOrder = NoOrder
    Nobody = Nobody
    Qty = 1
    MaxGen = 0
    AutoConfirmModes <- Always
    ConfirmBeforeSend = TRUE
    SendBeforeConfirm = FALSE
    OnlySendModes <- Never
    Rules = TRUE
    RedisFaults = FALSE
    HttpTimeouts = TRUE
    DbFaults = TRUE
    Crashes = TRUE
    StaleSync = TRUE
    Completes = TRUE
    Midnight = FALSE
SPECIFICATION FairSpec
INVARIANTS ShippedHonest
PROPERTIES FlowEnds
