CONSTANTS
    Orders = {o1}
    Codes = {k1}
    Autos = {a1}
    Calls = {w1}
    Scheds = {s1}
    Manuals = {}
    NoOrder = NoOrder
    Nobody = Nobody
    Qty = 1
    MaxGen = 0
    AutoConfirmModes <- Always
    ConfirmBeforeSend = TRUE
    SendBeforeConfirm = FALSE
    OnlySendModes <- Never
    Rules = FALSE
    RedisFaults = TRUE
    HttpTimeouts = TRUE
    DbFaults = FALSE
    Crashes = TRUE
    StaleSync = FALSE
    Completes = FALSE
    Midnight = TRUE
SPECIFICATION RedeliverySpec
PROPERTIES EventuallySettled
