CONSTANTS
    Orders = {o1}
    Codes = {k1, k2}
    Autos = {a1, a2}
    Calls = {w1}
    Scheds = {}
    Manuals = {m1}
    NoOrder = NoOrder
    Nobody = Nobody
    Qty = 2
    MaxGen = 0
    AutoConfirmModes <- Both
    ConfirmBeforeSend = FALSE
    SendBeforeConfirm = TRUE
    OnlySendModes <- Both
    Rules = FALSE
    RedisFaults = FALSE
    HttpTimeouts = FALSE
    DbFaults = TRUE
    Crashes = FALSE
    StaleSync = FALSE
    Completes = FALSE
    Midnight = FALSE
SPECIFICATION Spec
SYMMETRY Symmetry
INVARIANTS ShippedAfterSent
