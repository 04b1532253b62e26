CONSTANTS
    Orders = {o1}
    Codes = {k1, k2, k3}
    Autos = {a1}
    Calls = {w1, w2}
    Scheds = {s1}
    Manuals = {}
    NoOrder = NoOrder
    Nobody = Nobody
    Qty = 2
    MaxGen = 0
    AutoConfirmModes <- Always
    ConfirmBeforeSend = TRUE
    SendBeforeConfirm = FALSE
    OnlySendModes <- Never
    Rules = TRUE
    RedisFaults = TRUE
    HttpTimeouts = TRUE
    DbFaults = FALSE
    Crashes = FALSE
    StaleSync = FALSE
    Completes = FALSE
    Midnight = FALSE
SPECIFICATION Spec
SYMMETRY Symmetry
INVARIANTS TypeOK Exclusion NoDoubleDelivery SendGate
