CONSTANTS
    Orders = {o1}
    Codes = {k1, k2, k3}
    Autos = {a1, a2}
    Calls = {w1}
    Scheds = {s1}
    Manuals = {}
    NoOrder = NoOrder
    Nobody = Nobody
    Qty = 2
    MaxGen = 1
    AutoConfirmModes <- Always
    ConfirmBeforeSend = TRUE
    SendBeforeConfirm = FALSE
    OnlySendModes <- Both
    Rules = FALSE
    RedisFaults = FALSE
    HttpTimeouts = FALSE
    DbFaults = FALSE
    Crashes = FALSE
    StaleSync = FALSE
    Completes = FALSE
    Midnight = FALSE
SPECIFICATION Spec
SYMMETRY Symmetry
INVARIANTS Traceable
PROPERTIES HandsOutOnce MarkerIsFinal
