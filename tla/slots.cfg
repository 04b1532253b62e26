CONSTANTS
    check = check
    refresh = refresh
    http1 = http1
    http2 = http2
    panel = panel
    shop = shop
    other = other
    Nobody = Nobody
    Tasks = {check, refresh, http1, http2, panel}
    Logins = {refresh, http1, http2, panel}
    Gated = {http1, http2, panel}
    Panels = {panel}
    Accounts = {shop, other}
    AccountOf <- ShopAccountOf
    MaxSlots = 1
    Workers = 3
SPECIFICATION Spec
SYMMETRY Symmetry
INVARIANTS TypeOK SlotsCounted ProfileExclusive NoStandstill OneLogin EntryEnds
CHECK_DEADLOCK FALSE
