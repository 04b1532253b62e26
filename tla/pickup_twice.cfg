CONSTANTS
    t1 = t1
    t2 = t2
    t3 = t3
    Users = {1, 2, 3}
    Txs = {t1, t2, t3}
    Nobody = Nobody
    Codes <- CodeSet
    NoCode = NoCode
    Stock <- FewCodes
    Deals <- TwoPickups
    NoDeal = NoDeal
    CardPrice = 2
    SubPrice = 3
    Fee = 1
    Opening <- LedgerOpening
    LockTimeouts = FALSE
    RedisFaults = FALSE
    Failures = FALSE
SPECIFICATION Spec
INVARIANTS CodesOnce
CHECK_DEADLOCK FALSE
