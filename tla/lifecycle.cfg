CONSTANTS
    Adds = {a1, a2}
    Removes = {r1}
    Updates = {u1}
    Tasks = {t1, t2, t3, t4}
    Locks = {l1, l2}
    NoTask = NoTask
    NoLock = NoLock
    Nobody = Nobody
SPECIFICATION FairSpec
INVARIANTS TypeOK LockedStartsAlone
PROPERTIES JobEnds StopTakesHold
