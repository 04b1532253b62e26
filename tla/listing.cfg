CONSTANTS
    direct = direct
    plain = plain
    other = other
    item = item
    another = another
    well = well
    sick = sick
    Nobody = Nobody
    Listings <- FourListings
    Owners <- TwoOwners
    OwnerOf <- OwnersOfTasks
    AccountsOf <- AccountsOfTasks
    Direct = {direct}
    Sick = {sick}
    MaxScan = 2
    Batch = 1
    MaxAttempts = 2
    Turns = 2
    MaxFaults = 1
SPECIFICATION Spec
INVARIANTS TypeOK OrderedOnce OnRecord
PROPERTIES OwnersServed
