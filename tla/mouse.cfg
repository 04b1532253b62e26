CONSTANTS
    l1 = l1
    l2 = l2
    r1 = r1
    c1 = c1
    NoTask = NoTask
    Tasks = {l1, l2, r1, c1}
    ClassOf <- SomeClasses
    Ratios <- SomeRatios
    MaxChanges = 2
SPECIFICATION Spec
INVARIANTS TypeOK ShareKept
PROPERTIES CancelledNeverStarts Answered
