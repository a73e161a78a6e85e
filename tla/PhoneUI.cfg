CONSTANTS
    a = a
    b = b
    s1 = s1
    s2 = s2
    Tasks = {a}
    Sessions = {s1}
    Kind <- OneUI
    Reports <- UISets
    Grants <- UISets
    Steps = 1
    MaxBusy = 8
    MaxEpoch = 2
    MaxGen = 2
    Faults <- AllFaults
SPECIFICATION FairSpec
INVARIANTS TypeOK QueuedFenced StepsInOrder UISuccessComplete
PROPERTIES EndedForGood Settles
