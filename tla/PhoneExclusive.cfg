CONSTANTS
    a = a
    b = b
    s1 = s1
    s2 = s2
    Tasks = {a, b}
    Sessions = {s1}
    Kind <- TwoUI
    Reports <- OnlyUI
    Grants <- OnlyUI
    Steps = 1
    MaxBusy = 8
    MaxEpoch = 1
    MaxGen = 1
    Faults = {}
SPECIFICATION Spec
INVARIANTS ExclusiveUI
