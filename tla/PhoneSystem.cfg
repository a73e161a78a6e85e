CONSTANTS
    a = a
    b = b
    s1 = s1
    s2 = s2
    Tasks = {a}
    Sessions = {s1, s2}
    Kind <- OneSystem
    Reports <- SystemSets
    Grants <- SystemSets
    Steps = 1
    MaxBusy = 8
    MaxEpoch = 2
    MaxGen = 2
    Faults = {"origin", "invalidate"}
SPECIFICATION Spec
INVARIANTS SystemTruthful OneActiveSession
PROPERTIES NoRevival NeverReplayed
