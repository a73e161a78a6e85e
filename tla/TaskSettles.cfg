SPECIFICATION FairSpec
CONSTANTS
    j1 = j1  j2 = j2  d1 = d1  r1 = r1  r2 = r2
    w1 = w1  w2 = w2  s1 = s1  s2 = s2
    NoWorker = NoWorker
    NoTask = 0
    Jobs <- TwoJobs
    Keyed <- TwoJobs
    DeleteAfterRun = {j2}
    MaxAttempts <- MCMaxAttempts
    Workers = {w1, w2}
    MaxTask = 2
    Schedules = {d1}
    Produces <- CreateProduces
    Requesters = {r1}
    Requests <- ExecRequests
    RequestPrio <- CreatePrio
    Slots = {s1}
    Remote = {}
    WorkerOf <- MCWorkerOf
    Needs <- NoNeeds
    Has <- NoCaps
    Handles <- HandlesAll
    Heartbeating = {}
    Cancelable = {}
    ClaimLimit = 2
    MaxFaults = 1
INVARIANT KeyUnique
PROPERTY Settles
