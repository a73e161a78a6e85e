SPECIFICATION Spec
CONSTANTS
    j1 = j1  j2 = j2  d1 = d1  r1 = r1  r2 = r2
    w1 = w1  w2 = w2  s1 = s1  s2 = s2
    NoWorker = NoWorker
    NoTask = 0
    Jobs <- TwoJobs
    Keyed <- TwoJobs
    DeleteAfterRun = {j2}
    MaxAttempts <- MCMaxAttempts
    Workers = {w1, w2}
    MaxTask = 1
    Schedules = {}
    Produces <- ExecProduces
    Requesters = {r1, r2}
    Requests <- ExecRequests
    RequestPrio <- ExecPrio
    Slots = {s1, s2}
    Remote = {s2}
    WorkerOf <- MCWorkerOf
    Needs <- NoNeeds
    Has <- NoCaps
    Handles <- ExecHandles
    Heartbeating = {j2}
    Cancelable = {j2}
    ClaimLimit = 2
    MaxFaults = 1
INVARIANT NeverRetried
