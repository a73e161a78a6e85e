------------------------------ MODULE TaskQueue ------------------------------
(***************************************************************************)
(* The task scheduler of internal/scheduler: the coordinator loop that     *)
(* creates and reclaims tasks, the callers that enqueue tasks on demand,   *)
(* and the workers, local and remote, that claim and execute them.  They   *)
(* share nothing but the task table, and each database statement is one    *)
(* step: everything else may run between two statements of one method.     *)
(***************************************************************************)
EXTENDS TaskStore

CONSTANTS
    Schedules,     \* the JobDefinitions registered with the scheduler
    Produces,      \* [Schedules -> SUBSET Jobs], what CreateTasks returns
    Requesters,    \* callers of CreateTaskIfNotExists outside the tick
    Requests,      \* [Requesters -> Jobs]
    RequestPrio,   \* [Requesters -> {0, 1}], 1 for TriggerJob
    Slots,         \* concurrent executions: a worker has `concurrency` of them
    Remote,        \* the slots that live in another process and use the REST API
    WorkerOf,      \* [Slots -> Workers]
    Needs,         \* [Jobs -> sets of capabilities], domain.Task.Capabilities
    Has,           \* [Slots -> sets of capabilities], WorkerConfig.Capabilities
    Handles,       \* [Slots -> SUBSET Jobs], the handlers registered
    Heartbeating,  \* jobs whose handler calls TouchTask while it runs
    Cancelable,    \* jobs that CancelPendingImportTask may be asked to cancel
    ClaimLimit,    \* LIMIT of ClaimTask's candidate query (20 in the code)
    MaxFaults,     \* bound: database errors, crashes, deaths and overruns
    NoTask         \* the id of a slot that holds no task

ASSUME QueueAssumption ==
    /\ Produces \in [Schedules -> SUBSET Jobs]
    /\ Requests \in [Requesters -> Jobs]
    /\ RequestPrio \in [Requesters -> {0, 1}]
    /\ Remote \subseteq Slots
    /\ WorkerOf \in [Slots -> Workers]
    /\ Handles \in [Slots -> SUBSET Jobs]
    /\ Heartbeating \subseteq Jobs
    /\ Cancelable \subseteq Jobs
    /\ ClaimLimit \in Nat \ {0}
    /\ MaxFaults \in Nat
    /\ NoTask \notin Ids

VARIABLES
    sched,      \* the coordinator: control point and the work left in this tick
    due,        \* schedules whose persisted next_run has passed
    req,        \* each requester's control point
    slot,       \* each slot's control point and its local variables
    faults,     \* faults so far
    reclaims,   \* history: how often CleanupStaleTasks took each task back
    overrun,    \* history: the tasks it took from a slot still working on them
    published   \* history: the tasks a TaskCompleted event was published for

store == <<tasks, nextId>>
history == <<reclaims, overrun, published>>
vars == <<tasks, nextId, sched, due, req, slot, faults, reclaims, overrun, published>>

IdleSched == [pc |-> "idle", todo |-> {}, cur |-> {}, left |-> {}, ins |-> {}]
IdleSlot  == [pc |-> "idle", id |-> NoTask, cands |-> {}, retry |-> FALSE, backoff |-> FALSE]

Holding == {"claimed", "running", "aborting", "completing", "failing"}

Holds(s, i) == slot[s].pc \in Holding /\ slot[s].id = i

Held(i) == \E s \in Slots : Holds(s, i)

Init == /\ StoreInit
        /\ sched = IdleSched
        /\ due = {}
        /\ req = [r \in Requesters |-> "idle"]
        /\ slot = [s \in Slots |-> IdleSlot]
        /\ faults = 0
        /\ reclaims = [i \in Ids |-> 0]
        /\ overrun = {}
        /\ published = {}

Fault == faults < MaxFaults /\ faults' = faults + 1

-----------------------------------------------------------------------------
(* The coordinator: Scheduler.tick.  CreateTasks of the registered jobs    *)
(* only builds the rows to insert.                                         *)

(* CleanupStaleTasks opens the tick; `now` is read here, so a schedule that *)
(* becomes due during the tick waits for the next one.                     *)
CleanupStaleTasks ==
    /\ sched.pc = "idle"
    /\ tasks' = [i \in Ids |-> ReclaimedRow(tasks[i])]
    /\ reclaims' = [i \in Ids |-> reclaims[i] + (IF IsStale(tasks[i]) THEN 1 ELSE 0)]
    /\ overrun' = overrun \cup {i \in Ids : IsStale(tasks[i]) /\ Held(i)}
    /\ sched' = [sched EXCEPT !.pc = "purge", !.todo = due]
    /\ UNCHANGED <<nextId, due, req, slot, faults, published>>

DeleteOldTasks ==
    /\ sched.pc = "purge"
    /\ tasks' = [i \in Ids |-> ExpiredRow(tasks[i])]
    /\ sched' = [sched EXCEPT !.pc = "jobs"]
    /\ UNCHANGED <<nextId, due, req, slot, faults, history>>

(* A maintenance statement fails: it is logged and the tick goes on. *)
MaintenanceError ==
    /\ Fault
    /\ \/ /\ sched.pc = "idle"
          /\ sched' = [sched EXCEPT !.pc = "purge", !.todo = due]
       \/ /\ sched.pc = "purge"
          /\ sched' = [sched EXCEPT !.pc = "jobs"]
    /\ UNCHANGED <<store, due, req, slot, history>>

(* GetSchedulerState fails: the job is left for the next tick. *)
GetSchedulerStateError(d) ==
    /\ sched.pc = "jobs"
    /\ d \in sched.todo
    /\ Fault
    /\ sched' = [sched EXCEPT !.todo = @ \ {d}]
    /\ UNCHANGED <<store, due, req, slot, history>>

(* GetSchedulerState found next_run in the past: CreateTasks. *)
RunJob(d) ==
    /\ sched.pc = "jobs"
    /\ d \in sched.todo
    /\ sched' = [sched EXCEPT !.pc = "create", !.todo = @ \ {d},
                              !.cur = {d}, !.left = Produces[d]]
    /\ UNCHANGED <<store, due, req, slot, faults, history>>

EndTick ==
    /\ sched.pc = "jobs"
    /\ sched.todo = {}
    /\ sched' = IdleSched
    /\ UNCHANGED <<store, due, req, slot, faults, history>>

(* The first statement of CreateTaskIfNotExists, Exists; a task without a  *)
(* key goes straight to CreateTask.                                        *)
SchedCheck(j) ==
    /\ sched.pc = "create"
    /\ j \in sched.left
    /\ sched' = IF j \in Keyed /\ KeyExists(j)
                THEN [sched EXCEPT !.left = @ \ {j}]
                ELSE [sched EXCEPT !.left = @ \ {j}, !.ins = {j}, !.pc = "insert"]
    /\ UNCHANGED <<store, due, req, slot, faults, history>>

(* Its second statement, Insert; a refused insert is not an error. *)
SchedInsert(j) ==
    /\ sched.pc = "insert"
    /\ j \in sched.ins
    /\ InsertTask(j, 0)
    /\ sched' = [sched EXCEPT !.ins = {}, !.pc = "create"]
    /\ UNCHANGED <<due, req, slot, faults, history>>

(* A failing statement is logged, and the loop goes on to the next task. *)
SchedInsertError ==
    /\ sched.pc = "insert"
    /\ Fault
    /\ sched' = [sched EXCEPT !.ins = {}, !.pc = "create"]
    /\ UNCHANGED <<store, due, req, slot, history>>

(* SaveSchedulerState advances next_run whatever became of the inserts. *)
SaveSchedulerState ==
    /\ sched.pc = "create"
    /\ sched.left = {}
    /\ due' = due \ sched.cur
    /\ sched' = [sched EXCEPT !.cur = {}, !.pc = "jobs"]
    /\ UNCHANGED <<store, req, slot, faults, history>>

SaveSchedulerStateError ==
    /\ sched.pc = "create"
    /\ sched.left = {}
    /\ Fault
    /\ sched' = [sched EXCEPT !.cur = {}, !.pc = "jobs"]
    /\ UNCHANGED <<store, due, req, slot, history>>

SchedStep ==
    \/ CleanupStaleTasks
    \/ DeleteOldTasks
    \/ \E d \in Schedules : RunJob(d)
    \/ EndTick
    \/ \E j \in Jobs : SchedCheck(j) \/ SchedInsert(j)
    \/ SaveSchedulerState

-----------------------------------------------------------------------------
(* Enqueuing outside the tick: TriggerJob, the import and bookmark         *)
(* endpoints, the assistant's skill review.                                *)

RequestCheck(r) ==
    /\ req[r] = "idle"
    /\ ~(Requests[r] \in Keyed /\ KeyExists(Requests[r]))
    /\ req' = [req EXCEPT ![r] = "insert"]
    /\ UNCHANGED <<store, sched, due, slot, faults, history>>

RequestInsert(r) ==
    /\ req[r] = "insert"
    /\ InsertTask(Requests[r], RequestPrio[r])
    /\ req' = [req EXCEPT ![r] = "idle"]
    /\ UNCHANGED <<sched, due, slot, faults, history>>

RequestError(r) ==
    /\ req[r] = "insert"
    /\ Fault
    /\ req' = [req EXCEPT ![r] = "idle"]
    /\ UNCHANGED <<store, sched, due, slot, history>>

CancelPendingImportTask(j) ==
    /\ j \in Cancelable
    /\ tasks' = [i \in Ids |-> CancelledRow(tasks[i], j)]
    /\ UNCHANGED <<nextId, sched, due, req, slot, faults, history>>

-----------------------------------------------------------------------------
(* Workers: Worker.Start, Worker.executeTask and the REST task handlers.   *)

At(s, p) == [slot[s] EXCEPT !.pc = p]

capsMatch(j, s) == Needs[j] \subseteq Has[s]

Matching(C, s) == {i \in C : capsMatch(tasks[i].job, s)}

(* ClaimTask, the query: a slot that finds nothing to try keeps polling. *)
ClaimSelect(s) ==
    /\ slot[s].pc = "idle"
    /\ \E C \in SUBSET DuePending :
          /\ IsCandidateSet(C, ClaimLimit)
          /\ Matching(C, s) # {}
          /\ slot' = [slot EXCEPT ![s] = [IdleSlot EXCEPT !.pc = "claiming",
                                                     !.cands = Matching(C, s)]]
    /\ UNCHANGED <<store, sched, due, req, faults, history>>

(* The task ClaimTask returns; the mutant loses its id. *)
ClaimedSlotNoId(i) == [IdleSlot EXCEPT !.pc = "claimed"]

ClaimedSlot(i) == [IdleSlot EXCEPT !.pc = "claimed", !.id = i]

(* ClaimTask, one turn of its loop: the best candidate of the snapshot is  *)
(* claimed if it is still pending, and passed over otherwise.              *)
ClaimUpdate(s, i) ==
    /\ slot[s].pc = "claiming"
    /\ i \in slot[s].cands
    /\ \A c \in slot[s].cands : tasks[c].prio <= tasks[i].prio
    /\ IF Claimable(i)
       THEN /\ tasks' = [tasks EXCEPT ![i] = ClaimedRow(tasks[i], WorkerOf[s])]
            /\ slot' = [slot EXCEPT ![s] = ClaimedSlot(i)]
       ELSE /\ slot' = [slot EXCEPT ![s] =
                           IF slot[s].cands = {i} THEN IdleSlot
                           ELSE [slot[s] EXCEPT !.cands = slot[s].cands \ {i}]]
            /\ UNCHANGED tasks
    /\ UNCHANGED <<nextId, sched, due, req, faults, history>>

(* StartTask: on zero rows the slot gives the task up. *)
StartTask(s) ==
    /\ slot[s].pc = "claimed"
    /\ LET i == slot[s].id IN
       /\ tasks[i].job \in Handles[s]
       /\ IF Startable(i, WorkerOf[s])
          THEN /\ tasks' = [tasks EXCEPT ![i] = StartedRow(tasks[i])]
               /\ slot' = [slot EXCEPT ![s] = At(s, "running")]
          ELSE /\ slot' = [slot EXCEPT ![s] = IdleSlot]
               /\ UNCHANGED tasks
    /\ UNCHANGED <<nextId, sched, due, req, faults, history>>

(* startImportHeartbeat: a handler told that it lost the task aborts. *)
TouchTask(s) ==
    /\ slot[s].pc = "running"
    /\ LET i == slot[s].id IN
       /\ tasks[i].job \in Heartbeating
       /\ IF Touchable(i)
          THEN /\ tasks' = [tasks EXCEPT ![i] = TouchedRow(tasks[i])]
               /\ UNCHANGED slot
          ELSE /\ slot' = [slot EXCEPT ![s] = At(s, "aborting")]
               /\ UNCHANGED tasks
    /\ UNCHANGED <<nextId, sched, due, req, faults, history>>

(* The handler returned a result: CompleteTask, the query.  A row that is  *)
(* not running is an error, and the slot returns without an event.         *)
CompleteSelect(s) ==
    /\ slot[s].pc \in {"running", "aborting"}
    /\ slot' = [slot EXCEPT ![s] =
                   IF tasks[slot[s].id].status = "running"
                   THEN At(s, "completing") ELSE IdleSlot]
    /\ UNCHANGED <<store, sched, due, req, faults, history>>

(* CompleteTask, the write: zero rows go unnoticed, and a local worker     *)
(* publishes its event all the same; the REST handler publishes none.      *)
CompleteWrite(s) ==
    /\ slot[s].pc = "completing"
    /\ LET i == slot[s].id IN
       /\ tasks' = [tasks EXCEPT ![i] = CompletedRow(tasks[i])]
       /\ published' = IF s \in Remote THEN published ELSE published \cup {i}
    /\ slot' = [slot EXCEPT ![s] = IdleSlot]
    /\ UNCHANGED <<nextId, sched, due, req, faults, reclaims, overrun>>

(* The handler failed, or there is none for this type: FailTask, the query *)
(* that decides on the retry.                                              *)
FailSelect(s) ==
    /\ \/ slot[s].pc \in {"running", "aborting"}
       \/ slot[s].pc = "claimed" /\ tasks[slot[s].id].job \notin Handles[s]
    /\ LET r == tasks[slot[s].id] IN
       slot' = [slot EXCEPT ![s] =
                   IF r.status = "absent" THEN IdleSlot
                   ELSE [At(s, "failing") EXCEPT !.retry = MayRetry(r),
                                                 !.backoff = r.attempts > 0]]
    /\ UNCHANGED <<store, sched, due, req, faults, history>>

FailWrite(s) ==
    /\ slot[s].pc = "failing"
    /\ LET i == slot[s].id IN
       tasks' = [tasks EXCEPT ![i] = FailedRow(tasks[i], slot[s].retry, slot[s].backoff)]
    /\ slot' = [slot EXCEPT ![s] = IdleSlot]
    /\ UNCHANGED <<nextId, sched, due, req, faults, history>>

(* A database error or the death of a remote worker: the slot forgets the  *)
(* task, whose row stays as it is until CleanupStaleTasks.                 *)
GiveUp(s) ==
    /\ slot[s].pc # "idle"
    /\ Fault
    /\ slot' = [slot EXCEPT ![s] = IdleSlot]
    /\ UNCHANGED <<store, sched, due, req, history>>

SlotStep(s) ==
    \/ ClaimSelect(s)
    \/ \E i \in Ids : ClaimUpdate(s, i)
    \/ StartTask(s)
    \/ CompleteSelect(s)
    \/ CompleteWrite(s)
    \/ FailSelect(s)
    \/ FailWrite(s)

-----------------------------------------------------------------------------
(* The process and the clock. *)

(* The process dies and starts again: what was in memory is gone, the      *)
(* remote workers live on, and the migration clears the keys left over.    *)
Crash ==
    /\ Fault
    /\ sched' = IdleSched
    /\ req' = [r \in Requesters |-> "idle"]
    /\ slot' = [s \in Slots |-> IF s \in Remote THEN slot[s] ELSE IdleSlot]
    /\ tasks' = [i \in Ids |-> MigratedRow(tasks[i])]
    /\ UNCHANGED <<nextId, due, history>>

(* The stale timeout passes since claimed_at.  It is a fault when a slot   *)
(* is still at work on the task: the handler outlived the timeout.         *)
LeaseExpires(i) ==
    /\ tasks[i].lease = "fresh"
    /\ tasks[i].status \in Owned
    /\ IF Held(i) THEN Fault ELSE UNCHANGED faults
    /\ tasks' = [tasks EXCEPT ![i] = StaleRow(tasks[i])]
    /\ UNCHANGED <<nextId, sched, due, req, slot, history>>

BackoffEnds(i) ==
    /\ tasks[i].status = "pending"
    /\ ~tasks[i].due
    /\ tasks' = [tasks EXCEPT ![i] = DueRow(tasks[i])]
    /\ UNCHANGED <<nextId, sched, due, req, slot, faults, history>>

TaskTTLPasses(i) ==
    /\ tasks[i].status \in Terminal
    /\ ~tasks[i].old
    /\ tasks' = [tasks EXCEPT ![i] = OldRow(tasks[i])]
    /\ UNCHANGED <<nextId, sched, due, req, slot, faults, history>>

NextRunPasses(d) ==
    /\ d \notin due
    /\ due' = due \cup {d}
    /\ UNCHANGED <<store, sched, req, slot, faults, history>>

Next ==
    \/ SchedStep \/ MaintenanceError \/ SchedInsertError \/ SaveSchedulerStateError
    \/ \E d \in Schedules : GetSchedulerStateError(d)
    \/ \E r \in Requesters : RequestCheck(r) \/ RequestInsert(r) \/ RequestError(r)
    \/ \E j \in Jobs : CancelPendingImportTask(j)
    \/ \E s \in Slots : SlotStep(s) \/ TouchTask(s) \/ GiveUp(s)
    \/ Crash
    \/ \E i \in Ids : LeaseExpires(i) \/ BackoffEnds(i) \/ TaskTTLPasses(i)
    \/ \E d \in Schedules : NextRunPasses(d)

Spec == Init /\ [][Next]_vars

(***************************************************************************)
(* The coordinator's ticker and each worker's poll loop keep running,      *)
(* handlers return (every handler runs under a timeout), and time passes.  *)
(***************************************************************************)
Fairness ==
    /\ WF_vars(SchedStep)
    /\ \A s \in Slots : WF_vars(SlotStep(s))
    /\ \A i \in Ids : WF_vars(~Held(i) /\ LeaseExpires(i)) /\ WF_vars(BackoffEnds(i))

FairSpec == Spec /\ Fairness

-----------------------------------------------------------------------------
SchedType == [ pc   : {"idle", "purge", "jobs", "create", "insert"},
               todo : SUBSET Schedules, cur  : SUBSET Schedules,
               left : SUBSET Jobs,      ins  : SUBSET Jobs ]

SlotType == [ pc    : {"idle", "claiming"} \cup Holding,
              id    : Ids \cup {NoTask},
              cands : SUBSET Ids,
              retry : BOOLEAN,
              backoff : BOOLEAN ]

(* Every variable has its type, the rows at and above the counter are      *)
(* unused, and a slot past its claim holds a task that was inserted.       *)
TypeOK ==
    /\ tasks \in [Ids -> Row]
    /\ nextId \in 1 .. MaxTask + 1
    /\ sched \in SchedType
    /\ due \subseteq Schedules
    /\ req \in [Requesters -> {"idle", "insert"}]
    /\ slot \in [Slots -> SlotType]
    /\ \A s \in Slots : slot[s].pc \in Holding => slot[s].id \in Ids
    /\ faults \in 0 .. MaxFaults
    /\ reclaims \in [Ids -> Nat]
    /\ overrun \subseteq Ids
    /\ published \subseteq Ids

(* At most one unfinished task per unique key, although CreateTaskIfNotExists *)
(* checks and inserts in two statements: the partial unique index closes the *)
(* gap.  A finished task has given its key up, or a schedule whose key stays *)
(* taken could never run again.                                            *)
KeyUnique ==
    /\ \A i, k \in Ids :
          tasks[i].keyed /\ tasks[k].keyed /\ tasks[i].job = tasks[k].job => i = k
    /\ \A i \in Ids : tasks[i].keyed => tasks[i].status \in Active
    /\ \A i \in Ids : tasks[i].status \in Active /\ tasks[i].job \in Keyed
                      /\ i \notin overrun => tasks[i].keyed

(* Every claimed or running task has an owner and a lease that will run    *)
(* out, so CleanupStaleTasks can always recover it; a pending one has none, *)
(* so CleanupStaleTasks cannot take it from the queue.                     *)
LeaseInv ==
    \A i \in Ids :
       /\ tasks[i].status \in Owned => tasks[i].lease # "none" /\ tasks[i].worker # NoWorker
       /\ tasks[i].status = "pending" => tasks[i].lease = "none" /\ tasks[i].worker = NoWorker

(* Mutual exclusion: a task that was never reclaimed from a slot at work   *)
(* on it is in the hands of at most one slot, over any number of retries,  *)
(* crashes and reclaims of abandoned tasks.                                *)
Exclusive ==
    \A i \in Ids \ overrun : \A s, t \in Slots : Holds(s, i) /\ Holds(t, i) => s = t

(* FailTask's retry count: outside an overrun a task is started at most    *)
(* MaxAttempts times, and once more for each time it was found abandoned.  *)
AttemptsBounded ==
    \A i \in Ids \ overrun : tasks[i].status # "absent" =>
       tasks[i].attempts <= MaxAttempts[tasks[i].job] + reclaims[i]

(* A TaskCompleted event is published only for a task that is done, or     *)
(* deleted: outside an overrun CompleteTask's unchecked write always lands. *)
CompletedEventTruthful ==
    \A i \in published \ overrun : tasks[i].status \in {"done", "absent"}

(* done and failed are final outside an overrun: the row only disappears,  *)
(* although FailTask's write does not test the status it overwrites.       *)
TerminalFinal ==
    [][\A i \in Ids \ overrun : tasks[i].status \in Terminal =>
          tasks'[i].status \in {tasks[i].status, "absent"}]_vars

(* Every task some worker can execute is finished in the end: neither a    *)
(* crash, nor a lost slot, nor a lost race leaves it pending, claimed or   *)
(* running for ever.                                                       *)
Settles ==
    \A i \in Ids :
       (tasks[i].status \in Active) ~> (tasks[i].status \notin Active)

(***************************************************************************)
(* The inductive strengthening of the invariants above.                    *)
(***************************************************************************)
(* Nobody knows of a row that has not been inserted. *)
Fresh ==
    \A i \in Ids : i >= nextId =>
       /\ tasks[i].status = "absent"
       /\ i \notin published
       /\ \A s \in Slots : ~Holds(s, i) /\ i \notin slot[s].cands

(* What a slot believes of a task that was not taken from it is true. *)
SlotInv ==
    \A s \in Slots : \A i \in Ids \ overrun : Holds(s, i) =>
       /\ tasks[i].status \in Owned
       /\ slot[s].pc = "claimed" => tasks[i].status = "claimed"
       /\ slot[s].pc \in {"running", "aborting", "completing"} => tasks[i].status = "running"
       /\ slot[s].pc = "failing" /\ slot[s].retry => MayRetry(tasks[i])

(* A task that may still be started has an attempt left. *)
AttemptsInv ==
    \A i \in Ids \ overrun : tasks[i].status \in {"pending", "claimed"} =>
       tasks[i].attempts < MaxAttempts[tasks[i].job] + reclaims[i]

IInv == /\ TypeOK /\ Fresh /\ SlotInv /\ Exclusive
        /\ LeaseInv /\ KeyUnique
        /\ AttemptsInv /\ AttemptsBounded /\ CompletedEventTruthful
=============================================================================
