----------------------------- MODULE AgentJobs -----------------------------
(***************************************************************************)
(* Scheduled agent jobs: the rows that users and the dashboard edit, the   *)
(* scheduler's job that fires due rows (on its tick, or triggered by       *)
(* hand), the worker that runs a firing, and the durable ledger that keeps *)
(* an SSH runbook from being dispatched twice for one firing.              *)
(* Code: internal/skill/schedule/schedule.go,                              *)
(* internal/dashboard/agentjob_handlers.go,                                *)
(* internal/storage/sqlite/agent_jobs.go, AgentJobsJob of                  *)
(* internal/scheduler/handlers/jobs.go, handlers/agent_job.go, and         *)
(* ExecuteScheduledRunbook of internal/remoteaccess/runbooks.go.           *)
(*                                                                         *)
(* A prompt is an SSH runbook or text for an agentic loop.  The clock      *)
(* counts the jobs' periods.  The task table is TaskStore's.               *)
(***************************************************************************)
EXTENDS Naturals, FiniteSets, FiniteSetsExt

CONSTANTS
    AjJobs,      \* jobs, by their ids ...
    AjPrompt,    \* ... and the prompts they are created with
    AjBooks,     \* the prompts that are SSH runbooks
    AjLoops,     \* who runs AgentJobsJob: the scheduler's tick, requests that trigger it
    AjSlots,     \* goroutines of the agent-job worker
    AjLedgerMax, \* ledger entries at which it is pruned (10000 in the code)
    AjLedgerKeep,\* entries that a pruning keeps (8000)
    AjMaxTask,   \* bound on the tasks inserted
    AjMaxTime,   \* bound on the clock
    AjMaxEvents  \* bound on edits, failures, overruns and crashes

ASSUME AjAssumption ==
    /\ AjJobs # {} /\ AjJobs \subseteq Nat /\ IsFiniteSet(AjLoops)
    /\ AjLedgerKeep \in Nat /\ AjLedgerMax \in Nat /\ AjLedgerKeep < AjLedgerMax
    /\ AjMaxTask \in Nat /\ AjMaxTime \in Nat /\ AjMaxEvents \in Nat

AjPrompts == {AjPrompt[j] : j \in AjJobs} \union {"edited"}

VARIABLES
    ajRow,     \* agent_jobs
    ajNow,     \* the clock
    ajEdit,    \* the row that an edit read and will write, as changed
    ajLoop,    \* firings of each loop: to be advanced, to be inserted
    ajTasks,   \* the task table ...
    ajNext,    \* ... and its counter
    ajPay,     \* the prompt in a task's payload
    ajRun,     \* the task and the position of each goroutine
    ajLedger,  \* ScheduledRuns: the tasks claimed ...
    ajFloor,   \* ... and ScheduledTaskFloor
    ajDone,    \* history: how often a task's runbook was dispatched
    ajFired,   \* history: firings of a job
    ajExcuse,  \* history: events after which one more firing is to be expected
    ajLate,    \* history: goroutines that an edit overtook after their check
    ajWrong,   \* history: tasks dispatched against the job's row
    ajEvents   \* edits, failures, overruns and crashes so far

ajVars == <<ajRow, ajNow, ajEdit, ajLoop, ajTasks, ajNext, ajPay, ajRun, ajLedger,
            ajFloor, ajDone, ajFired, ajExcuse, ajLate, ajWrong, ajEvents>>

AjStore == INSTANCE TaskStore WITH
    Jobs <- AjJobs, Keyed <- AjJobs, DeleteAfterRun <- {},
    MaxAttempts <- [j \in AjJobs |-> 1], Workers <- {"worker"}, NoWorker <- "none",
    MaxTask <- AjMaxTask, tasks <- ajTasks, nextId <- ajNext

AjIdle == [id |-> 0, pc |-> "idle"]

\* A new row has no next_run, and is due.
AjNewRow(j) == [there |-> TRUE, on |-> TRUE, prompt |-> AjPrompt[j], next |-> 0]

AjNoEdit == [job |-> "none"]

AjInit ==
    /\ ajRow = [j \in AjJobs |-> AjNewRow(j)] /\ ajNow = 0
    /\ ajEdit = AjNoEdit
    /\ ajLoop = [a \in AjLoops |-> [due |-> {}, made |-> {}]]
    /\ AjStore!StoreInit /\ ajPay = [i \in AjStore!Ids |-> "none"]
    /\ ajRun = [s \in AjSlots |-> AjIdle]
    /\ ajLedger = {} /\ ajFloor = 0
    /\ ajDone = [i \in AjStore!Ids |-> 0]
    /\ ajFired = [j \in AjJobs |-> 0] /\ ajExcuse = [j \in AjJobs |-> 0]
    /\ ajLate = {} /\ ajWrong = {} /\ ajEvents = 0

AjEvent == ajEvents < AjMaxEvents /\ ajEvents' = ajEvents + 1

AjRows    == <<ajRow, ajNow, ajEdit>>
AjTable   == <<ajTasks, ajNext, ajPay>>
AjClaims  == <<ajLedger, ajFloor>>
AjRecords == <<ajDone, ajFired, ajExcuse, ajLate, ajWrong>>

-----------------------------------------------------------------------------
(* Edits: pause, resume and the dashboard's update read the row and write  *)
(* all of it, next_run included.                                           *)

AjTime ==
    /\ ajNow < AjMaxTime /\ ajNow' = ajNow + 1
    /\ UNCHANGED <<ajRow, ajEdit, ajLoop, AjTable, ajRun, AjClaims, AjRecords, ajEvents>>

AjOpen(j) ==
    /\ ajEdit = AjNoEdit /\ ajRow[j].there /\ AjEvent
    /\ \E row \in {[ajRow[j] EXCEPT !.on = ~@], [ajRow[j] EXCEPT !.prompt = "edited"]} :
          ajEdit' = [job |-> j, row |-> row]
    /\ UNCHANGED <<ajRow, ajNow, ajLoop, AjTable, ajRun, AjClaims, AjRecords>>

\* Goroutines that have looked at the row already.
AjChecked(j) == {s \in AjSlots : /\ ajRun[s].pc \in {"claim", "dispatch"}
                                 /\ ajTasks[ajRun[s].id].job = j}

\* UpdateAgentJob: WHERE the key; a deleted row stays deleted.
AjSave ==
    /\ ajEdit # AjNoEdit /\ ajEdit' = AjNoEdit
    /\ LET j == ajEdit.job IN
       IF ajRow[j].there
       THEN /\ ajRow' = [ajRow EXCEPT ![j] = ajEdit.row]
            /\ ajLate' = ajLate \union AjChecked(j)
            /\ ajExcuse' = IF ajEdit.row.next < ajRow[j].next
                           THEN [ajExcuse EXCEPT ![j] = @ + 1] ELSE ajExcuse
       ELSE UNCHANGED <<ajRow, ajLate, ajExcuse>>
    /\ UNCHANGED <<ajNow, ajLoop, AjTable, ajRun, AjClaims, ajDone, ajFired,
                   ajWrong, ajEvents>>

\* DeleteAgentJob
AjDelete(j) ==
    /\ ajRow[j].there /\ AjEvent
    /\ ajRow' = [ajRow EXCEPT ![j].there = FALSE]
    /\ ajLate' = ajLate \union AjChecked(j)
    /\ UNCHANGED <<ajNow, ajEdit, ajLoop, AjTable, ajRun, AjClaims, ajDone, ajFired,
                   ajExcuse, ajWrong>>

-----------------------------------------------------------------------------
(* AgentJobsJob, in the scheduler's loop and in a request's goroutine: the *)
(* rows are read, each is advanced, then the tasks are inserted.           *)

\* GetDueAgentJobs
AjDue(j) == ajRow[j].there /\ ajRow[j].on /\ ajRow[j].next <= ajNow

AjRead(a) ==
    /\ ajLoop[a].due = {} /\ ajLoop[a].made = {}
    /\ \E j \in AjJobs : AjDue(j)
    /\ LET due == {j \in AjJobs : AjDue(j)} IN
       /\ ajLoop' = [ajLoop EXCEPT ![a].due = {<<j, ajRow[j].prompt>> : j \in due}]
       /\ ajExcuse' = [j \in AjJobs |->
             IF j \in due /\ \E b \in AjLoops : \E f \in ajLoop[b].due : f[1] = j
             THEN ajExcuse[j] + 1 ELSE ajExcuse[j]]
    /\ UNCHANGED <<AjRows, AjTable, ajRun, AjClaims, ajDone, ajFired, ajLate,
                   ajWrong, ajEvents>>

\* Mutant: the schedule is left as it is.
AjAdvancedNot(j) == ajRow

\* UpdateAgentJobSchedule
AjAdvanced(j) == [ajRow EXCEPT ![j].next = ajNow + 1]

\* The firing whose turn it is.
AjFirst(F) == CHOOSE f \in F : \A g \in F : f[1] <= g[1]

AjAdvance(a) ==
    /\ ajLoop[a].due # {}
    /\ LET f == AjFirst(ajLoop[a].due) IN
       /\ ajLoop' = [ajLoop EXCEPT ![a] = [due |-> @.due \ {f}, made |-> @.made \union {f}]]
       /\ \/ /\ ajRow' = IF ajRow[f[1]].there THEN AjAdvanced(f[1]) ELSE ajRow
             /\ UNCHANGED <<ajExcuse, ajEvents>>
          \/ /\ AjEvent /\ UNCHANGED ajRow
             /\ ajExcuse' = [ajExcuse EXCEPT ![f[1]] = @ + 1]
    /\ UNCHANGED <<ajNow, ajEdit, AjTable, ajRun, AjClaims, ajDone, ajFired, ajLate, ajWrong>>

\* CreateTaskIfNotExists; a firing whose insert fails, or whose job still has
\* an active task, is lost.
AjInsert(a) ==
    /\ ajLoop[a].due = {} /\ ajLoop[a].made # {}
    /\ LET f == AjFirst(ajLoop[a].made) IN
       /\ ajLoop' = [ajLoop EXCEPT ![a].made = @ \ {f}]
       /\ \/ /\ IF AjStore!KeyExists(f[1]) THEN UNCHANGED <<ajTasks, ajNext>>
                ELSE AjStore!InsertTask(f[1], 0)
             /\ ajPay' = IF ajNext' = ajNext THEN ajPay ELSE [ajPay EXCEPT ![ajNext] = f[2]]
             /\ ajFired' = IF ajNext' = ajNext THEN ajFired ELSE [ajFired EXCEPT ![f[1]] = @ + 1]
             /\ UNCHANGED ajEvents
          \/ AjEvent /\ UNCHANGED <<AjTable, ajFired>>
    /\ UNCHANGED <<AjRows, ajRun, AjClaims, ajDone, ajExcuse, ajLate, ajWrong>>

-----------------------------------------------------------------------------
(* The worker and the handler.                                             *)

AjClaim(s, i) ==
    /\ ajRun[s] = AjIdle /\ i \in AjStore!DuePending
    /\ ajTasks' = [ajTasks EXCEPT ![i] = AjStore!StartedRow(AjStore!ClaimedRow(@, "worker"))]
    /\ ajRun' = [ajRun EXCEPT ![s] = [id |-> i, pc |-> "handle"]]
    /\ UNCHANGED <<AjRows, ajLoop, ajNext, ajPay, AjClaims, AjRecords, ajEvents>>

AjGoes(s, pc) == ajRun' = [ajRun EXCEPT ![s].pc = pc]

\* An agentic loop, or a wake gate that skips it; an error fails the task.
AjLoopRun(s) ==
    /\ ajRun[s].pc = "handle" /\ ajPay[ajRun[s].id] \notin AjBooks
    /\ \/ AjGoes(s, "complete") /\ UNCHANGED ajEvents
       \/ AjGoes(s, "fail") /\ AjEvent
    /\ UNCHANGED <<AjRows, ajLoop, AjTable, AjClaims, AjRecords>>

\* The row still stands for this firing.
AjMatches(i) ==
    LET row == ajRow[ajTasks[i].job] IN row.there /\ row.on /\ row.prompt = ajPay[i]

AjMayGoAlways(s) == {"claim", "complete"}   \* mutant

\* runRemote reads the job again; its user may have been disabled.
AjMayGo(s) == IF AjMatches(ajRun[s].id) THEN {"claim", "complete"} ELSE {"complete"}

AjCheck(s) ==
    /\ ajRun[s].pc = "handle" /\ ajPay[ajRun[s].id] \in AjBooks
    /\ \E pc \in AjMayGo(s) : AjGoes(s, pc)
    /\ UNCHANGED <<AjRows, ajLoop, AjTable, AjClaims, AjRecords, ajEvents>>

\* At the limit the ledger keeps its newest entries, and the floor rises over
\* the others.
AjFull    == Cardinality(ajLedger) >= AjLedgerMax
AjCutoff  == CHOOSE c \in ajLedger : Cardinality({d \in ajLedger : d > c}) = AjLedgerKeep
AjRaised  == IF AjFull THEN Max({ajFloor, AjCutoff}) ELSE ajFloor
AjPruned  == IF AjFull THEN {i \in ajLedger : i > AjRaised} ELSE ajLedger

AjClaimedNever(i) == i <= ajFloor   \* mutant: the entries are not looked at

\* A firing at or below the floor, or in the ledger, is not dispatched.
AjClaimed(i) == i <= ajFloor \/ i \in ajLedger

\* ExecuteScheduledRunbook up to the dispatch, under the lock.  A save that
\* fails refuses the firing.
AjEnter(s) ==
    /\ ajRun[s].pc = "claim"
    /\ LET i == ajRun[s].id IN
       \/ AjClaimed(i) /\ AjGoes(s, "complete") /\ UNCHANGED <<AjClaims, ajEvents>>
       \/ /\ ~AjClaimed(i)
          /\ ajFloor' = AjRaised
          /\ IF AjFull /\ i <= AjRaised THEN ajLedger' = AjPruned /\ AjGoes(s, "complete")
             ELSE ajLedger' = AjPruned \union {i} /\ AjGoes(s, "dispatch")
          /\ UNCHANGED ajEvents
       \/ ~AjClaimed(i) /\ AjEvent /\ AjGoes(s, "complete") /\ UNCHANGED AjClaims
    /\ UNCHANGED <<AjRows, ajLoop, AjTable, AjRecords>>

\* ExecuteRunbook, or its refusal; whatever comes of it completes the task.
AjDispatch(s) ==
    /\ ajRun[s].pc = "dispatch"
    /\ AjGoes(s, "complete")
    /\ \/ /\ ajDone' = [ajDone EXCEPT ![ajRun[s].id] = @ + 1]
          /\ ajWrong' = IF AjMatches(ajRun[s].id) \/ s \in ajLate THEN ajWrong
                        ELSE ajWrong \union {ajRun[s].id}
       \/ UNCHANGED <<ajDone, ajWrong>>
    /\ UNCHANGED <<AjRows, ajLoop, AjTable, AjClaims, ajFired, ajExcuse, ajLate, ajEvents>>

\* executeTask's last write, by the task's id.
AjEnd(s) ==
    /\ ajRun[s].pc \in {"complete", "fail"}
    /\ ajTasks' = [ajTasks EXCEPT ![ajRun[s].id] =
          IF ajRun[s].pc = "complete" THEN AjStore!CompletedRow(@)
          ELSE AjStore!FailedRow(@, AjStore!MayRetry(@), @.attempts > 0)]
    /\ ajRun' = [ajRun EXCEPT ![s] = AjIdle] /\ ajLate' = ajLate \ {s}
    /\ UNCHANGED <<AjRows, ajLoop, ajNext, ajPay, AjClaims, ajDone, ajFired, ajExcuse,
                   ajWrong, ajEvents>>

\* CleanupStaleTasks, when the goroutine is gone or too slow.
AjReclaim(i) ==
    /\ ajTasks[i].status \in AjStore!Owned
    /\ ajTasks' = [ajTasks EXCEPT ![i] = AjStore!ReclaimedRow(AjStore!StaleRow(@))]
    /\ IF \E s \in AjSlots : ajRun[s].id = i THEN AjEvent ELSE UNCHANGED ajEvents
    /\ UNCHANGED <<AjRows, ajLoop, ajNext, ajPay, ajRun, AjClaims, ajDone, ajFired, ajExcuse,
                   ajLate, ajWrong>>

\* The process dies and starts again; the ledger is on disk.
AjCrash ==
    /\ AjEvent
    /\ ajEdit' = AjNoEdit /\ ajLate' = {}
    /\ ajLoop' = [a \in AjLoops |-> [due |-> {}, made |-> {}]]
    /\ ajRun' = [s \in AjSlots |-> AjIdle]
    /\ UNCHANGED <<ajRow, ajNow, AjTable, AjClaims, ajDone, ajFired, ajExcuse,
                   ajWrong>>

AjNext ==
    \/ AjTime \/ AjSave \/ AjCrash
    \/ \E j \in AjJobs : AjOpen(j) \/ AjDelete(j)
    \/ \E a \in AjLoops : AjRead(a) \/ AjAdvance(a) \/ AjInsert(a)
    \/ \E s \in AjSlots :
          \/ AjLoopRun(s) \/ AjCheck(s) \/ AjEnter(s) \/ AjDispatch(s) \/ AjEnd(s)
          \/ \E i \in AjStore!Ids : AjClaim(s, i)
    \/ \E i \in AjStore!Ids : AjReclaim(i)

AjSpec == AjInit /\ [][AjNext]_ajVars

-----------------------------------------------------------------------------

AjTypeOK ==
    /\ ajRow \in [AjJobs -> [there : BOOLEAN, on : BOOLEAN, prompt : AjPrompts,
                             next : 0 .. AjMaxTime + 1]]
    /\ ajNow \in 0 .. AjMaxTime
    /\ ajEdit = AjNoEdit \/ ajEdit.job \in AjJobs
    /\ ajLoop \in [AjLoops -> [due : SUBSET (AjJobs \X AjPrompts),
                               made : SUBSET (AjJobs \X AjPrompts)]]
    /\ ajTasks \in [AjStore!Ids -> AjStore!Row] /\ ajNext \in 1 .. AjMaxTask + 1
    /\ ajPay \in [AjStore!Ids -> AjPrompts \union {"none"}]
    /\ ajRun \in [AjSlots -> [id : 0 .. AjMaxTask,
                    pc : {"idle", "handle", "claim", "dispatch", "complete", "fail"}]]
    /\ ajLedger \subseteq AjStore!Ids /\ ajFloor \in 0 .. AjMaxTask
    /\ \A i \in AjStore!Ids : ajDone[i] \in Nat
    /\ \A j \in AjJobs : ajFired[j] \in Nat /\ ajExcuse[j] \in Nat
    /\ ajLate \subseteq AjSlots /\ ajWrong \subseteq AjStore!Ids
    /\ ajEvents \in 0 .. AjMaxEvents

(* A runbook is dispatched at most once for a firing, however often its    *)
(* task is put back and also when the ledger has been pruned since         *)
(* (ExecuteScheduledRunbook), and never for a job that was paused, edited  *)
(* or deleted before the handler looked (runRemote).  A job fires once a   *)
(* period, but for schedules that could not be written, loops that read it *)
(* together and edits that bring an old next_run back.                     *)
AjSafe ==
    /\ \A i \in AjStore!Ids : ajDone[i] <= 1
    /\ ajWrong = {}
    /\ \A j \in AjJobs : ajFired[j] <= 1 + ajNow + ajExcuse[j]
=============================================================================
