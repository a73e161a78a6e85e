----------------------------- MODULE Reminders -----------------------------
(***************************************************************************)
(* Reminders: the rows a chat creates and cancels, the scheduler's job     *)
(* that turns due rows into tasks (on its tick, or triggered by hand), and *)
(* the handler that sends the message and marks the row.                   *)
(* Code: internal/skill/reminders/reminders.go,                            *)
(* internal/storage/sqlite/reminders.go, ReminderJob of                    *)
(* internal/scheduler/handlers/jobs.go, handlers/reminder_fire.go, and     *)
(* tick and TriggerJob of internal/scheduler/scheduler.go.                 *)
(*                                                                         *)
(* The task table is TaskStore's; ClaimTask with StartTask, and each of    *)
(* CompleteTask and FailTask, is one step here (TaskQueue has their parts).*)
(***************************************************************************)
EXTENDS Naturals, FiniteSets

CONSTANTS
    RmIds,       \* reminders
    RmSlots,     \* goroutines of the worker
    RmMaxTask,   \* bound on the tasks inserted
    RmMaxFaults  \* bound on failures, overruns and crashes

ASSUME RmAssumption ==
    RmIds # {} /\ IsFiniteSet(RmSlots) /\ RmMaxTask \in Nat /\ RmMaxFaults \in Nat

RmLoops == {"tick", "trigger"}

VARIABLES
    rmRow,     \* reminders: "waiting" and "due" are both pending
    rmLoop,    \* what each loop has read and not yet inserted
    rmTasks,   \* the task table ...
    rmNext,    \* ... and its counter
    rmRun,     \* the task and the position of each goroutine
    rmSent,    \* history: messages sent
    rmExcuse,  \* history: events after which one more message is to be expected
    rmQuiet,   \* history: messages sent when it was cancelled with nothing under way
    rmFaults   \* failures, overruns and crashes so far

rmVars == <<rmRow, rmLoop, rmTasks, rmNext, rmRun, rmSent, rmExcuse, rmQuiet, rmFaults>>

RmStore == INSTANCE TaskStore WITH
    Jobs <- RmIds, Keyed <- RmIds, DeleteAfterRun <- {},
    MaxAttempts <- [r \in RmIds |-> 3], Workers <- {"worker"}, NoWorker <- "none",
    MaxTask <- RmMaxTask, tasks <- rmTasks, nextId <- rmNext

RmIdle == [id |-> 0, pc |-> "idle"]

RmInit ==
    /\ rmRow = [r \in RmIds |-> "none"] /\ rmLoop = [a \in RmLoops |-> {}]
    /\ RmStore!StoreInit
    /\ rmRun = [s \in RmSlots |-> RmIdle]
    /\ rmSent = [r \in RmIds |-> 0] /\ rmExcuse = [r \in RmIds |-> 0]
    /\ rmQuiet = [r \in RmIds |-> {}] /\ rmFaults = 0

RmFault == rmFaults < RmMaxFaults /\ rmFaults' = rmFaults + 1

RmExcused(r) == rmExcuse' = [rmExcuse EXCEPT ![r] = @ + 1]

RmTable == <<rmTasks, rmNext>>

-----------------------------------------------------------------------------
(* The chat and the clock.                                                 *)

\* create; the time may already be past.
RmCreate(r) ==
    /\ rmRow[r] = "none"
    /\ \E s \in {"waiting", "due"} : rmRow' = [rmRow EXCEPT ![r] = s]
    /\ UNCHANGED <<rmLoop, RmTable, rmRun, rmSent, rmExcuse, rmQuiet, rmFaults>>

RmComesDue(r) ==
    /\ rmRow[r] = "waiting"
    /\ rmRow' = [rmRow EXCEPT ![r] = "due"]
    /\ UNCHANGED <<rmLoop, RmTable, rmRun, rmSent, rmExcuse, rmQuiet, rmFaults>>

\* A loop, a task or a goroutine is about to send r.
RmUnderWay(r) ==
    \/ \E a \in RmLoops : r \in rmLoop[a]
    \/ \E i \in RmStore!Ids : rmTasks[i].job = r /\ rmTasks[i].status \in RmStore!Active
    \/ \E s \in RmSlots : rmRun[s].pc # "idle" /\ rmTasks[rmRun[s].id].job = r

\* DeleteReminder: WHERE status = pending.
RmCancel(r) ==
    /\ rmRow[r] \in {"waiting", "due"}
    /\ rmRow' = [rmRow EXCEPT ![r] = "cancelled"]
    /\ rmQuiet' = [rmQuiet EXCEPT ![r] = IF RmUnderWay(r) THEN {} ELSE {rmSent[r]}]
    /\ UNCHANGED <<rmLoop, RmTable, rmRun, rmSent, rmExcuse, rmFaults>>

-----------------------------------------------------------------------------
(* ReminderJob, in the scheduler's loop and in a request's goroutine.      *)

\* Mutant: the status is not looked at.
RmDueAll == {r \in RmIds : rmRow[r] \in {"due", "fired", "cancelled"}}

\* GetDueReminders
RmDue == {r \in RmIds : rmRow[r] = "due"}

RmRead(a) ==
    /\ rmLoop[a] = {} /\ RmDue # {}
    /\ rmLoop' = [rmLoop EXCEPT ![a] = RmDue]
    /\ UNCHANGED <<rmRow, RmTable, rmRun, rmSent, rmExcuse, rmQuiet, rmFaults>>

\* CreateTaskIfNotExists, which fails without consequence.  The row may have
\* been fired or cancelled since it was read.
RmInsert(a, r) ==
    /\ r \in rmLoop[a]
    /\ rmLoop' = [rmLoop EXCEPT ![a] = @ \ {r}]
    /\ \/ /\ IF RmStore!KeyExists(r) THEN UNCHANGED RmTable ELSE RmStore!InsertTask(r, 0)
          /\ IF rmNext' # rmNext /\ rmRow[r] # "due" THEN RmExcused(r) ELSE UNCHANGED rmExcuse
          /\ UNCHANGED rmFaults
       \/ RmFault /\ UNCHANGED <<RmTable, rmExcuse>>
    /\ UNCHANGED <<rmRow, rmRun, rmSent, rmQuiet>>

-----------------------------------------------------------------------------
(* The worker and the handler.                                             *)

RmClaim(s, i) ==
    /\ rmRun[s] = RmIdle /\ i \in RmStore!DuePending
    /\ rmTasks' = [rmTasks EXCEPT ![i] = RmStore!StartedRow(RmStore!ClaimedRow(@, "worker"))]
    /\ rmRun' = [rmRun EXCEPT ![s] = [id |-> i, pc |-> "send"]]
    /\ UNCHANGED <<rmRow, rmLoop, rmNext, rmSent, rmExcuse, rmQuiet, rmFaults>>

RmClaiming == \E s \in RmSlots, i \in RmStore!Ids : RmClaim(s, i)

RmOf(s) == rmTasks[rmRun[s].id].job

RmGoes(s, pc) == rmRun' = [rmRun EXCEPT ![s].pc = pc]

\* SendMessage; an error does not say that nothing was delivered.
RmSend(s) ==
    /\ rmRun[s].pc = "send"
    /\ \/ /\ rmSent' = [rmSent EXCEPT ![RmOf(s)] = @ + 1] /\ RmGoes(s, "mark")
          /\ UNCHANGED <<rmExcuse, rmFaults>>
       \/ /\ RmFault /\ RmGoes(s, "fail")
          /\ \/ UNCHANGED <<rmSent, rmExcuse>>
             \/ rmSent' = [rmSent EXCEPT ![RmOf(s)] = @ + 1] /\ RmExcused(RmOf(s))
    /\ UNCHANGED <<rmRow, rmLoop, RmTable, rmQuiet>>

\* Mutant: the row is marked first, and the message follows.
RmMarkFirst(s) ==
    /\ rmRun[s].pc = "send"
    /\ \/ /\ rmRow' = [rmRow EXCEPT ![RmOf(s)] = "fired"] /\ RmGoes(s, "complete")
          /\ UNCHANGED <<rmExcuse, rmFaults>>
       \/ RmFault /\ RmGoes(s, "fail") /\ UNCHANGED <<rmRow, rmExcuse>>
    /\ UNCHANGED <<rmLoop, RmTable, rmSent, rmQuiet>>

\* MarkReminderFired: WHERE id = ? alone.
RmMark(s) ==
    /\ rmRun[s].pc = "mark"
    /\ \/ /\ rmRow' = [rmRow EXCEPT ![RmOf(s)] = "fired"] /\ RmGoes(s, "complete")
          /\ UNCHANGED <<rmExcuse, rmFaults>>
       \/ RmFault /\ RmExcused(RmOf(s)) /\ RmGoes(s, "fail") /\ UNCHANGED rmRow
    /\ UNCHANGED <<rmLoop, RmTable, rmSent, rmQuiet>>

\* executeTask's last write, by the task's id.  One that fails leaves a
\* running task, which is put back and sends again.
RmEnd(s) ==
    /\ rmRun[s].pc \in {"complete", "fail"}
    /\ \/ /\ rmTasks' = [rmTasks EXCEPT ![rmRun[s].id] =
                IF rmRun[s].pc = "complete" THEN RmStore!CompletedRow(@)
                ELSE RmStore!FailedRow(@, RmStore!MayRetry(@), @.attempts > 0)]
          /\ UNCHANGED <<rmExcuse, rmFaults>>
       \/ /\ RmFault /\ UNCHANGED rmTasks
          /\ IF rmRun[s].pc = "complete" THEN RmExcused(RmOf(s)) ELSE UNCHANGED rmExcuse
    /\ rmRun' = [rmRun EXCEPT ![s] = RmIdle]
    /\ UNCHANGED <<rmRow, rmLoop, rmNext, rmSent, rmQuiet>>

RmStep(s) == RmSend(s) \/ RmMark(s) \/ RmEnd(s)

\* A retry's backoff passes.
RmBackoffEnds(i) ==
    /\ rmTasks[i].status = "pending" /\ ~rmTasks[i].due
    /\ rmTasks' = [rmTasks EXCEPT ![i] = RmStore!DueRow(@)]
    /\ UNCHANGED <<rmRow, rmLoop, rmNext, rmRun, rmSent, rmExcuse, rmQuiet, rmFaults>>

RmHolders(i) == {s \in RmSlots : rmRun[s].id = i}

\* CleanupStaleTasks puts a task back whose goroutine is gone, or too slow.
RmReclaim(i) ==
    /\ rmTasks[i].status \in RmStore!Owned
    /\ rmTasks' = [rmTasks EXCEPT ![i] = RmStore!ReclaimedRow(RmStore!StaleRow(@))]
    /\ IF RmHolders(i) # {} THEN RmFault /\ RmExcused(rmTasks[i].job)
       ELSE UNCHANGED <<rmExcuse, rmFaults>>
    /\ UNCHANGED <<rmRow, rmLoop, rmNext, rmRun, rmSent, rmQuiet>>

\* The process dies and starts again.  What was sent and not completed will
\* be sent again.
RmCrash ==
    /\ RmFault
    /\ rmExcuse' = [r \in RmIds |-> rmExcuse[r] +
         Cardinality({s \in RmSlots : rmRun[s].pc \in {"mark", "complete"} /\ RmOf(s) = r})]
    /\ rmLoop' = [a \in RmLoops |-> {}] /\ rmRun' = [s \in RmSlots |-> RmIdle]
    /\ UNCHANGED <<rmRow, RmTable, rmSent, rmQuiet>>

RmNext ==
    \/ \E r \in RmIds : RmCreate(r) \/ RmComesDue(r) \/ RmCancel(r)
    \/ \E a \in RmLoops : RmRead(a) \/ \E r \in RmIds : RmInsert(a, r)
    \/ RmClaiming \/ \E s \in RmSlots : RmStep(s)
    \/ \E i \in RmStore!Ids : RmBackoffEnds(i) \/ RmReclaim(i)
    \/ RmCrash

RmSpec == RmInit /\ [][RmNext]_rmVars

-----------------------------------------------------------------------------

RmTypeOK ==
    /\ rmRow \in [RmIds -> {"none", "waiting", "due", "fired", "cancelled"}]
    /\ rmLoop \in [RmLoops -> SUBSET RmIds]
    /\ rmTasks \in [RmStore!Ids -> RmStore!Row] /\ rmNext \in 1 .. RmMaxTask + 1
    /\ rmRun \in [RmSlots -> [id : 0 .. RmMaxTask,
                              pc : {"idle", "send", "mark", "complete", "fail"}]]
    /\ rmSent \in [RmIds -> Nat] /\ rmExcuse \in [RmIds -> Nat]
    /\ rmQuiet \in [RmIds -> SUBSET Nat] /\ rmFaults \in 0 .. RmMaxFaults

(* A reminder that is marked fired was sent (Handle marks after it sends), *)
(* one message is sent but for those that an event explains: a crash, a    *)
(* failed write or an overrun between the message and the task's end, an   *)
(* insert from a list that is stale.  A reminder cancelled while nothing   *)
(* was under way stays silent.                                             *)
RmSafe ==
    \A r \in RmIds :
        /\ rmRow[r] = "fired" => rmSent[r] > 0
        /\ rmSent[r] <= 1 + rmExcuse[r]
        /\ \A n \in rmQuiet[r] : rmRow[r] = "cancelled" /\ rmSent[r] = n

(* A due reminder is fired or cancelled in the end: a task that used up    *)
(* its attempts is followed by another, for the row is still pending.      *)
RmRings == \A r \in RmIds : (rmRow[r] = "due") ~> (rmRow[r] \in {"fired", "cancelled"})
=============================================================================
