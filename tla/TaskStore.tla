------------------------------ MODULE TaskStore ------------------------------
(***************************************************************************)
(* The task table of internal/storage/sqlite/tasks.go: what each SQL       *)
(* statement does to a row.  A statement is atomic; the methods that issue *)
(* two statements are put together in TaskQueue, where other goroutines    *)
(* run between them.                                                       *)
(*                                                                         *)
(* Timestamps are kept only as far as the statements compare them:         *)
(*   due    scheduled_at <= now                                            *)
(*   lease  claimed_at: "none" is NULL, "expired" is older than the stale  *)
(*          timeout, "fresh" is newer                                      *)
(*   old    finished_at is older than the task TTL                         *)
(* payload, result, error, started_at and created_at are written but never *)
(* tested by any statement, and are left out.                              *)
(***************************************************************************)
EXTENDS Integers, FiniteSets

CONSTANTS
    Jobs,            \* a job stands for a task type together with its unique key
    Keyed,           \* jobs whose tasks carry a non-empty unique_key
    DeleteAfterRun,  \* jobs whose tasks are deleted on completion
    MaxAttempts,     \* [Jobs -> Nat], the task's max_attempts
    Workers,         \* worker ids
    NoWorker,        \* the empty worker_id
    MaxTask          \* bound on the rows ever inserted; later inserts fail

ASSUME StoreAssumption ==
    /\ Jobs # {}
    /\ Keyed \subseteq Jobs
    /\ DeleteAfterRun \subseteq Jobs
    /\ MaxAttempts \in [Jobs -> Nat \ {0}]
    /\ NoWorker \notin Workers
    /\ MaxTask \in Nat

VARIABLES
    tasks,   \* the table: id -> row, status "absent" before insert and after delete
    nextId   \* the AUTOINCREMENT counter

Ids == 1 .. MaxTask

Active   == {"pending", "claimed", "running"}
Owned    == {"claimed", "running"}
Terminal == {"done", "failed"}

Row == [ status   : {"absent"} \cup Active \cup Terminal,
         job      : Jobs,
         keyed    : BOOLEAN,      \* unique_key has not been cleared
         worker   : Workers \cup {NoWorker},
         attempts : Nat,
         prio     : {0, 1},
         due      : BOOLEAN,
         lease    : {"none", "fresh", "expired"},
         old      : BOOLEAN ]

NoRow == [ status |-> "absent", job |-> CHOOSE j \in Jobs : TRUE, keyed |-> FALSE,
           worker |-> NoWorker, attempts |-> 0, prio |-> 0, due |-> FALSE,
           lease |-> "none", old |-> FALSE ]

(* A deleted row; the job stays, for the workers that loaded it remember it. *)
Deleted(r) == [NoRow EXCEPT !.job = r.job]

NewRow(j, p) == [ NoRow EXCEPT !.status = "pending", !.job = j,
                               !.keyed = j \in Keyed, !.prio = p, !.due = TRUE ]

StoreInit == /\ tasks = [i \in Ids |-> NoRow]
             /\ nextId = 1

(***************************************************************************)
(* CreateTaskIfNotExists: the Exists query, and the insert that the        *)
(* partial unique index idx_tasks_unique_key may refuse.  The query lists  *)
(* pending, claimed and running for the one placeholder of status IN (?),  *)
(* and the query builder binds the first alone: a claimed or running task  *)
(* is left to the index.                                                   *)
(***************************************************************************)
KeyExists(j) ==
    \E i \in Ids : tasks[i].keyed /\ tasks[i].job = j /\ tasks[i].status = "pending"

UniqueConflict(j) ==
    \E i \in Ids : tasks[i].keyed /\ tasks[i].job = j /\ tasks[i].status # "absent"

(* Mutant: no unique index. *)
InsertableNoIndex(j) == nextId \in Ids

Insertable(j) == nextId \in Ids /\ ~(j \in Keyed /\ UniqueConflict(j))

InsertTask(j, p) ==
    IF Insertable(j)
    THEN /\ tasks' = [tasks EXCEPT ![nextId] = NewRow(j, p)]
         /\ nextId' = nextId + 1
    ELSE UNCHANGED <<tasks, nextId>>

(***************************************************************************)
(* The candidate query of ClaimTask: due pending rows, best priority       *)
(* first, at most `limit` of them, before capabilities are looked at.      *)
(***************************************************************************)
DuePending == {i \in Ids : tasks[i].status = "pending" /\ tasks[i].due}

IsCandidateSet(C, limit) ==
    /\ C \subseteq DuePending
    /\ \A c \in C, d \in DuePending \ C : tasks[c].prio >= tasks[d].prio
    /\ Cardinality(C) = limit \/ (C = DuePending /\ Cardinality(C) <= limit)

(* UPDATE ... SET status = claimed WHERE id = ? AND status = pending. *)
ClaimableAny(i) == TRUE   \* mutant: WHERE id = ? alone

Claimable(i) == tasks[i].status = "pending"

ClaimedRow(r, w) == [r EXCEPT !.status = "claimed", !.worker = w, !.lease = "fresh"]

(* StartTask: UPDATE ... WHERE id = ? AND worker_id = ? AND status = claimed. *)
Startable(i, w) == tasks[i].status = "claimed" /\ tasks[i].worker = w

StartedRow(r) == [r EXCEPT !.status = "running", !.attempts = r.attempts + 1]

(* FailTask's retry test. *)
MayRetryOnce(r) == r.attempts <= MaxAttempts[r.job]   \* mutant: off by one

MayRetry(r) == r.attempts < MaxAttempts[r.job]

(* Mutant of CompleteTask's write: the wrong status is matched. *)
CompletedRowWrongStatus(r) ==
    IF r.status # "claimed" THEN r
    ELSE [r EXCEPT !.status = "done", !.keyed = FALSE, !.old = FALSE]

(* CompleteTask's write, WHERE id = ? AND status = running: the row is     *)
(* deleted, or marked done with its key freed.                             *)
CompletedRow(r) ==
    IF r.status # "running" THEN r
    ELSE IF r.job \in DeleteAfterRun THEN Deleted(r)
    ELSE [r EXCEPT !.status = "done", !.keyed = FALSE, !.old = FALSE]

(* FailTask's write, WHERE id = ? only: whatever the status, the row goes  *)
(* back to pending with a backoff, or to failed with its key freed.  The   *)
(* backoff is attempts * 30s, so it is zero when the task never started.   *)
FailedRow(r, retry, backoff) ==
    IF r.status = "absent" THEN r
    ELSE IF retry
    THEN [r EXCEPT !.status = "pending", !.worker = NoWorker, !.lease = "none",
                   !.due = ~backoff]
    ELSE [r EXCEPT !.status = "failed", !.keyed = FALSE, !.old = FALSE]

(* CleanupStaleTasks: attempts and scheduled_at are not touched. *)
IsStaleRunning(r) == r.status = "running" /\ r.lease = "expired"   \* mutant
IsStaleAny(r) == r.lease = "expired"                               \* mutant

IsStale(r) == r.status \in Owned /\ r.lease = "expired"

ReclaimedRow(r) ==
    IF IsStale(r)
    THEN [r EXCEPT !.status = "pending", !.worker = NoWorker, !.lease = "none"]
    ELSE r

(* DeleteOldTasks. *)
ExpiredRow(r) == IF r.status \in Terminal /\ r.old THEN Deleted(r) ELSE r

(* TouchTask: UPDATE ... SET claimed_at = now WHERE id = ? AND status is    *)
(* claimed or running; it matches a row whoever owns it.                   *)
Touchable(i) == tasks[i].status \in Owned

TouchedRow(r) == [r EXCEPT !.lease = "fresh"]

(* CancelPendingImportTask: WHERE unique_key = ? AND status = pending. *)
CancelledRow(r, j) ==
    IF r.keyed /\ r.job = j /\ r.status = "pending"
    THEN [r EXCEPT !.status = "failed", !.keyed = FALSE, !.old = FALSE]
    ELSE r

(* Time passes: the stale timeout, a retry's backoff, the task TTL. *)
StaleRow(r) == [r EXCEPT !.lease = "expired"]
DueRow(r)   == [r EXCEPT !.due = TRUE]
OldRow(r)   == [r EXCEPT !.old = TRUE]

(* Migration at start-up: clear unique_key on finished rows. *)
MigratedRow(r) == IF r.status \in Terminal THEN [r EXCEPT !.keyed = FALSE] ELSE r
=============================================================================
