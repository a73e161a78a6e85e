-------------------------- MODULE TaskQueueClaims --------------------------
(***************************************************************************)
(* What a comment says of the task queue, as a formula that the model of   *)
(* the code refutes.  TaskQueue states the weaker property that does hold. *)
(***************************************************************************)
EXTENDS TaskQueue

(* scheduler/handlers/jobs.go on MaxAttempts: 1: "Agentic jobs are NOT     *)
(* idempotent (...), so never auto-retry the whole loop".  A task is never *)
(* started more than MaxAttempts times; but CleanupStaleTasks puts a       *)
(* started task back whatever its attempts.                                *)
NeverRetried ==
    \A i \in Ids : tasks[i].status # "absent" =>
       tasks[i].attempts <= MaxAttempts[tasks[i].job]
=============================================================================
