---------------------------- MODULE MCTaskQueue ----------------------------
(***************************************************************************)
(* Instances of TaskQueue for TLC.  j1 stands for a scheduled task that is *)
(* retried once; j2 for an import or an agent job: one attempt.  s1 is a   *)
(* slot of the main process, s2 of a remote worker.                        *)
(***************************************************************************)
EXTENDS TaskQueueClaims, TLC

CONSTANTS j1, j2, d1, r1, r2, w1, w2, s1, s2

TwoJobs        == {j1, j2}
MCMaxAttempts  == j1 :> 2 @@ j2 :> 1
MCWorkerOf     == [s \in Slots |-> IF s = s1 THEN w1 ELSE w2]
NoNeeds        == [j \in Jobs |-> {}]
NoCaps         == [s \in Slots |-> {}]
HandlesAll     == [s \in Slots |-> Jobs]

(* Execution: one task, two slots of which one has no handler for j2. *)
ExecProduces   == [d \in Schedules |-> {}]
ExecRequests   == [r \in Requesters |-> IF r = r1 THEN j1 ELSE j2]
ExecPrio       == [r \in Requesters |-> 0]
ExecHandles    == [s \in Slots |-> IF s = s1 THEN Jobs ELSE {j1}]

(* Creation: a schedule that produces both jobs races with TriggerJob. *)
CreateProduces == [d \in Schedules |-> Jobs]
CreatePrio     == [r \in Requesters |-> 1]
=============================================================================
