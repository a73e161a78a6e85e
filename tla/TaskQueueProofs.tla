-------------------------- MODULE TaskQueueProofs --------------------------
(***************************************************************************)
(* Proofs about TaskQueue, for every choice of the constants.              *)
(***************************************************************************)
EXTENDS TaskQueue, TLAPS

(* Every statement maps a row of the table to a row of the table. *)
LEMMA RowsStayRows ==
    ASSUME NEW r \in Row
    PROVE  /\ Deleted(r) \in Row
           /\ \A w \in Workers : ClaimedRow(r, w) \in Row
           /\ StartedRow(r) \in Row
           /\ CompletedRow(r) \in Row
           /\ \A retry, backoff \in BOOLEAN : FailedRow(r, retry, backoff) \in Row
           /\ ReclaimedRow(r) \in Row
           /\ ExpiredRow(r) \in Row
           /\ TouchedRow(r) \in Row
           /\ \A j \in Jobs : CancelledRow(r, j) \in Row
           /\ MigratedRow(r) \in Row
           /\ StaleRow(r) \in Row /\ DueRow(r) \in Row /\ OldRow(r) \in Row
  <1>1. Deleted(r) \in Row
    BY DEF Row, Deleted, NoRow
  <1>2. \A w \in Workers : ClaimedRow(r, w) \in Row
    BY DEF Row, ClaimedRow, Active
  <1>3. StartedRow(r) \in Row
    <2>1. r.attempts + 1 \in Nat
      BY DEF Row
    <2> QED  BY <2>1, Zenon DEF Row, StartedRow, Active
  <1>4. CompletedRow(r) \in Row
    <2>1. [r EXCEPT !.status = "done", !.keyed = FALSE, !.old = FALSE] \in Row
      BY DEF Row, Terminal
    <2> QED  BY <1>1, <2>1 DEF CompletedRow
  <1>5. \A retry, backoff \in BOOLEAN : FailedRow(r, retry, backoff) \in Row
    BY ZenonT(40) DEF Row, FailedRow, Terminal, Active
  <1>6. ReclaimedRow(r) \in Row
    BY DEF Row, ReclaimedRow, Active
  <1>7. ExpiredRow(r) \in Row
    BY <1>1 DEF ExpiredRow
  <1>8. TouchedRow(r) \in Row
    BY DEF Row, TouchedRow
  <1>9. \A j \in Jobs : CancelledRow(r, j) \in Row
    BY DEF Row, CancelledRow, Terminal
  <1>10. MigratedRow(r) \in Row
    BY DEF Row, MigratedRow
  <1>11. StaleRow(r) \in Row /\ DueRow(r) \in Row /\ OldRow(r) \in Row
    BY Zenon DEF Row, StaleRow, DueRow, OldRow
  <1> QED
    BY <1>1, <1>2, <1>3, <1>4, <1>5, <1>6, <1>7, <1>8, <1>9, <1>10, <1>11

(* The absent row and a new one are rows of the table.                     *)
LEMMA FreshRow ==
    ASSUME NEW j \in Jobs, NEW p \in {0, 1}
    PROVE  NoRow \in Row /\ NewRow(j, p) \in Row
  <1>1. NoRow \in Row
    BY StoreAssumption DEF NoRow, Row
  <1>2. (j \in Keyed) \in BOOLEAN
    OBVIOUS
  <1>3. NewRow(j, p) \in Row
    BY <1>1, <1>2, Zenon DEF NewRow, Row, Active
  <1> QED  BY <1>1, <1>3

(* An insertion keeps the table.                                           *)
LEMMA InsertType ==
    ASSUME TypeOK, NEW j \in Jobs, NEW p \in {0, 1}, InsertTask(j, p)
    PROVE  tasks' \in [Ids -> Row] /\ nextId' \in 1 .. MaxTask + 1
  <1>1. CASE Insertable(j)
    BY <1>1, FreshRow, StoreAssumption DEF TypeOK, InsertTask, Insertable, Ids
  <1>2. CASE ~Insertable(j)
    BY <1>2 DEF TypeOK, InsertTask
  <1> QED  BY <1>1, <1>2

(* A slot without work is a slot, and holds no task.                       *)
LEMMA IdleSlotType == IdleSlot \in SlotType /\ IdleSlot.pc \notin Holding
  BY DEF IdleSlot, SlotType, Holding

(* A slot given a value of the right type leaves the slots well-typed. *)
LEMMA SlotUpdate ==
    ASSUME TypeOK, NEW s \in Slots, NEW v \in SlotType,
           v.pc \in Holding => v.id \in Ids,
           slot' = [slot EXCEPT ![s] = v]
    PROVE  /\ slot' \in [Slots -> SlotType]
           /\ \A t \in Slots : slot'[t].pc \in Holding => slot'[t].id \in Ids
  BY DEF TypeOK

(* A slot that goes on to another place of its work.                       *)
LEMMA AtType ==
    ASSUME TypeOK, NEW s \in Slots, NEW p \in {"idle", "claiming"} \cup Holding
    PROVE  At(s, p) \in SlotType /\ At(s, p).id = slot[s].id /\ At(s, p).pc = p
  BY DEF TypeOK, SlotType, At

(* A fault is counted.                                                     *)
LEMMA FaultType ==
    ASSUME TypeOK, Fault
    PROVE  faults' \in 0 .. MaxFaults
  BY QueueAssumption DEF TypeOK, Fault

(* Every step keeps the types.                                             *)
LEMMA TypeStep == TypeOK /\ [Next]_vars => TypeOK'
  <1> SUFFICES ASSUME TypeOK, [Next]_vars PROVE TypeOK'
    OBVIOUS
  <1> USE QueueAssumption
  <1>1. CASE CleanupStaleTasks
    <2>1. tasks' \in [Ids -> Row]
      BY <1>1, RowsStayRows DEF TypeOK, CleanupStaleTasks
    <2>2. reclaims' \in [Ids -> Nat] /\ overrun' \subseteq Ids
      BY <1>1 DEF TypeOK, CleanupStaleTasks
    <2>3. sched' \in SchedType
      BY <1>1 DEF TypeOK, CleanupStaleTasks, SchedType
    <2> QED  BY <1>1, <2>1, <2>2, <2>3 DEF TypeOK, CleanupStaleTasks
  <1>2. CASE DeleteOldTasks
    BY <1>2, RowsStayRows DEF TypeOK, DeleteOldTasks, SchedType, history
  <1>3. ASSUME NEW d \in Schedules, RunJob(d) PROVE TypeOK'
    BY <1>3 DEF TypeOK, RunJob, SchedType, history, store
  <1>4. CASE EndTick
    BY <1>4 DEF TypeOK, EndTick, SchedType, IdleSched, history, store
  <1>5. ASSUME NEW j \in Jobs, SchedCheck(j) PROVE TypeOK'
    BY <1>5, ZenonT(40) DEF TypeOK, SchedCheck, SchedType, history, store
  <1>6. ASSUME NEW j \in Jobs, SchedInsert(j) PROVE TypeOK'
    BY <1>6, InsertType DEF TypeOK, SchedInsert, SchedType, history
  <1>7. CASE SchedInsertError
    BY <1>7, FaultType DEF TypeOK, SchedInsertError, SchedType, history, store
  <1>8. CASE SaveSchedulerState
    BY <1>8 DEF TypeOK, SaveSchedulerState, SchedType, history, store
  <1>9. CASE SaveSchedulerStateError
    BY <1>9, FaultType DEF TypeOK, SaveSchedulerStateError, SchedType, history, store
  <1>10. ASSUME NEW r \in Requesters, RequestCheck(r) PROVE TypeOK'
    BY <1>10 DEF TypeOK, RequestCheck, history, store
  <1>11. ASSUME NEW r \in Requesters, RequestInsert(r) PROVE TypeOK'
    BY <1>11, InsertType DEF TypeOK, RequestInsert, history
  <1>12. ASSUME NEW j \in Jobs, CancelPendingImportTask(j) PROVE TypeOK'
    BY <1>12, RowsStayRows DEF TypeOK, CancelPendingImportTask, history
  <1>13. ASSUME NEW s \in Slots, ClaimSelect(s) PROVE TypeOK'
    <2>1. PICK C \in SUBSET DuePending :
             slot' = [slot EXCEPT ![s] = [IdleSlot EXCEPT !.pc = "claiming",
                                                          !.cands = Matching(C, s)]]
      BY <1>13 DEF ClaimSelect
    <2>2. Matching(C, s) \subseteq Ids
      BY DEF Matching, DuePending
    <2> DEFINE v == [IdleSlot EXCEPT !.pc = "claiming", !.cands = Matching(C, s)]
    <2>3. v \in SlotType /\ v.pc \notin Holding
      BY <2>2 DEF IdleSlot, SlotType, Holding
    <2>4. /\ slot' \in [Slots -> SlotType]
          /\ \A t \in Slots : slot'[t].pc \in Holding => slot'[t].id \in Ids
      BY <2>1, <2>3, SlotUpdate
    <2> QED  BY <1>13, <2>4 DEF TypeOK, ClaimSelect, history, store
  <1>14. ASSUME NEW s \in Slots, NEW i \in Ids, ClaimUpdate(s, i) PROVE TypeOK'
    <2>1. tasks' \in [Ids -> Row]
      <3>1. ClaimedRow(tasks[i], WorkerOf[s]) \in Row
        BY RowsStayRows DEF TypeOK
      <3> QED  BY <1>14, <3>1 DEF TypeOK, ClaimUpdate
    <2>2. ClaimedSlot(i) \in SlotType /\ ClaimedSlot(i).id \in Ids
      BY DEF ClaimedSlot, IdleSlot, SlotType, Holding
    <2>3. /\ slot' \in [Slots -> SlotType]
          /\ \A t \in Slots : slot'[t].pc \in Holding => slot'[t].id \in Ids
      <3> DEFINE v == [slot[s] EXCEPT !.cands = slot[s].cands \ {i}]
      <3>1. v \in SlotType /\ v.pc \notin Holding
        BY <1>14 DEF TypeOK, ClaimUpdate, SlotType, Holding
      <3>2. \/ slot' = [slot EXCEPT ![s] = ClaimedSlot(i)]
            \/ slot' = [slot EXCEPT ![s] = IdleSlot]
            \/ slot' = [slot EXCEPT ![s] = v]
        BY <1>14 DEF ClaimUpdate
      <3> HIDE DEF v
      <3> QED  BY <2>2, <3>1, <3>2, IdleSlotType, SlotUpdate
    <2> QED  BY <1>14, <2>1, <2>3 DEF TypeOK, ClaimUpdate, history
  <1>15. ASSUME NEW s \in Slots, StartTask(s) PROVE TypeOK'
    <2>1. slot[s].id \in Ids
      BY <1>15 DEF TypeOK, StartTask, Holding
    <2>2. tasks' \in [Ids -> Row]
      BY <1>15, <2>1, RowsStayRows DEF TypeOK, StartTask
    <2>3. /\ slot' \in [Slots -> SlotType]
          /\ \A t \in Slots : slot'[t].pc \in Holding => slot'[t].id \in Ids
      <3>1. \/ slot' = [slot EXCEPT ![s] = At(s, "running")]
            \/ slot' = [slot EXCEPT ![s] = IdleSlot]
        BY <1>15 DEF StartTask
      <3>2. "running" \in Holding
        BY DEF Holding
      <3> QED  BY <2>1, <3>1, <3>2, IdleSlotType, AtType, SlotUpdate
    <2> QED  BY <1>15, <2>2, <2>3 DEF TypeOK, StartTask, history
  <1>16. ASSUME NEW s \in Slots, TouchTask(s) PROVE TypeOK'
    <2>1. slot[s].id \in Ids
      BY <1>16 DEF TypeOK, TouchTask, Holding
    <2>2. tasks' \in [Ids -> Row]
      BY <1>16, <2>1, RowsStayRows DEF TypeOK, TouchTask
    <2>3. /\ slot' \in [Slots -> SlotType]
          /\ \A t \in Slots : slot'[t].pc \in Holding => slot'[t].id \in Ids
      <3>1. slot' = slot \/ slot' = [slot EXCEPT ![s] = At(s, "aborting")]
        BY <1>16 DEF TouchTask
      <3>2. "aborting" \in Holding
        BY DEF Holding
      <3>3. CASE slot' = slot
        BY <3>3 DEF TypeOK
      <3> QED  BY <2>1, <3>1, <3>2, <3>3, AtType, SlotUpdate
    <2> QED  BY <1>16, <2>2, <2>3 DEF TypeOK, TouchTask, history
  <1>17. ASSUME NEW s \in Slots, CompleteSelect(s) PROVE TypeOK'
    <2>1. /\ slot' \in [Slots -> SlotType]
          /\ \A t \in Slots : slot'[t].pc \in Holding => slot'[t].id \in Ids
      <3>1. \/ slot' = [slot EXCEPT ![s] = At(s, "completing")]
            \/ slot' = [slot EXCEPT ![s] = IdleSlot]
        BY <1>17 DEF CompleteSelect
      <3>2. "completing" \in Holding /\ slot[s].id \in Ids
        BY <1>17 DEF CompleteSelect, Holding, TypeOK
      <3> QED  BY <3>1, <3>2, IdleSlotType, AtType, SlotUpdate
    <2> QED  BY <1>17, <2>1 DEF TypeOK, CompleteSelect, history, store
  <1>18. ASSUME NEW s \in Slots, CompleteWrite(s) PROVE TypeOK'
    <2>1. slot[s].id \in Ids
      BY <1>18 DEF TypeOK, CompleteWrite, Holding
    <2>2. tasks' \in [Ids -> Row] /\ published' \subseteq Ids
      BY <1>18, <2>1, RowsStayRows DEF TypeOK, CompleteWrite
    <2> QED  BY <1>18, <2>2, IdleSlotType DEF TypeOK, CompleteWrite
  <1>19. ASSUME NEW s \in Slots, FailSelect(s) PROVE TypeOK'
    <2>1. slot[s].id \in Ids
      BY <1>19 DEF TypeOK, FailSelect, Holding
    <2>2. /\ slot' \in [Slots -> SlotType]
          /\ \A t \in Slots : slot'[t].pc \in Holding => slot'[t].id \in Ids
      <3> DEFINE r == tasks[slot[s].id]
                 v == [At(s, "failing") EXCEPT !.retry = MayRetry(r),
                                               !.backoff = r.attempts > 0]
      <3>1. "failing" \in Holding
        BY DEF Holding
      <3>2. v \in SlotType /\ v.id \in Ids
        <4>1. MayRetry(r) \in BOOLEAN /\ (r.attempts > 0) \in BOOLEAN
          BY <2>1 DEF TypeOK, Row, MayRetry
        <4>2. At(s, "failing") \in SlotType /\ At(s, "failing").id \in Ids
          BY <2>1, <3>1, AtType
        <4> QED  BY <4>1, <4>2, Zenon DEF SlotType
      <3>3. slot' = [slot EXCEPT ![s] = v] \/ slot' = [slot EXCEPT ![s] = IdleSlot]
        BY <1>19 DEF FailSelect
      <3> HIDE DEF v
      <3> QED  BY <3>2, <3>3, IdleSlotType, SlotUpdate
    <2> QED  BY <1>19, <2>2 DEF TypeOK, FailSelect, history, store
  <1>20. ASSUME NEW s \in Slots, FailWrite(s) PROVE TypeOK'
    <2>1. slot[s].id \in Ids /\ slot[s].retry \in BOOLEAN /\ slot[s].backoff \in BOOLEAN
      BY <1>20 DEF TypeOK, FailWrite, Holding, SlotType
    <2>2. tasks' \in [Ids -> Row]
      BY <1>20, <2>1, RowsStayRows DEF TypeOK, FailWrite
    <2> QED  BY <1>20, <2>2, IdleSlotType DEF TypeOK, FailWrite, history
  <1>21. ASSUME NEW s \in Slots, GiveUp(s) PROVE TypeOK'
    BY <1>21, IdleSlotType, FaultType DEF TypeOK, GiveUp, history, store
  <1>22. CASE Crash
    <2>1. tasks' \in [Ids -> Row]
      BY <1>22, RowsStayRows DEF TypeOK, Crash
    <2>2. /\ slot' \in [Slots -> SlotType]
          /\ \A t \in Slots : slot'[t].pc \in Holding => slot'[t].id \in Ids
      BY <1>22, IdleSlotType DEF TypeOK, Crash
    <2>3. sched' \in SchedType /\ faults' \in 0 .. MaxFaults
      BY <1>22, FaultType DEF Crash, SchedType, IdleSched
    <2> QED  BY <1>22, <2>1, <2>2, <2>3 DEF TypeOK, Crash, history
  <1>23. ASSUME NEW i \in Ids, LeaseExpires(i) PROVE TypeOK'
    <2>1. tasks' \in [Ids -> Row]
      BY <1>23, RowsStayRows DEF TypeOK, LeaseExpires
    <2> QED  BY <1>23, <2>1, FaultType DEF TypeOK, LeaseExpires, history
  <1>24. ASSUME NEW i \in Ids, BackoffEnds(i) PROVE TypeOK'
    <2>1. tasks' \in [Ids -> Row]
      BY <1>24, RowsStayRows DEF TypeOK, BackoffEnds
    <2> QED  BY <1>24, <2>1 DEF TypeOK, BackoffEnds, history
  <1>25. ASSUME NEW i \in Ids, TaskTTLPasses(i) PROVE TypeOK'
    <2>1. tasks' \in [Ids -> Row]
      BY <1>25, RowsStayRows DEF TypeOK, TaskTTLPasses
    <2> QED  BY <1>25, <2>1 DEF TypeOK, TaskTTLPasses, history
  <1>26. ASSUME NEW d \in Schedules, NextRunPasses(d) PROVE TypeOK'
    BY <1>26 DEF TypeOK, NextRunPasses, history, store
  <1>27. CASE UNCHANGED vars
    BY <1>27 DEF TypeOK, vars
  <1>28. CASE MaintenanceError
    BY <1>28, FaultType DEF TypeOK, MaintenanceError, SchedType, history, store
  <1>29. ASSUME NEW d \in Schedules, GetSchedulerStateError(d) PROVE TypeOK'
    BY <1>29, FaultType DEF TypeOK, GetSchedulerStateError, SchedType, history, store
  <1>30. ASSUME NEW r \in Requesters, RequestError(r) PROVE TypeOK'
    BY <1>30, FaultType DEF TypeOK, RequestError, history, store
  <1> QED
    BY <1>1, <1>2, <1>3, <1>4, <1>5, <1>6, <1>7, <1>8, <1>9, <1>10, <1>11, <1>12,
       <1>13, <1>14, <1>15, <1>16, <1>17, <1>18, <1>19, <1>20, <1>21, <1>22, <1>23,
       <1>24, <1>25, <1>26, <1>27, <1>28, <1>29, <1>30
       DEF Next, SchedStep, SlotStep

(* The types hold at first.                                                *)
LEMMA InitType == Init => TypeOK
  BY FreshRow, IdleSlotType, StoreAssumption, QueueAssumption
     DEF Init, StoreInit, TypeOK, IdleSched, SchedType, Ids

(* Type correctness of the task queue. *)
THEOREM TypeCorrect == Spec => []TypeOK
  BY InitType, TypeStep, PTL DEF Spec

-----------------------------------------------------------------------------
(* The steps that touch neither the table, nor a slot, nor the history. *)
Quiet == UNCHANGED <<tasks, nextId, slot, reclaims, overrun, published>>

Insertion == /\ \E j \in Jobs, p \in {0, 1} : InsertTask(j, p)
             /\ UNCHANGED <<slot, reclaims, overrun, published>>

(* Every step is a quiet one, an insertion, or one of the named actions. *)
LEMMA StepCases ==
    ASSUME [Next]_vars
    PROVE  \/ Quiet \/ Insertion \/ CleanupStaleTasks \/ DeleteOldTasks
           \/ \E j \in Jobs : CancelPendingImportTask(j)
           \/ \E s \in Slots : \/ ClaimSelect(s)
                               \/ \E i \in Ids : ClaimUpdate(s, i)
                               \/ StartTask(s) \/ TouchTask(s)
                               \/ CompleteSelect(s) \/ CompleteWrite(s)
                               \/ FailSelect(s) \/ FailWrite(s) \/ GiveUp(s)
           \/ Crash
           \/ \E i \in Ids : LeaseExpires(i) \/ BackoffEnds(i) \/ TaskTTLPasses(i)
  <1>1. \/ \E d \in Schedules : RunJob(d) \/ NextRunPasses(d) \/ GetSchedulerStateError(d)
        \/ MaintenanceError \/ EndTick \/ SchedInsertError \/ SaveSchedulerState \/ SaveSchedulerStateError
        \/ \E j \in Jobs : SchedCheck(j)
        \/ \E r \in Requesters : RequestCheck(r) \/ RequestError(r)
        \/ UNCHANGED vars
        => Quiet
    BY DEF RunJob, NextRunPasses, GetSchedulerStateError, MaintenanceError, EndTick,
           SchedInsertError, SaveSchedulerState, SaveSchedulerStateError, SchedCheck,
           RequestCheck, RequestError, vars, store, history, Quiet
  <1>2. \/ \E j \in Jobs : SchedInsert(j)
        \/ \E r \in Requesters : RequestInsert(r)
        => Insertion
    BY QueueAssumption DEF SchedInsert, RequestInsert, Insertion, history
  <1> QED  BY <1>1, <1>2 DEF Next, SchedStep, SlotStep

(***************************************************************************)
(* What each statement does to the fields the invariants speak of.         *)
(***************************************************************************)
Same(a, b) == a.job = b.job /\ a.attempts = b.attempts

Untouched(a, b) == Same(a, b) /\ a.status = b.status /\ (a.keyed <=> b.keyed)
                   /\ a.lease = b.lease /\ a.worker = b.worker

(* What the insertion writes.                                              *)
LEMMA NewEffect ==
    ASSUME NEW j \in Jobs, NEW p \in {0, 1}
    PROVE  LET n == NewRow(j, p) IN
           /\ n.status = "pending" /\ n.job = j /\ n.attempts = 0
           /\ (n.keyed <=> j \in Keyed)
           /\ n.lease = "none" /\ n.worker = NoWorker
  BY DEF NewRow, NoRow

(* What is left of a deleted row.                                          *)
LEMMA DeletedEffect ==
    ASSUME NEW r \in Row
    PROVE  Deleted(r).status = "absent" /\ ~Deleted(r).keyed /\ Deleted(r).job = r.job
  BY DEF Deleted, NoRow

(* What the update of ClaimTask writes.                                    *)
LEMMA ClaimedEffect ==
    ASSUME NEW r \in Row, NEW w
    PROVE  LET c == ClaimedRow(r, w) IN
           /\ c.status = "claimed" /\ c.worker = w /\ c.lease = "fresh"
           /\ Same(c, r) /\ (c.keyed <=> r.keyed)
  BY DEF ClaimedRow, Row, Same

(* What StartTask writes: one attempt more.                                *)
LEMMA StartedEffect ==
    ASSUME NEW r \in Row
    PROVE  LET c == StartedRow(r) IN
           /\ c.status = "running" /\ c.attempts = r.attempts + 1 /\ c.job = r.job
           /\ (c.keyed <=> r.keyed) /\ c.lease = r.lease /\ c.worker = r.worker
  BY DEF StartedRow, Row

(* What CompleteTask writes: only to a running task.                       *)
LEMMA CompletedEffect ==
    ASSUME NEW r \in Row
    PROVE  LET c == CompletedRow(r) IN
           /\ r.status # "running" => c = r
           /\ r.status = "running" =>
                 /\ c.status \in {"done", "absent"} /\ ~c.keyed /\ c.job = r.job
                 /\ c.status = "done" => c.attempts = r.attempts
  BY DeletedEffect DEF CompletedRow, Row

(* What FailTask writes: back to pending, or failed.                       *)
LEMMA FailedEffect ==
    ASSUME NEW r \in Row, NEW retry \in BOOLEAN, NEW backoff \in BOOLEAN
    PROVE  LET c == FailedRow(r, retry, backoff) IN
           /\ r.status = "absent" => c = r
           /\ r.status # "absent" /\ retry =>
                 /\ c.status = "pending" /\ c.worker = NoWorker /\ c.lease = "none"
                 /\ Same(c, r) /\ (c.keyed <=> r.keyed)
           /\ r.status # "absent" /\ ~retry =>
                 c.status = "failed" /\ ~c.keyed /\ Same(c, r)
  BY DEF FailedRow, Row, Same

(* What CleanupStaleTasks writes to a stale row.                           *)
LEMMA ReclaimedEffect ==
    ASSUME NEW r \in Row
    PROVE  LET c == ReclaimedRow(r) IN
           /\ ~IsStale(r) => c = r
           /\ IsStale(r) =>
                 /\ c.status = "pending" /\ c.worker = NoWorker /\ c.lease = "none"
                 /\ Same(c, r) /\ (c.keyed <=> r.keyed)
  BY DEF ReclaimedRow, Row, Same

(* What DeleteOldTasks does to a row.                                      *)
LEMMA ExpiredEffect ==
    ASSUME NEW r \in Row
    PROVE  LET c == ExpiredRow(r) IN
           \/ c = r
           \/ c.status = "absent" /\ ~c.keyed /\ c.job = r.job /\ r.status \in Terminal
  BY DeletedEffect DEF ExpiredRow

(* What TouchTask writes: a fresh lease.                                   *)
LEMMA TouchedEffect ==
    ASSUME NEW r \in Row
    PROVE  LET c == TouchedRow(r) IN
           /\ Same(c, r) /\ (c.keyed <=> r.keyed) /\ c.status = r.status
           /\ c.lease = "fresh" /\ c.worker = r.worker
  BY DEF TouchedRow, Row, Same

(* What a cancellation writes: only to a pending row.                      *)
LEMMA CancelledEffect ==
    ASSUME NEW r \in Row, NEW j
    PROVE  LET c == CancelledRow(r, j) IN
           \/ c = r
           \/ c.status = "failed" /\ ~c.keyed /\ Same(c, r) /\ r.status = "pending"
  BY DEF CancelledRow, Row, Same

(* What the migration writes at a start: ended rows lose their key.        *)
LEMMA MigratedEffect ==
    ASSUME NEW r \in Row
    PROVE  LET c == MigratedRow(r) IN
           \/ c = r
           \/ c.status = r.status /\ ~c.keyed /\ Same(c, r) /\ r.status \in Terminal
  BY DEF MigratedRow, Row, Same

(* What the clock changes of a row: never its state.                       *)
LEMMA ClockEffect ==
    ASSUME NEW r \in Row
    PROVE  /\ LET c == StaleRow(r) IN
              /\ Same(c, r) /\ (c.keyed <=> r.keyed) /\ c.status = r.status
              /\ c.lease = "expired" /\ c.worker = r.worker
           /\ Untouched(DueRow(r), r)
           /\ Untouched(OldRow(r), r)
  BY DEF StaleRow, DueRow, OldRow, Row, Same, Untouched

(***************************************************************************)
(* What each step of a slot does to the slots and to the rows.             *)
(***************************************************************************)
Others(s) == \A t \in Slots \ {s} : slot'[t] = slot[t]

Released(s) == /\ slot'[s].pc \notin Holding
               /\ slot'[s].cands \subseteq slot[s].cands
               /\ Others(s)

Moved(s, p) == /\ slot[s].pc \in Holding /\ slot'[s].pc = p
               /\ slot'[s].id = slot[s].id /\ slot'[s].cands = slot[s].cands
               /\ Others(s)

Wrote(i, r) == /\ i \in Ids /\ tasks'[i] = r
               /\ \A k \in Ids \ {i} : tasks'[k] = tasks[k]

(* What IdleSlot and At make of a slot, and of no other.                   *)
LEMMA SlotMoves ==
    ASSUME TypeOK, NEW s \in Slots
    PROVE  /\ slot' = [slot EXCEPT ![s] = IdleSlot] => Released(s)
           /\ \A p \in Holding : slot[s].pc \in Holding
                 /\ slot' = [slot EXCEPT ![s] = At(s, p)] => Moved(s, p)
  <1>1. IdleSlot.pc \notin Holding /\ IdleSlot.cands = {}
    BY DEF IdleSlot, Holding
  <1>2. ASSUME NEW p \in Holding
        PROVE  At(s, p).pc = p /\ At(s, p).id = slot[s].id /\ At(s, p).cands = slot[s].cands
    BY DEF At, TypeOK, SlotType
  <1> QED  BY <1>1, <1>2 DEF TypeOK, Released, Moved, Others

(* ClaimTask reads its candidates.                                         *)
LEMMA ClaimSelectEffect ==
    ASSUME TypeOK, NEW s \in Slots, ClaimSelect(s)
    PROVE  /\ UNCHANGED <<tasks, nextId, reclaims, overrun, published>>
           /\ slot'[s].pc \notin Holding /\ slot'[s].cands \subseteq DuePending
           /\ Others(s)
  <1>1. PICK C \in SUBSET DuePending :
           slot' = [slot EXCEPT ![s] = [IdleSlot EXCEPT !.pc = "claiming",
                                                        !.cands = Matching(C, s)]]
    BY DEF ClaimSelect
  <1> DEFINE v == [IdleSlot EXCEPT !.pc = "claiming", !.cands = Matching(C, s)]
  <1>2. v.pc \notin Holding /\ v.cands \subseteq DuePending
    BY DEF IdleSlot, Holding, Matching
  <1>3. slot'[s] = v /\ Others(s)
    BY <1>1 DEF TypeOK, Others
  <1> QED  BY <1>2, <1>3 DEF ClaimSelect, store, history

(* ClaimTask writes one of them, or loses it.                              *)
LEMMA ClaimUpdateEffect ==
    ASSUME TypeOK, NEW s \in Slots, NEW i \in Ids, ClaimUpdate(s, i)
    PROVE  /\ UNCHANGED <<nextId, reclaims, overrun, published>>
           /\ i \in slot[s].cands
           /\ \/ /\ Wrote(i, ClaimedRow(tasks[i], WorkerOf[s]))
                 /\ tasks[i].status = "pending"
                 /\ slot'[s].pc = "claimed" /\ slot'[s].id = i /\ slot'[s].cands = {}
                 /\ Others(s)
              \/ tasks' = tasks /\ Released(s)
  <1> DEFINE v == [slot[s] EXCEPT !.cands = slot[s].cands \ {i}]
  <1>1. /\ ClaimedSlot(i).pc = "claimed" /\ ClaimedSlot(i).id = i
        /\ ClaimedSlot(i).cands = {}
    BY DEF ClaimedSlot, IdleSlot
  <1>2. v.pc \notin Holding /\ v.cands \subseteq slot[s].cands
    BY DEF ClaimUpdate, TypeOK, SlotType, Holding
  <1>3. CASE Claimable(i)
    <2>1. /\ slot' = [slot EXCEPT ![s] = ClaimedSlot(i)]
          /\ tasks' = [tasks EXCEPT ![i] = ClaimedRow(tasks[i], WorkerOf[s])]
      BY <1>3 DEF ClaimUpdate
    <2>2. slot'[s] = ClaimedSlot(i) /\ Others(s)
      BY <2>1 DEF TypeOK, Others
    <2>3. Wrote(i, ClaimedRow(tasks[i], WorkerOf[s]))
      BY <2>1 DEF TypeOK, Wrote
    <2> QED  BY <1>1, <1>3, <2>2, <2>3 DEF Claimable, ClaimUpdate, history
  <1>4. CASE ~Claimable(i)
    <2>1. slot' = [slot EXCEPT ![s] = IdleSlot] \/ slot' = [slot EXCEPT ![s] = v]
      BY <1>4 DEF ClaimUpdate
    <2>2. slot' = [slot EXCEPT ![s] = v] => slot'[s] = v /\ Others(s)
      BY DEF TypeOK, Others
    <2> HIDE DEF v
    <2>3. Released(s)
      BY <1>2, <2>1, <2>2, SlotMoves DEF Released
    <2> QED  BY <1>4, <2>3 DEF ClaimUpdate, history
  <1> QED  BY <1>3, <1>4

(* StartTask writes, or the slot gives up.                                 *)
LEMMA StartTaskEffect ==
    ASSUME TypeOK, NEW s \in Slots, StartTask(s)
    PROVE  LET i == slot[s].id IN
           /\ UNCHANGED <<nextId, reclaims, overrun, published>>
           /\ Holds(s, i)
           /\ \/ /\ Wrote(i, StartedRow(tasks[i])) /\ tasks[i].status = "claimed"
                 /\ Moved(s, "running")
              \/ tasks' = tasks /\ Released(s)
  <1>1. slot[s].id \in Ids /\ slot[s].pc \in Holding /\ "running" \in Holding
    BY DEF StartTask, TypeOK, Holding
  <1> QED  BY <1>1, SlotMoves DEF StartTask, Startable, TypeOK, Wrote, Holds, history

(* TouchTask writes, or the slot aborts.                                   *)
LEMMA TouchTaskEffect ==
    ASSUME TypeOK, NEW s \in Slots, TouchTask(s)
    PROVE  LET i == slot[s].id IN
           /\ UNCHANGED <<nextId, reclaims, overrun, published>>
           /\ i \in Ids /\ Holds(s, i)
           /\ \/ Wrote(i, TouchedRow(tasks[i])) /\ tasks[i].status \in Owned /\ slot' = slot
              \/ tasks' = tasks /\ tasks[i].status \notin Owned /\ Moved(s, "aborting")
  <1>1. slot[s].id \in Ids /\ slot[s].pc \in Holding /\ "aborting" \in Holding
    BY DEF TouchTask, TypeOK, Holding
  <1> QED  BY <1>1, SlotMoves DEF TouchTask, Touchable, TypeOK, Wrote, Holds, history

(* CompleteTask reads its row.                                             *)
LEMMA CompleteSelectEffect ==
    ASSUME TypeOK, NEW s \in Slots, CompleteSelect(s)
    PROVE  /\ UNCHANGED <<tasks, nextId, reclaims, overrun, published>>
           /\ Holds(s, slot[s].id)
           /\ \/ Moved(s, "completing") /\ tasks[slot[s].id].status = "running"
              \/ Released(s)
  <1>1. slot[s].pc \in Holding /\ "completing" \in Holding
    BY DEF CompleteSelect, Holding
  <1> QED  BY <1>1, SlotMoves DEF CompleteSelect, Holds, store, history

(* CompleteTask writes, and the slot is free.                              *)
LEMMA CompleteWriteEffect ==
    ASSUME TypeOK, NEW s \in Slots, CompleteWrite(s)
    PROVE  LET i == slot[s].id IN
           /\ UNCHANGED <<nextId, reclaims, overrun>>
           /\ published' \subseteq published \cup {i}
           /\ slot[s].pc = "completing" /\ Holds(s, i)
           /\ Wrote(i, CompletedRow(tasks[i])) /\ Released(s)
  <1>1. slot[s].id \in Ids /\ slot[s].pc \in Holding
    BY DEF CompleteWrite, TypeOK, Holding
  <1> QED  BY <1>1, SlotMoves DEF CompleteWrite, TypeOK, Wrote, Holds

(* FailTask reads its row and decides on a retry.                          *)
LEMMA FailSelectEffect ==
    ASSUME TypeOK, NEW s \in Slots, FailSelect(s)
    PROVE  LET i == slot[s].id IN
           /\ UNCHANGED <<tasks, nextId, reclaims, overrun, published>>
           /\ Holds(s, i)
           /\ \/ Moved(s, "failing") /\ (slot'[s].retry <=> MayRetry(tasks[i]))
              \/ Released(s)
  <1> DEFINE r == tasks[slot[s].id]
             v == [At(s, "failing") EXCEPT !.retry = MayRetry(r),
                                           !.backoff = r.attempts > 0]
  <1>1. slot[s].pc \in Holding /\ "failing" \in Holding
    BY DEF FailSelect, Holding
  <1>2. At(s, "failing") \in SlotType /\ At(s, "failing").cands = slot[s].cands
        /\ At(s, "failing").id = slot[s].id /\ At(s, "failing").pc = "failing"
    BY <1>1, AtType DEF At, TypeOK, SlotType
  <1>3. v.pc = "failing" /\ v.id = slot[s].id /\ v.cands = slot[s].cands
        /\ (v.retry <=> MayRetry(r))
    BY <1>2, Zenon DEF SlotType
  <1>4. slot' = [slot EXCEPT ![s] = v] \/ slot' = [slot EXCEPT ![s] = IdleSlot]
    BY DEF FailSelect
  <1>5. slot' = [slot EXCEPT ![s] = v] => slot'[s] = v /\ Others(s)
    BY DEF TypeOK, Others
  <1> HIDE DEF v
  <1> QED  BY <1>1, <1>3, <1>4, <1>5, SlotMoves DEF FailSelect, Moved, Holds, store, history

(* FailTask writes what it decided, and the slot is free.                  *)
LEMMA FailWriteEffect ==
    ASSUME TypeOK, NEW s \in Slots, FailWrite(s)
    PROVE  LET i == slot[s].id IN
           /\ UNCHANGED <<nextId, reclaims, overrun, published>>
           /\ slot[s].pc = "failing" /\ Holds(s, i)
           /\ slot[s].retry \in BOOLEAN /\ slot[s].backoff \in BOOLEAN
           /\ Wrote(i, FailedRow(tasks[i], slot[s].retry, slot[s].backoff))
           /\ Released(s)
  <1>1. slot[s].id \in Ids /\ slot[s].pc \in Holding
    BY DEF FailWrite, TypeOK, Holding
  <1>2. slot[s].retry \in BOOLEAN /\ slot[s].backoff \in BOOLEAN
    BY DEF TypeOK, SlotType
  <1> QED  BY <1>1, <1>2, SlotMoves DEF FailWrite, TypeOK, Wrote, Holds, history

(* A slot forgets its task; the row stays.                                 *)
LEMMA GiveUpEffect ==
    ASSUME TypeOK, NEW s \in Slots, GiveUp(s)
    PROVE  UNCHANGED <<tasks, nextId, reclaims, overrun, published>> /\ Released(s)
  BY SlotMoves DEF GiveUp, store, history

(* What the steps that no slot takes do to the rows. *)
LEMMA CleanupEffect ==
    ASSUME TypeOK, CleanupStaleTasks
    PROVE  /\ UNCHANGED <<nextId, slot, published>>
           /\ \A i \in Ids :
                 /\ tasks'[i] = ReclaimedRow(tasks[i])
                 /\ i \in overrun' <=> i \in overrun \/ (IsStale(tasks[i]) /\ Held(i))
                 /\ reclaims'[i] = IF IsStale(tasks[i]) THEN reclaims[i] + 1 ELSE reclaims[i]
  BY DEF CleanupStaleTasks, TypeOK

(* DeleteOldTasks touches ended rows alone.                                *)
LEMMA DeleteOldEffect ==
    ASSUME TypeOK, DeleteOldTasks
    PROVE  /\ UNCHANGED <<nextId, slot, reclaims, overrun, published>>
           /\ \A i \in Ids : tasks'[i] = ExpiredRow(tasks[i])
  BY DEF DeleteOldTasks, TypeOK, history

(* A cancellation touches pending rows alone.                              *)
LEMMA CancelEffect ==
    ASSUME TypeOK, NEW j \in Jobs, CancelPendingImportTask(j)
    PROVE  /\ UNCHANGED <<nextId, slot, reclaims, overrun, published>>
           /\ \A i \in Ids : tasks'[i] = CancelledRow(tasks[i], j)
  BY DEF CancelPendingImportTask, TypeOK, history

(* A crash empties the slots of the process and reruns the migration.      *)
LEMMA CrashEffect ==
    ASSUME TypeOK, Crash
    PROVE  /\ UNCHANGED <<nextId, reclaims, overrun, published>>
           /\ \A i \in Ids : tasks'[i] = MigratedRow(tasks[i])
           /\ \A s \in Slots : \/ slot'[s] = slot[s]
                               \/ slot'[s].pc \notin Holding /\ slot'[s].cands = {}
  <1>1. IdleSlot.pc \notin Holding /\ IdleSlot.cands = {}
    BY DEF IdleSlot, Holding
  <1> QED  BY <1>1 DEF Crash, TypeOK, history

(* The clock moves no state and no slot.                                   *)
LEMMA ClockStepEffect ==
    ASSUME TypeOK, NEW i \in Ids, LeaseExpires(i) \/ BackoffEnds(i) \/ TaskTTLPasses(i)
    PROVE  /\ UNCHANGED <<nextId, slot, reclaims, overrun, published>>
           /\ \A k \in Ids :
                 /\ Same(tasks'[k], tasks[k])
                 /\ tasks'[k].status = tasks[k].status /\ tasks'[k].worker = tasks[k].worker
                 /\ tasks'[k].keyed <=> tasks[k].keyed
                 /\ \/ tasks'[k].lease = tasks[k].lease
                    \/ tasks'[k].lease = "expired" /\ tasks[k].status \in Owned
  <1>1. Wrote(i, tasks'[i])
    BY DEF LeaseExpires, BackoffEnds, TaskTTLPasses, TypeOK, Wrote
  <1>2. UNCHANGED <<nextId, slot, reclaims, overrun, published>>
    BY DEF LeaseExpires, BackoffEnds, TaskTTLPasses, history
  <1>3. \/ tasks'[i] = StaleRow(tasks[i]) /\ tasks[i].status \in Owned
        \/ tasks'[i] = DueRow(tasks[i])
        \/ tasks'[i] = OldRow(tasks[i])
    BY DEF LeaseExpires, BackoffEnds, TaskTTLPasses, TypeOK
  <1>4. tasks[i] \in Row
    BY DEF TypeOK
  <1> QED  BY <1>1, <1>2, <1>3, <1>4, ClockEffect DEF Wrote, Untouched, Same

(* An insertion writes the next id, and no other.                          *)
LEMMA InsertionEffect ==
    ASSUME TypeOK, Insertion
    PROVE  /\ UNCHANGED <<slot, reclaims, overrun, published>>
           /\ \/ UNCHANGED <<tasks, nextId>>
              \/ \E j \in Jobs, p \in {0, 1} :
                    /\ Wrote(nextId, NewRow(j, p)) /\ nextId' = nextId + 1
                    /\ j \in Keyed => ~UniqueConflict(j)
  <1>1. PICK j \in Jobs, p \in {0, 1} : InsertTask(j, p)
    BY DEF Insertion
  <1>2. CASE ~Insertable(j)
    BY <1>1, <1>2 DEF InsertTask, Insertion
  <1>3. CASE Insertable(j)
    <2>1. Wrote(nextId, NewRow(j, p)) /\ nextId' = nextId + 1
      BY <1>1, <1>3 DEF InsertTask, Insertable, TypeOK, Wrote
    <2> QED  BY <1>3, <2>1 DEF Insertion, Insertable
  <1> QED  BY <1>2, <1>3

(* Every step keeps the leases right. *)
LEMMA LeaseStep ==
    ASSUME IInv, [Next]_vars, TypeOK'
    PROVE  LeaseInv'
  <1>0. TypeOK /\ LeaseInv /\ \A i \in Ids : tasks[i] \in Row
    BY DEF IInv, TypeOK
  <1> USE <1>0, StoreAssumption, QueueAssumption DEF LeaseInv, Same, Untouched, Owned, Terminal
  <1>1. CASE Quiet
    BY <1>1 DEF Quiet
  <1>2. CASE Insertion
    BY <1>2, InsertionEffect, NewEffect DEF Wrote
  <1>3. CASE CleanupStaleTasks
    BY <1>3, CleanupEffect, ReclaimedEffect DEF IsStale
  <1>4. CASE DeleteOldTasks
    BY <1>4, DeleteOldEffect, ExpiredEffect
  <1>5. ASSUME NEW j \in Jobs, CancelPendingImportTask(j) PROVE LeaseInv'
    BY <1>5, CancelEffect, CancelledEffect
  <1>6. ASSUME NEW s \in Slots, ClaimSelect(s) PROVE LeaseInv'
    BY <1>6, ClaimSelectEffect DEF Others
  <1>7. ASSUME NEW s \in Slots, NEW i \in Ids, ClaimUpdate(s, i) PROVE LeaseInv'
    BY <1>7, ClaimUpdateEffect, ClaimedEffect DEF Wrote, Released, Others
  <1>8. ASSUME NEW s \in Slots, StartTask(s) PROVE LeaseInv'
    BY <1>8, StartTaskEffect, StartedEffect DEF Wrote, Released, Moved, Others
  <1>9. ASSUME NEW s \in Slots, TouchTask(s) PROVE LeaseInv'
    BY <1>9, TouchTaskEffect, TouchedEffect DEF Wrote, Moved, Others
  <1>10. ASSUME NEW s \in Slots, CompleteSelect(s) PROVE LeaseInv'
    BY <1>10, CompleteSelectEffect DEF Released, Moved, Others
  <1>11. ASSUME NEW s \in Slots, CompleteWrite(s) PROVE LeaseInv'
    BY <1>11, CompleteWriteEffect, CompletedEffect DEF Wrote, Released, Others
  <1>12. ASSUME NEW s \in Slots, FailSelect(s) PROVE LeaseInv'
    BY <1>12, FailSelectEffect DEF Released, Moved, Others
  <1>13. ASSUME NEW s \in Slots, FailWrite(s) PROVE LeaseInv'
    BY <1>13, FailWriteEffect, FailedEffect DEF Wrote, Released, Others
  <1>14. ASSUME NEW s \in Slots, GiveUp(s) PROVE LeaseInv'
    BY <1>14, GiveUpEffect DEF Released, Others
  <1>15. CASE Crash
    BY <1>15, CrashEffect, MigratedEffect
  <1>16. ASSUME NEW i \in Ids, LeaseExpires(i) \/ BackoffEnds(i) \/ TaskTTLPasses(i)
        PROVE  LeaseInv'
    BY <1>16, ClockStepEffect
  <1> QED
    BY StepCases, <1>1, <1>2, <1>3, <1>4, <1>5, <1>6, <1>7, <1>8, <1>9, <1>10, <1>11, <1>12,
       <1>13, <1>14, <1>15, <1>16

(* What a statement on row i must not do, for keys to stay unique. *)
KeptKey(i) ==
    /\ tasks'[i].job = tasks[i].job
    /\ tasks'[i].keyed => tasks[i].keyed /\ tasks'[i].status \in Active
    /\ tasks'[i].status \in Active /\ i \notin overrun' =>
          /\ tasks[i].status \in Active /\ i \notin overrun
          /\ tasks[i].keyed => tasks'[i].keyed

(* A step in which no row takes a key keeps keys unique.                   *)
LEMMA KeysKept ==
    ASSUME KeyUnique, \A i \in Ids : KeptKey(i)
    PROVE  KeyUnique'
  BY DEF KeyUnique, KeptKey

(* Every step leaves the rows not yet inserted alone. *)
LEMMA FreshStep ==
    ASSUME IInv, [Next]_vars, TypeOK'
    PROVE  Fresh'
  <1>0. TypeOK /\ Fresh /\ \A i \in Ids : tasks[i] \in Row
    BY DEF IInv, TypeOK
  <1> USE <1>0 DEF Fresh, Holds, Untouched, Owned, Terminal, DuePending
  <1>1. CASE Quiet
    BY <1>1 DEF Quiet
  <1>2. CASE Insertion
    <2>1. CASE UNCHANGED <<tasks, nextId>>
      BY <1>2, <2>1, InsertionEffect
    <2>2. CASE \E j \in Jobs, p \in {0, 1} : Wrote(nextId, NewRow(j, p)) /\ nextId' = nextId + 1
      <3>1. nextId' = nextId + 1 /\ \A k \in Ids \ {nextId} : tasks'[k] = tasks[k]
        BY <2>2 DEF Wrote
      <3>2. \A k \in Ids : k >= nextId + 1 => k >= nextId /\ k # nextId
        BY DEF TypeOK, Ids
      <3> QED  BY <1>2, <3>1, <3>2, InsertionEffect
    <2> QED  BY <1>2, <2>1, <2>2, InsertionEffect
  <1>3. CASE CleanupStaleTasks
    BY <1>3, CleanupEffect, ReclaimedEffect DEF IsStale
  <1>4. CASE DeleteOldTasks
    BY <1>4, DeleteOldEffect, ExpiredEffect
  <1>5. ASSUME NEW j \in Jobs, CancelPendingImportTask(j) PROVE Fresh'
    BY <1>5, CancelEffect, CancelledEffect
  <1>6. ASSUME NEW s \in Slots, ClaimSelect(s) PROVE Fresh'
    BY <1>6, ClaimSelectEffect DEF Others
  <1>7. ASSUME NEW s \in Slots, NEW i \in Ids, ClaimUpdate(s, i) PROVE Fresh'
    BY <1>7, ClaimUpdateEffect, ClaimedEffect DEF Wrote, Released, Others
  <1>8. ASSUME NEW s \in Slots, StartTask(s) PROVE Fresh'
    <2>1. ~(slot[s].id >= nextId)
      BY <1>8, StartTaskEffect DEF Holding, StartTask, TypeOK
    <2>2. \A k \in Ids : k >= nextId => tasks'[k] = tasks[k]
      BY <1>8, <2>1, StartTaskEffect DEF Wrote
    <2> QED  BY <1>8, <2>2, StartTaskEffect DEF Released, Moved, Others
  <1>9. ASSUME NEW s \in Slots, TouchTask(s) PROVE Fresh'
    BY <1>9, TouchTaskEffect, TouchedEffect DEF Wrote, Moved, Others
  <1>10. ASSUME NEW s \in Slots, CompleteSelect(s) PROVE Fresh'
    BY <1>10, CompleteSelectEffect DEF Released, Moved, Others
  <1>11. ASSUME NEW s \in Slots, CompleteWrite(s) PROVE Fresh'
    BY <1>11, CompleteWriteEffect, CompletedEffect DEF Wrote, Released, Others
  <1>12. ASSUME NEW s \in Slots, FailSelect(s) PROVE Fresh'
    BY <1>12, FailSelectEffect DEF Released, Moved, Others
  <1>13. ASSUME NEW s \in Slots, FailWrite(s) PROVE Fresh'
    BY <1>13, FailWriteEffect, FailedEffect DEF Wrote, Released, Others
  <1>14. ASSUME NEW s \in Slots, GiveUp(s) PROVE Fresh'
    BY <1>14, GiveUpEffect DEF Released, Others
  <1>15. CASE Crash
    BY <1>15, CrashEffect, MigratedEffect
  <1>16. ASSUME NEW i \in Ids, LeaseExpires(i) \/ BackoffEnds(i) \/ TaskTTLPasses(i)
        PROVE  Fresh'
    BY <1>16, ClockStepEffect
  <1> QED
    BY StepCases, <1>1, <1>2, <1>3, <1>4, <1>5, <1>6, <1>7, <1>8, <1>9, <1>10, <1>11, <1>12,
       <1>13, <1>14, <1>15, <1>16

(* A task without attempts has one left.                                   *)
LEMMA FirstAttempt ==
    ASSUME NEW m \in Nat \ {0}, NEW c \in Nat
    PROVE  0 < m + c
  OBVIOUS

(* An attempt below the maximum is within the bound, reclaims or not.      *)
LEMMA RetryAttempt ==
    ASSUME NEW a \in Nat, NEW m \in Nat, NEW c \in Nat, a < m
    PROVE  a < m + c /\ a <= m + c
  OBVIOUS

(* FailTask keeps the attempts within their bound.                         *)
LEMMA FailWriteAttempts ==
    ASSUME IInv, NEW s \in Slots, FailWrite(s)
    PROVE  (AttemptsInv /\ AttemptsBounded)'
  <1> DEFINE i == slot[s].id
             r == tasks[i]
             n == tasks'[i]
  <1>1. /\ i \in Ids /\ r \in Row /\ n = FailedRow(r, slot[s].retry, slot[s].backoff)
        /\ slot[s].retry \in BOOLEAN /\ slot[s].backoff \in BOOLEAN
        /\ \A k \in Ids \ {i} : tasks'[k] = tasks[k]
        /\ UNCHANGED <<reclaims, overrun>>
    BY FailWriteEffect DEF IInv, Wrote, TypeOK
  <1>2. i \notin overrun =>
           r.status # "absent" /\ (slot[s].retry => r.attempts < MaxAttempts[r.job])
    BY <1>1, FailWriteEffect DEF IInv, SlotInv, Owned, MayRetry
  <1>3. ASSUME i \notin overrun
        PROVE  /\ n.attempts = r.attempts /\ n.job = r.job
               /\ slot[s].retry \/ n.status = "failed"
    BY <1>1, <1>2, <1>3, FailedEffect DEF Same
  <1>4. r.attempts \in Nat /\ MaxAttempts[r.job] \in Nat /\ reclaims[i] \in Nat
    BY <1>1, StoreAssumption DEF IInv, TypeOK, Row
  <1>5. i \notin overrun => r.attempts <= MaxAttempts[r.job] + reclaims[i]
    BY <1>1, <1>2 DEF IInv, AttemptsBounded
  <1> HIDE DEF i, r, n
  <1>6. i \notin overrun /\ slot[s].retry => r.attempts < MaxAttempts[r.job] + reclaims[i]
    BY <1>2, <1>4, RetryAttempt
  <1>7. ASSUME i \notin overrun
        PROVE  /\ n.status \in {"pending", "claimed"} =>
                     n.attempts < MaxAttempts[n.job] + reclaims[i]
               /\ n.attempts <= MaxAttempts[n.job] + reclaims[i]
    <2>1. n.attempts = r.attempts /\ n.job = r.job
      BY <1>3, <1>7, Zenon
    <2>2. n.attempts <= MaxAttempts[n.job] + reclaims[i]
      BY <2>1, <1>5, <1>7, Zenon
    <2>3. CASE slot[s].retry
      <3>1. n.attempts < MaxAttempts[n.job] + reclaims[i]
        BY <2>1, <2>3, <1>6, <1>7, Zenon
      <3> QED  BY <2>2, <3>1, Zenon
    <2>4. CASE ~slot[s].retry
      <3>1. n.status \notin {"pending", "claimed"}
        BY <2>4, <1>3, <1>7
      <3> QED  BY <2>2, <3>1, Zenon
    <2> QED  BY <2>3, <2>4, Zenon
  <1> USE DEF i, n
  <1> QED  BY <1>1, <1>7 DEF IInv, AttemptsInv, AttemptsBounded

(* Every step keeps the attempts bounded. *)
LEMMA AttemptsStep ==
    ASSUME IInv, [Next]_vars, TypeOK'
    PROVE  (AttemptsInv /\ AttemptsBounded)'
  <1>0. /\ TypeOK /\ AttemptsInv /\ AttemptsBounded /\ SlotInv
        /\ \A i \in Ids : /\ tasks[i].attempts \in Nat /\ MaxAttempts[tasks[i].job] \in Nat \ {0}
                          /\ reclaims[i] \in Nat /\ reclaims'[i] \in Nat
                          /\ tasks[i] \in Row
    BY StoreAssumption DEF IInv, TypeOK, Row
  <1> USE <1>0 DEF AttemptsInv, AttemptsBounded, SlotInv, Same, Untouched, Owned, Terminal, MayRetry
  <1>1. CASE Quiet
    BY <1>1 DEF Quiet
  <1>2. CASE Insertion
    <2>1. \A k \in Ids : \/ tasks'[k] = tasks[k]
                         \/ tasks'[k].attempts = 0 /\ tasks'[k].job \in Jobs
      BY <1>2, InsertionEffect, NewEffect DEF Wrote
    <2>2. \A j \in Jobs : MaxAttempts[j] \in Nat \ {0}
      BY StoreAssumption
    <2>3. UNCHANGED <<reclaims, overrun>>
      BY <1>2, InsertionEffect
    <2>4. ASSUME NEW k \in Ids \ overrun, tasks'[k] # tasks[k]
          PROVE  /\ tasks'[k].attempts < MaxAttempts[tasks'[k].job] + reclaims[k]
                 /\ tasks'[k].attempts <= MaxAttempts[tasks'[k].job] + reclaims[k]
      <3>1. /\ tasks'[k].attempts = 0 /\ MaxAttempts[tasks'[k].job] \in Nat \ {0}
            /\ reclaims[k] \in Nat
        BY <2>1, <2>2, <2>4
      <3> QED  BY <3>1, FirstAttempt
    <2> QED  BY <2>3, <2>4
  <1>3. CASE CleanupStaleTasks
    <2> SUFFICES ASSUME NEW k \in Ids \ overrun'
                PROVE  /\ tasks'[k].status \in {"pending", "claimed"} =>
                          tasks'[k].attempts < MaxAttempts[tasks'[k].job] + reclaims'[k]
                       /\ tasks'[k].status # "absent" =>
                          tasks'[k].attempts <= MaxAttempts[tasks'[k].job] + reclaims'[k]
      OBVIOUS
    <2>1. k \notin overrun /\ tasks'[k] = ReclaimedRow(tasks[k])
      BY <1>3, CleanupEffect
    <2>2. CASE IsStale(tasks[k])
      <3>1. /\ tasks'[k].attempts = tasks[k].attempts /\ tasks'[k].job = tasks[k].job
            /\ reclaims'[k] = reclaims[k] + 1
        BY <1>3, <2>1, <2>2, CleanupEffect, ReclaimedEffect
      <3> QED  BY <2>1, <2>2, <3>1 DEF IsStale
    <2>3. CASE ~IsStale(tasks[k])
      BY <1>3, <2>1, <2>3, CleanupEffect, ReclaimedEffect
    <2> QED  BY <2>2, <2>3
  <1>4. CASE DeleteOldTasks
    BY <1>4, DeleteOldEffect, ExpiredEffect
  <1>5. ASSUME NEW j \in Jobs, CancelPendingImportTask(j) PROVE (AttemptsInv /\ AttemptsBounded)'
    <2>1. \A k \in Ids : \/ tasks'[k] = tasks[k]
                         \/ Same(tasks'[k], tasks[k]) /\ tasks'[k].status = "failed"
                            /\ tasks[k].status = "pending"
      BY <1>5, CancelEffect, CancelledEffect
    <2> QED  BY <1>5, <2>1, CancelEffect
  <1>6. ASSUME NEW s \in Slots, ClaimSelect(s) PROVE (AttemptsInv /\ AttemptsBounded)'
    BY <1>6, ClaimSelectEffect DEF Others
  <1>7. ASSUME NEW s \in Slots, NEW i \in Ids, ClaimUpdate(s, i) PROVE (AttemptsInv /\ AttemptsBounded)'
    BY <1>7, ClaimUpdateEffect, ClaimedEffect DEF Wrote, Released, Others
  <1>8. ASSUME NEW s \in Slots, StartTask(s) PROVE (AttemptsInv /\ AttemptsBounded)'
    BY <1>8, StartTaskEffect, StartedEffect DEF Wrote, Released, Moved, Others
  <1>9. ASSUME NEW s \in Slots, TouchTask(s) PROVE (AttemptsInv /\ AttemptsBounded)'
    BY <1>9, TouchTaskEffect, TouchedEffect DEF Wrote, Moved, Others
  <1>10. ASSUME NEW s \in Slots, CompleteSelect(s) PROVE (AttemptsInv /\ AttemptsBounded)'
    BY <1>10, CompleteSelectEffect DEF Released, Moved, Others
  <1>11. ASSUME NEW s \in Slots, CompleteWrite(s) PROVE (AttemptsInv /\ AttemptsBounded)'
    BY <1>11, CompleteWriteEffect, CompletedEffect DEF Wrote, Released, Others
  <1>12. ASSUME NEW s \in Slots, FailSelect(s) PROVE (AttemptsInv /\ AttemptsBounded)'
    BY <1>12, FailSelectEffect DEF Released, Moved, Others
  <1>13. ASSUME NEW s \in Slots, FailWrite(s) PROVE (AttemptsInv /\ AttemptsBounded)'
    BY <1>13, FailWriteAttempts
  <1>14. ASSUME NEW s \in Slots, GiveUp(s) PROVE (AttemptsInv /\ AttemptsBounded)'
    BY <1>14, GiveUpEffect DEF Released, Others
  <1>15. CASE Crash
    <2>1. \A k \in Ids : \/ tasks'[k] = tasks[k]
                         \/ Same(tasks'[k], tasks[k]) /\ tasks'[k].status = tasks[k].status
      BY <1>15, CrashEffect, MigratedEffect
    <2> QED  BY <1>15, <2>1, CrashEffect
  <1>16. ASSUME NEW i \in Ids, LeaseExpires(i) \/ BackoffEnds(i) \/ TaskTTLPasses(i)
        PROVE  (AttemptsInv /\ AttemptsBounded)'
    BY <1>16, ClockStepEffect
  <1> QED
    BY StepCases, <1>1, <1>2, <1>3, <1>4, <1>5, <1>6, <1>7, <1>8, <1>9, <1>10, <1>11, <1>12,
       <1>13, <1>14, <1>15, <1>16

(* Every step keeps the events truthful. *)
LEMMA EventStep ==
    ASSUME IInv, [Next]_vars, TypeOK'
    PROVE  CompletedEventTruthful'
  <1>0. /\ TypeOK /\ CompletedEventTruthful /\ SlotInv /\ Fresh
        /\ published \subseteq Ids /\ nextId \in Nat /\ \A i \in Ids : tasks[i] \in Row
    BY DEF IInv, TypeOK
  <1> USE <1>0 DEF CompletedEventTruthful, SlotInv, Fresh, Holds, Untouched, Owned, Terminal
  <1>1. CASE Quiet
    BY <1>1 DEF Quiet
  <1>2. CASE Insertion
    BY <1>2, InsertionEffect, NewEffect DEF Wrote
  <1>3. CASE CleanupStaleTasks
    BY <1>3, CleanupEffect, ReclaimedEffect DEF IsStale
  <1>4. CASE DeleteOldTasks
    BY <1>4, DeleteOldEffect, ExpiredEffect
  <1>5. ASSUME NEW j \in Jobs, CancelPendingImportTask(j) PROVE CompletedEventTruthful'
    BY <1>5, CancelEffect, CancelledEffect
  <1>6. ASSUME NEW s \in Slots, ClaimSelect(s) PROVE CompletedEventTruthful'
    BY <1>6, ClaimSelectEffect DEF Others
  <1>7. ASSUME NEW s \in Slots, NEW i \in Ids, ClaimUpdate(s, i) PROVE CompletedEventTruthful'
    BY <1>7, ClaimUpdateEffect, ClaimedEffect DEF Wrote, Released, Others
  <1>8. ASSUME NEW s \in Slots, StartTask(s) PROVE CompletedEventTruthful'
    BY <1>8, StartTaskEffect, StartedEffect DEF Wrote, Released, Moved, Others
  <1>9. ASSUME NEW s \in Slots, TouchTask(s) PROVE CompletedEventTruthful'
    BY <1>9, TouchTaskEffect, TouchedEffect DEF Wrote, Moved, Others
  <1>10. ASSUME NEW s \in Slots, CompleteSelect(s) PROVE CompletedEventTruthful'
    BY <1>10, CompleteSelectEffect DEF Released, Moved, Others
  <1>11. ASSUME NEW s \in Slots, CompleteWrite(s) PROVE CompletedEventTruthful'
    BY <1>11, CompleteWriteEffect, CompletedEffect DEF Wrote, Released, Others
  <1>12. ASSUME NEW s \in Slots, FailSelect(s) PROVE CompletedEventTruthful'
    BY <1>12, FailSelectEffect DEF Released, Moved, Others
  <1>13. ASSUME NEW s \in Slots, FailWrite(s) PROVE CompletedEventTruthful'
    BY <1>13, FailWriteEffect, FailedEffect DEF Wrote, Released, Others
  <1>14. ASSUME NEW s \in Slots, GiveUp(s) PROVE CompletedEventTruthful'
    BY <1>14, GiveUpEffect DEF Released, Others
  <1>15. CASE Crash
    BY <1>15, CrashEffect, MigratedEffect
  <1>16. ASSUME NEW i \in Ids, LeaseExpires(i) \/ BackoffEnds(i) \/ TaskTTLPasses(i)
        PROVE  CompletedEventTruthful'
    BY <1>16, ClockStepEffect
  <1> QED
    BY StepCases, <1>1, <1>2, <1>3, <1>4, <1>5, <1>6, <1>7, <1>8, <1>9, <1>10, <1>11, <1>12,
       <1>13, <1>14, <1>15, <1>16

(* Every step leaves what the slots believe true. *)
LEMMA SlotInvStep ==
    ASSUME IInv, [Next]_vars, TypeOK'
    PROVE  SlotInv'
  <1>0. TypeOK /\ SlotInv /\ Exclusive /\ \A i \in Ids : tasks[i] \in Row
    BY DEF IInv, TypeOK
  <1> USE <1>0
  <1> USE DEF SlotInv, Exclusive, Holds, Held, Same, Untouched, Owned, Terminal, Holding, MayRetry
  <1>1. CASE Quiet
    BY <1>1 DEF Quiet
  <1>2. CASE Insertion
    <2>1. \A k \in Ids : tasks'[k] = tasks[k] \/ k = nextId
      BY <1>2, InsertionEffect DEF Wrote
    <2>2. \A s \in Slots : \A k \in Ids : Holds(s, k) => tasks'[k] = tasks[k]
      BY <2>1 DEF IInv, Fresh, TypeOK
    <2> QED  BY <1>2, <2>2, InsertionEffect
  <1>3. CASE CleanupStaleTasks
    BY <1>3, CleanupEffect, ReclaimedEffect DEF IsStale
  <1>4. CASE DeleteOldTasks
    BY <1>4, DeleteOldEffect, ExpiredEffect
  <1>5. ASSUME NEW j \in Jobs, CancelPendingImportTask(j) PROVE SlotInv'
    BY <1>5, CancelEffect, CancelledEffect
  <1>6. ASSUME NEW s \in Slots, ClaimSelect(s) PROVE SlotInv'
    BY <1>6, ClaimSelectEffect DEF Others
  <1>7. ASSUME NEW s \in Slots, NEW i \in Ids, ClaimUpdate(s, i) PROVE SlotInv'
    BY <1>7, ClaimUpdateEffect, ClaimedEffect DEF Wrote, Released, Others
  <1>8. ASSUME NEW s \in Slots, StartTask(s) PROVE SlotInv'
    BY <1>8, StartTaskEffect, StartedEffect DEF Wrote, Released, Moved, Others
  <1>9. ASSUME NEW s \in Slots, TouchTask(s) PROVE SlotInv'
    BY <1>9, TouchTaskEffect, TouchedEffect DEF Wrote, Moved, Others
  <1>10. ASSUME NEW s \in Slots, CompleteSelect(s) PROVE SlotInv'
    BY <1>10, CompleteSelectEffect DEF Released, Moved, Others
  <1>11. ASSUME NEW s \in Slots, CompleteWrite(s) PROVE SlotInv'
    BY <1>11, CompleteWriteEffect, CompletedEffect DEF Wrote, Released, Others
  <1>12. ASSUME NEW s \in Slots, FailSelect(s) PROVE SlotInv'
    BY <1>12, FailSelectEffect DEF Released, Moved, Others
  <1>13. ASSUME NEW s \in Slots, FailWrite(s) PROVE SlotInv'
    BY <1>13, FailWriteEffect, FailedEffect DEF Wrote, Released, Others
  <1>14. ASSUME NEW s \in Slots, GiveUp(s) PROVE SlotInv'
    BY <1>14, GiveUpEffect DEF Released, Others
  <1>15. CASE Crash
    BY <1>15, CrashEffect, MigratedEffect
  <1>16. ASSUME NEW i \in Ids, LeaseExpires(i) \/ BackoffEnds(i) \/ TaskTTLPasses(i)
        PROVE  SlotInv'
    BY <1>16, ClockStepEffect
  <1> QED
    BY StepCases, <1>1, <1>2, <1>3, <1>4, <1>5, <1>6, <1>7, <1>8, <1>9, <1>10, <1>11, <1>12,
       <1>13, <1>14, <1>15, <1>16

(* Every step leaves a task with one slot. *)
LEMMA ExclusiveStep ==
    ASSUME IInv, [Next]_vars, TypeOK'
    PROVE  Exclusive'
  <1>0. TypeOK /\ SlotInv /\ Exclusive /\ \A i \in Ids : tasks[i] \in Row
    BY DEF IInv, TypeOK
  <1> USE <1>0 DEF SlotInv, Exclusive, Holds, Held, Owned, Holding
  <1>1. CASE Quiet
    BY <1>1 DEF Quiet
  <1>2. CASE Insertion
    BY <1>2, InsertionEffect, NewEffect DEF Wrote
  <1>3. CASE CleanupStaleTasks
    BY <1>3, CleanupEffect, ReclaimedEffect DEF IsStale
  <1>4. CASE DeleteOldTasks
    BY <1>4, DeleteOldEffect, ExpiredEffect
  <1>5. ASSUME NEW j \in Jobs, CancelPendingImportTask(j) PROVE Exclusive'
    BY <1>5, CancelEffect, CancelledEffect
  <1>6. ASSUME NEW s \in Slots, ClaimSelect(s) PROVE Exclusive'
    BY <1>6, ClaimSelectEffect DEF Others
  <1>7. ASSUME NEW s \in Slots, NEW i \in Ids, ClaimUpdate(s, i) PROVE Exclusive'
    BY <1>7, ClaimUpdateEffect, ClaimedEffect DEF Wrote, Released, Others
  <1>8. ASSUME NEW s \in Slots, StartTask(s) PROVE Exclusive'
    BY <1>8, StartTaskEffect, StartedEffect DEF Wrote, Released, Moved, Others
  <1>9. ASSUME NEW s \in Slots, TouchTask(s) PROVE Exclusive'
    BY <1>9, TouchTaskEffect, TouchedEffect DEF Wrote, Moved, Others
  <1>10. ASSUME NEW s \in Slots, CompleteSelect(s) PROVE Exclusive'
    BY <1>10, CompleteSelectEffect DEF Released, Moved, Others
  <1>11. ASSUME NEW s \in Slots, CompleteWrite(s) PROVE Exclusive'
    BY <1>11, CompleteWriteEffect, CompletedEffect DEF Wrote, Released, Others
  <1>12. ASSUME NEW s \in Slots, FailSelect(s) PROVE Exclusive'
    BY <1>12, FailSelectEffect DEF Released, Moved, Others
  <1>13. ASSUME NEW s \in Slots, FailWrite(s) PROVE Exclusive'
    BY <1>13, FailWriteEffect, FailedEffect DEF Wrote, Released, Others
  <1>14. ASSUME NEW s \in Slots, GiveUp(s) PROVE Exclusive'
    BY <1>14, GiveUpEffect DEF Released, Others
  <1>15. CASE Crash
    BY <1>15, CrashEffect, MigratedEffect
  <1>16. ASSUME NEW i \in Ids, LeaseExpires(i) \/ BackoffEnds(i) \/ TaskTTLPasses(i)
        PROVE  Exclusive'
    BY <1>16, ClockStepEffect
  <1> QED
    BY StepCases, <1>1, <1>2, <1>3, <1>4, <1>5, <1>6, <1>7, <1>8, <1>9, <1>10, <1>11, <1>12,
       <1>13, <1>14, <1>15, <1>16

(* Every step keeps the keys unique. *)
LEMMA KeyStep ==
    ASSUME IInv, [Next]_vars, TypeOK'
    PROVE  KeyUnique'
  <1>0. TypeOK /\ KeyUnique /\ SlotInv /\ \A i \in Ids : tasks[i] \in Row
    BY DEF IInv, TypeOK
  <1> USE <1>0
  <1>1. CASE Quiet
    BY <1>1 DEF Quiet, KeyUnique
  <1>2. CASE Insertion
    <2>1. CASE UNCHANGED <<tasks, nextId>>
      BY <1>2, <2>1, InsertionEffect DEF KeyUnique
    <2>2. CASE \E j \in Jobs, p \in {0, 1} :
                  Wrote(nextId, NewRow(j, p)) /\ (j \in Keyed => ~UniqueConflict(j))
      <3>1. PICK j \in Jobs, p \in {0, 1} :
               Wrote(nextId, NewRow(j, p)) /\ (j \in Keyed => ~UniqueConflict(j))
        BY <2>2
      <3>2. j \in Keyed => \A k \in Ids : tasks[k].keyed => tasks[k].job # j
        BY <3>1 DEF UniqueConflict, KeyUnique, Active
      <3>3. /\ nextId \in Ids /\ overrun' = overrun
            /\ \A k \in Ids \ {nextId} : tasks'[k] = tasks[k]
        BY <1>2, <3>1, InsertionEffect DEF Wrote
      <3>4. /\ tasks'[nextId].status = "pending" /\ tasks'[nextId].job = j
            /\ (tasks'[nextId].keyed <=> j \in Keyed)
        BY <3>1, NewEffect DEF Wrote
      <3> QED  BY <3>2, <3>3, <3>4 DEF KeyUnique, Active
    <2> QED  BY <1>2, <2>1, <2>2, InsertionEffect
  <1> USE DEF KeyUnique, KeptKey, Same, Owned, Active, Terminal
  <1>3. CASE CleanupStaleTasks
    <2>1. \A i \in Ids : KeptKey(i)
      BY <1>3, CleanupEffect, ReclaimedEffect DEF IsStale
    <2> QED  BY <2>1, KeysKept
  <1>4. CASE DeleteOldTasks
    BY <1>4, DeleteOldEffect, ExpiredEffect
  <1>5. ASSUME NEW j \in Jobs, CancelPendingImportTask(j) PROVE KeyUnique'
    BY <1>5, CancelEffect, CancelledEffect
  <1>6. ASSUME NEW s \in Slots, ClaimSelect(s) PROVE KeyUnique'
    BY <1>6, ClaimSelectEffect DEF Others
  <1>7. ASSUME NEW s \in Slots, NEW i \in Ids, ClaimUpdate(s, i) PROVE KeyUnique'
    <2>1. \A k \in Ids : KeptKey(k)
      BY <1>7, ClaimUpdateEffect, ClaimedEffect DEF Wrote
    <2> QED  BY <2>1, KeysKept
  <1>8. ASSUME NEW s \in Slots, StartTask(s) PROVE KeyUnique'
    <2>1. CASE tasks' = tasks
      BY <1>8, <2>1, StartTaskEffect
    <2>2. CASE /\ Wrote(slot[s].id, StartedRow(tasks[slot[s].id]))
               /\ tasks[slot[s].id].status \in Owned
      <3> DEFINE i == slot[s].id
      <3>1. /\ i \in Ids /\ tasks[i] \in Row /\ tasks'[i] = StartedRow(tasks[i])
            /\ \A k \in Ids \ {i} : tasks'[k] = tasks[k]
        BY <2>2 DEF Wrote
      <3>2. tasks[i].status \in Owned /\ overrun' = overrun
        BY <1>8, <2>2, StartTaskEffect
      <3>3. /\ tasks'[i].job = tasks[i].job /\ (tasks'[i].keyed <=> tasks[i].keyed)
            /\ tasks'[i].status \in Owned
        BY <3>1, <3>2, StartedEffect
      <3>4. \A k \in Ids : KeptKey(k)
        BY <3>1, <3>2, <3>3
      <3> QED  BY <3>4, KeysKept
    <2> QED  BY <1>8, <2>1, <2>2, StartTaskEffect
  <1>9. ASSUME NEW s \in Slots, TouchTask(s) PROVE KeyUnique'
    <2>1. CASE tasks' = tasks
      BY <1>9, <2>1, TouchTaskEffect
    <2>2. CASE /\ Wrote(slot[s].id, TouchedRow(tasks[slot[s].id]))
               /\ tasks[slot[s].id].status \in Owned
      <3> DEFINE i == slot[s].id
      <3>1. /\ i \in Ids /\ tasks[i] \in Row /\ tasks'[i] = TouchedRow(tasks[i])
            /\ \A k \in Ids \ {i} : tasks'[k] = tasks[k]
        BY <2>2 DEF Wrote
      <3>2. tasks[i].status \in Owned /\ overrun' = overrun
        BY <1>9, <2>2, TouchTaskEffect
      <3>3. /\ tasks'[i].job = tasks[i].job /\ (tasks'[i].keyed <=> tasks[i].keyed)
            /\ tasks'[i].status \in Owned
        BY <3>1, <3>2, TouchedEffect
      <3>4. \A k \in Ids : KeptKey(k)
        BY <3>1, <3>2, <3>3
      <3> QED  BY <3>4, KeysKept
    <2> QED  BY <1>9, <2>1, <2>2, TouchTaskEffect
  <1>10. ASSUME NEW s \in Slots, CompleteSelect(s) PROVE KeyUnique'
    BY <1>10, CompleteSelectEffect DEF Released, Moved, Others
  <1>11. ASSUME NEW s \in Slots, CompleteWrite(s) PROVE KeyUnique'
    <2>1. \A k \in Ids : KeptKey(k)
      BY <1>11, CompleteWriteEffect, CompletedEffect DEF Wrote
    <2> QED  BY <2>1, KeysKept
  <1>12. ASSUME NEW s \in Slots, FailSelect(s) PROVE KeyUnique'
    BY <1>12, FailSelectEffect DEF Released, Moved, Others
  <1>13. ASSUME NEW s \in Slots, FailWrite(s) PROVE KeyUnique'
    <2>1. slot[s].id \notin overrun => tasks[slot[s].id].status \in Owned
      BY <1>13, FailWriteEffect DEF SlotInv, Wrote
    <2>2. \A k \in Ids : KeptKey(k)
      BY <1>13, <2>1, FailWriteEffect, FailedEffect DEF Wrote
    <2> QED  BY <2>2, KeysKept
  <1>14. ASSUME NEW s \in Slots, GiveUp(s) PROVE KeyUnique'
    BY <1>14, GiveUpEffect DEF Released, Others
  <1>15. CASE Crash
    BY <1>15, CrashEffect, MigratedEffect
  <1>16. ASSUME NEW i \in Ids, LeaseExpires(i) \/ BackoffEnds(i) \/ TaskTTLPasses(i)
        PROVE  KeyUnique'
    BY <1>16, ClockStepEffect
  <1> QED
    BY StepCases, <1>1, <1>2, <1>3, <1>4, <1>5, <1>6, <1>7, <1>8, <1>9, <1>10, <1>11, <1>12,
       <1>13, <1>14, <1>15, <1>16

TerminalKept == \A i \in Ids \ overrun : tasks[i].status \in Terminal =>
                   tasks'[i].status \in {tasks[i].status, "absent"}

(* No step leaves a final state but by deletion. *)
LEMMA TerminalStep ==
    ASSUME IInv, [Next]_vars, TypeOK'
    PROVE  TerminalKept
  <1>0. TypeOK /\ SlotInv /\ \A i \in Ids : tasks[i] \in Row
    BY DEF IInv, TypeOK
  <1> USE <1>0 DEF TerminalKept, SlotInv, Holds, Same, Owned, Terminal
  <1>1. CASE Quiet
    BY <1>1 DEF Quiet
  <1>2. CASE Insertion
    <2>1. \A k \in Ids : tasks'[k] = tasks[k] \/ k = nextId
      BY <1>2, InsertionEffect DEF Wrote
    <2>2. nextId \in Ids => tasks[nextId].status = "absent"
      BY DEF IInv, Fresh, TypeOK
    <2> QED  BY <2>1, <2>2
  <1>3. CASE CleanupStaleTasks
    BY <1>3, CleanupEffect, ReclaimedEffect DEF IsStale
  <1>4. CASE DeleteOldTasks
    BY <1>4, DeleteOldEffect, ExpiredEffect
  <1>5. ASSUME NEW j \in Jobs, CancelPendingImportTask(j) PROVE TerminalKept
    BY <1>5, CancelEffect, CancelledEffect
  <1>6. ASSUME NEW s \in Slots, ClaimSelect(s) PROVE TerminalKept
    BY <1>6, ClaimSelectEffect DEF Others
  <1>7. ASSUME NEW s \in Slots, NEW i \in Ids, ClaimUpdate(s, i) PROVE TerminalKept
    BY <1>7, ClaimUpdateEffect, ClaimedEffect DEF Wrote, Released, Others
  <1>8. ASSUME NEW s \in Slots, StartTask(s) PROVE TerminalKept
    BY <1>8, StartTaskEffect, StartedEffect DEF Wrote, Released, Moved, Others
  <1>9. ASSUME NEW s \in Slots, TouchTask(s) PROVE TerminalKept
    BY <1>9, TouchTaskEffect, TouchedEffect DEF Wrote, Moved, Others
  <1>10. ASSUME NEW s \in Slots, CompleteSelect(s) PROVE TerminalKept
    BY <1>10, CompleteSelectEffect DEF Released, Moved, Others
  <1>11. ASSUME NEW s \in Slots, CompleteWrite(s) PROVE TerminalKept
    BY <1>11, CompleteWriteEffect, CompletedEffect DEF Wrote, Released, Others
  <1>12. ASSUME NEW s \in Slots, FailSelect(s) PROVE TerminalKept
    BY <1>12, FailSelectEffect DEF Released, Moved, Others
  <1>13. ASSUME NEW s \in Slots, FailWrite(s) PROVE TerminalKept
    BY <1>13, FailWriteEffect, FailedEffect DEF Wrote, Released, Others
  <1>14. ASSUME NEW s \in Slots, GiveUp(s) PROVE TerminalKept
    BY <1>14, GiveUpEffect DEF Released, Others
  <1>15. CASE Crash
    BY <1>15, CrashEffect, MigratedEffect
  <1>16. ASSUME NEW i \in Ids, LeaseExpires(i) \/ BackoffEnds(i) \/ TaskTTLPasses(i)
        PROVE  TerminalKept
    BY <1>16, ClockStepEffect
  <1> QED
    BY StepCases, <1>1, <1>2, <1>3, <1>4, <1>5, <1>6, <1>7, <1>8, <1>9, <1>10, <1>11, <1>12,
       <1>13, <1>14, <1>15, <1>16

-----------------------------------------------------------------------------
(* The invariant holds at first.                                           *)
LEMMA InitIInv == Init => IInv
  <1> SUFFICES ASSUME Init PROVE IInv
    OBVIOUS
  <1>1. TypeOK
    BY InitType
  <1>2. \A i \in Ids : tasks[i].status = "absent" /\ ~tasks[i].keyed
    BY DEF Init, StoreInit, NoRow
  <1>3. \A s \in Slots, i \in Ids : ~Holds(s, i) /\ slot[s].cands = {}
    BY DEF Init, IdleSlot, Holds, Holding
  <1> QED
    BY <1>1, <1>2, <1>3
       DEF Init, IInv, Fresh, SlotInv, Exclusive, LeaseInv, KeyUnique, AttemptsInv,
           AttemptsBounded, CompletedEventTruthful, Owned, Active

(* Every step keeps the invariant.                                         *)
LEMMA StepIInv == IInv /\ [Next]_vars => IInv'
  <1> SUFFICES ASSUME IInv, [Next]_vars PROVE IInv'
    OBVIOUS
  <1>1. TypeOK'
    BY TypeStep DEF IInv
  <1> QED
    BY <1>1, FreshStep, SlotInvStep, ExclusiveStep, LeaseStep, KeyStep, AttemptsStep,
       EventStep
       DEF IInv

(* The inductive invariant holds in every reachable state. *)
LEMMA InductiveInvariant == Spec => []IInv
  BY InitIInv, StepIInv, PTL DEF Spec

(* Two enqueuers racing between CreateTaskIfNotExists' two statements never  *)
(* leave two unfinished tasks under one key, and a finished task never keeps *)
(* its key, for any number of jobs, enqueuers, workers and faults.           *)
THEOREM KeysUnique == Spec => []KeyUnique
  BY InductiveInvariant, PTL DEF IInv

(* Every claimed or running task can be recovered by CleanupStaleTasks.    *)
THEOREM Leases == Spec => []LeaseInv
  BY InductiveInvariant, PTL DEF IInv

(* A task that no handler outlived the stale timeout on is executed by one *)
(* slot at a time.                                                         *)
THEOREM MutualExclusion == Spec => []Exclusive
  BY InductiveInvariant, PTL DEF IInv

(* Such a task is started at most MaxAttempts times, plus once for each    *)
(* time it was reclaimed from a dead worker.                               *)
THEOREM BoundedAttempts == Spec => []AttemptsBounded
  BY InductiveInvariant, PTL DEF IInv

(* A TaskCompleted event of such a task tells the truth.                   *)
THEOREM TruthfulEvents == Spec => []CompletedEventTruthful
  BY InductiveInvariant, PTL DEF IInv

(* The final states of such a task are final, although FailTask's write    *)
(* carries no guard.                                                       *)
THEOREM FinalStates == Spec => TerminalFinal
  <1>1. IInv /\ IInv' /\ [Next]_vars => [TerminalKept]_vars
    BY TerminalStep DEF IInv
  <1> QED  BY <1>1, InductiveInvariant, PTL DEF Spec, TerminalFinal, TerminalKept
=============================================================================
