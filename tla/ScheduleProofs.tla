--------------------------- MODULE ScheduleProofs ---------------------------
(***************************************************************************)
(* Proofs about what is scheduled, for any number of reminders, jobs,      *)
(* loops, goroutines, ledger entries, crashes and failures: a reminder is  *)
(* sent once and a cancelled one stays silent; a firing's runbook is       *)
(* dispatched once and for the job as it stands; a job fires once a        *)
(* period.  Each but for what a history of the model explains.             *)
(***************************************************************************)
EXTENDS Reminders, AgentJobs, ChatImport, FiniteSetTheorems, WellFoundedInduction, TLAPS

-----------------------------------------------------------------------------
(* Reminders.  What will still be sent for a reminder without a new excuse *)
(* is counted: a task that a goroutine will claim, for it is pending or    *)
(* its goroutine is gone, and a goroutine that has yet to send or has to   *)
(* put its task back.                                                      *)

RmAwaits(i) ==
    \/ rmTasks[i].status = "pending"
    \/ rmTasks[i].status \in RmStore!Owned /\ RmHolders(i) = {}

RmOpen(r) == {i \in RmStore!Ids : rmTasks[i].job = r /\ RmAwaits(i)}

RmHot(r)  == {s \in RmSlots : rmRun[s].pc \in {"send", "fail"} /\ RmOf(s) = r}

RmOwes(r) == Cardinality(RmOpen(r)) + Cardinality(RmHot(r))

\* A pending row without a task: ReminderJob makes one, without an excuse.
RmUnserved(r) ==
    rmRow[r] \in {"none", "waiting", "due"} /\ ~RmStore!UniqueConflict(r)

RmRecord(t) ==
    t = [status |-> t.status, job |-> t.job, keyed |-> t.keyed, worker |-> t.worker,
         attempts |-> t.attempts, prio |-> t.prio, due |-> t.due, lease |-> t.lease,
         old |-> t.old]

RmRowOk(t) ==
    /\ RmRecord(t) /\ t.job \in RmIds
    /\ t.status \in {"absent", "pending", "running", "done", "failed"}

RmTyped ==
    /\ rmRow \in [RmIds -> {"none", "waiting", "due", "fired", "cancelled"}]
    /\ rmLoop \in [RmLoops -> SUBSET RmIds]
    /\ rmTasks = [i \in RmStore!Ids |-> rmTasks[i]]
    /\ \A i \in RmStore!Ids : RmRowOk(rmTasks[i])
    /\ rmNext \in Nat \ {0}
    /\ rmRun \in [RmSlots -> [id : Nat, pc : {"idle", "send", "mark", "complete", "fail"}]]
    /\ rmSent \in [RmIds -> Nat] /\ rmExcuse \in [RmIds -> Nat]
    /\ rmQuiet = [r \in RmIds |-> rmQuiet[r]]

RmPlaced ==
    /\ \A i \in RmStore!Ids : i >= rmNext => rmTasks[i].status = "absent"
    /\ \A s \in RmSlots :
          IF rmRun[s].pc = "idle" THEN rmRun[s].id = 0
          ELSE rmRun[s].id \in RmStore!Ids /\ rmRun[s].id < rmNext
    /\ \A s \in RmSlots : rmRun[s].pc \in {"mark", "complete"} => rmSent[RmOf(s)] > 0
    /\ \A s \in RmSlots : rmRun[s].pc = "complete" => rmRow[RmOf(s)] = "fired"
    /\ \A r \in RmIds : rmRow[r] = "fired" => rmSent[r] > 0

RmCountedOf(r) ==
    /\ rmSent[r] + RmOwes(r) <= 1 + rmExcuse[r]
    /\ RmUnserved(r) => rmSent[r] + RmOwes(r) <= rmExcuse[r]

RmSilent ==
    \A r \in RmIds : \A n \in rmQuiet[r] :
        rmRow[r] = "cancelled" /\ rmSent[r] = n /\ ~RmUnderWay(r)

RmIInv == RmTyped /\ RmPlaced /\ (\A r \in RmIds : RmCountedOf(r)) /\ RmSilent

(* Counting: a set with one more, with one less, and with no more members. *)
LEMMA CountMore ==
    ASSUME NEW S, IsFiniteSet(S), NEW x, NEW T, T \subseteq S \union {x}
    PROVE  IsFiniteSet(T) /\ Cardinality(T) \in Nat /\ Cardinality(S) \in Nat
           /\ Cardinality(T) <= Cardinality(S) + 1
<1>1. /\ IsFiniteSet(S \union {x})
      /\ Cardinality(S \union {x}) = IF x \in S THEN Cardinality(S) ELSE Cardinality(S) + 1
  BY FS_AddElement
<1>2. IsFiniteSet(T) /\ Cardinality(T) <= Cardinality(S \union {x})  BY <1>1, FS_Subset
<1>3. Cardinality(T) \in Nat /\ Cardinality(S) \in Nat  BY <1>2, FS_CardinalityType
<1> QED  BY <1>1, <1>2, <1>3

(* A part that misses a member is smaller.                                 *)
LEMMA CountLess ==
    ASSUME NEW S, IsFiniteSet(S), NEW x \in S, NEW T, T \subseteq S \ {x}
    PROVE  IsFiniteSet(T) /\ Cardinality(T) \in Nat /\ Cardinality(S) \in Nat
           /\ Cardinality(T) + 1 <= Cardinality(S)
<1>1. IsFiniteSet(S \ {x}) /\ Cardinality(S \ {x}) = Cardinality(S) - 1  BY FS_RemoveElement
<1>2. IsFiniteSet(T) /\ Cardinality(T) <= Cardinality(S \ {x})  BY <1>1, FS_Subset
<1>3. Cardinality(T) \in Nat /\ Cardinality(S) \in Nat  BY <1>2, FS_CardinalityType
<1> QED  BY <1>1, <1>2, <1>3

(* A part is no larger than the whole.                                     *)
LEMMA CountNoMore ==
    ASSUME NEW S, IsFiniteSet(S), NEW T, T \subseteq S
    PROVE  IsFiniteSet(T) /\ Cardinality(T) \in Nat /\ Cardinality(S) \in Nat
           /\ Cardinality(T) <= Cardinality(S)
BY FS_Subset, FS_CardinalityType

(* What is counted is finite.                                              *)
LEMMA RmFinite ==
    ASSUME NEW r
    PROVE  /\ IsFiniteSet(RmOpen(r)) /\ IsFiniteSet(RmHot(r))
           /\ Cardinality(RmOpen(r)) \in Nat /\ Cardinality(RmHot(r)) \in Nat
<1>1. IsFiniteSet(RmStore!Ids)  BY RmAssumption, FS_Interval DEF RmStore!Ids
<1>2. RmOpen(r) \subseteq RmStore!Ids /\ RmHot(r) \subseteq RmSlots  BY DEF RmOpen, RmHot
<1> QED  BY <1>1, <1>2, RmAssumption, FS_Subset, FS_CardinalityType

(* The same after a step.                                                  *)
LEMMA RmFiniteNext ==
    ASSUME NEW r
    PROVE  /\ IsFiniteSet(RmOpen(r)') /\ IsFiniteSet(RmHot(r)')
           /\ Cardinality(RmOpen(r)') \in Nat /\ Cardinality(RmHot(r)') \in Nat
<1>1. IsFiniteSet(RmStore!Ids)  BY RmAssumption, FS_Interval DEF RmStore!Ids
<1>2. RmOpen(r)' \subseteq RmStore!Ids /\ RmHot(r)' \subseteq RmSlots  BY DEF RmOpen, RmHot, RmStore!Ids
<1> QED  BY <1>1, <1>2, RmAssumption, FS_Subset, FS_CardinalityType

(* The rows that the statements of the task table write.                   *)
LEMMA RmRows ==
    ASSUME NEW t, RmRowOk(t)
    PROVE  /\ LET u == RmStore!StartedRow(RmStore!ClaimedRow(t, "worker")) IN
              RmRowOk(u) /\ u.status = "running" /\ u.job = t.job /\ u.keyed = t.keyed
           /\ LET u == RmStore!CompletedRow(t) IN
              /\ RmRowOk(u) /\ u.job = t.job
              /\ IF t.status = "running" THEN u.status = "done" ELSE u = t
           /\ LET u == RmStore!DueRow(t) IN
              RmRowOk(u) /\ u.status = t.status /\ u.job = t.job /\ u.keyed = t.keyed
           /\ LET u == RmStore!ReclaimedRow(RmStore!StaleRow(t)) IN
              RmRowOk(u) /\ u.job = t.job /\ u.keyed = t.keyed
<1> USE DEF RmRowOk, RmRecord
<1>1. LET u == RmStore!StartedRow(RmStore!ClaimedRow(t, "worker")) IN
      RmRowOk(u) /\ u.status = "running" /\ u.job = t.job /\ u.keyed = t.keyed
  <2>1. PICK v : v = RmStore!ClaimedRow(t, "worker")  OBVIOUS
  <2>2. RmRecord(v) /\ v.job = t.job /\ v.keyed = t.keyed
    BY <2>1 DEF RmStore!ClaimedRow
  <2>3. PICK u : u = [v EXCEPT !.status = "running", !.attempts = v.attempts + 1]  OBVIOUS
  <2>4. RmRowOk(u) /\ u.status = "running" /\ u.job = t.job /\ u.keyed = t.keyed
    BY <2>2, <2>3
  <2>5. u = RmStore!StartedRow(RmStore!ClaimedRow(t, "worker"))
    BY <2>1, <2>3 DEF RmStore!StartedRow
  <2> QED  BY <2>4, <2>5
<1>2. LET u == RmStore!CompletedRow(t) IN
      /\ RmRowOk(u) /\ u.job = t.job
      /\ IF t.status = "running" THEN u.status = "done" ELSE u = t
  BY DEF RmStore!CompletedRow
<1>4. LET u == RmStore!DueRow(t) IN
      RmRowOk(u) /\ u.status = t.status /\ u.job = t.job /\ u.keyed = t.keyed
  <2>1. PICK b : b = TRUE  OBVIOUS
  <2>2. PICK u : u = [t EXCEPT !.due = b]  OBVIOUS
  <2>3. RmRowOk(u) /\ u.status = t.status /\ u.job = t.job /\ u.keyed = t.keyed  BY <2>2
  <2>4. u = RmStore!DueRow(t)  BY Zenon, <2>1, <2>2 DEF RmStore!DueRow
  <2> QED  BY Zenon, <2>3, <2>4
<1>5. LET u == RmStore!ReclaimedRow(RmStore!StaleRow(t)) IN
      RmRowOk(u) /\ u.job = t.job /\ u.keyed = t.keyed
  BY DEF RmStore!ReclaimedRow, RmStore!StaleRow, RmStore!IsStale, RmStore!Owned
<1> QED  BY <1>1, <1>2, <1>4, <1>5

(* A failed attempt ends the row, or puts it back with its key.            *)
LEMMA RmFailedRow ==
    ASSUME NEW t, RmRowOk(t), NEW m, NEW b, NEW u, u = RmStore!FailedRow(t, m, b)
    PROVE  /\ RmRowOk(u) /\ u.job = t.job
           /\ \/ u.status = "pending" /\ u.keyed = t.keyed
              \/ u.status \in {"absent", "failed"}
BY DEF RmRowOk, RmRecord, RmStore!FailedRow

(* A step of one task and of one goroutine, which holds it before or after:*)
(* what is counted for other reminders stays.                              *)
LEMMA RmMoves ==
    ASSUME RmIInv, NEW i \in RmStore!Ids, NEW s,
           \A k \in RmStore!Ids \ {i} : rmTasks'[k] = rmTasks[k],
           rmTasks'[i].job = rmTasks[i].job,
           \A t \in RmSlots \ {s} : rmRun'[t] = rmRun[t],
           s \in RmSlots => rmRun[s].id \in {0, i} /\ rmRun'[s].id \in {0, i},
           s \in RmSlots => (rmRun'[s].pc # "idle" => rmRun'[s].id = i),
           NEW r \in RmIds
    PROVE  /\ r # rmTasks[i].job =>
                 /\ RmOpen(r)' = RmOpen(r) /\ RmHot(r)' = RmHot(r)
                 /\ RmStore!UniqueConflict(r)' <=> RmStore!UniqueConflict(r)
           /\ RmOpen(r)' \subseteq RmOpen(r) \union {i}
           /\ RmHot(r)' \subseteq RmHot(r) \union {s}
           /\ ~RmAwaits(i)' => RmOpen(r)' \subseteq RmOpen(r) \ {i}
           /\ s \notin RmHot(r)' => RmHot(r)' \subseteq RmHot(r) \ {s}
<1> USE DEF RmIInv, RmTyped
<1>1. 0 \notin RmStore!Ids /\ i # 0  BY DEF RmStore!Ids
<1>2. \A k \in RmStore!Ids \ {i} : RmHolders(k)' = RmHolders(k)
  BY <1>1 DEF RmHolders
<1>3. \A k \in RmStore!Ids \ {i} : RmAwaits(k)' <=> RmAwaits(k)
  BY <1>2 DEF RmAwaits, RmStore!Owned
<1>4. \A k \in RmStore!Ids : rmTasks'[k].job = rmTasks[k].job  OBVIOUS
<1>5. RmOpen(r)' = {k \in RmStore!Ids : rmTasks[k].job = r /\ RmAwaits(k)'}
  BY <1>4 DEF RmOpen, RmStore!Ids
<1>6. /\ r # rmTasks[i].job => RmOpen(r)' = RmOpen(r)
      /\ RmOpen(r)' \subseteq RmOpen(r) \union {i}
      /\ ~RmAwaits(i)' => RmOpen(r)' \subseteq RmOpen(r) \ {i}
  BY <1>3, <1>5 DEF RmOpen
<1>7. \A t \in RmSlots \ {s} : rmRun[t].pc # "idle" => RmOf(t)' = RmOf(t)
  BY <1>4 DEF RmOf, RmPlaced
<1>8. \A t \in RmSlots \ {s} : t \in RmHot(r)' <=> t \in RmHot(r)
  BY <1>7 DEF RmHot
<1>9. /\ RmHot(r)' \subseteq RmHot(r) \union {s}
      /\ s \notin RmHot(r)' => RmHot(r)' \subseteq RmHot(r) \ {s}
  BY <1>8 DEF RmHot
<1>10. ASSUME r # rmTasks[i].job PROVE RmHot(r)' = RmHot(r)
  <2>1. s \notin RmHot(r)  BY <1>10, <1>1 DEF RmHot, RmOf, RmPlaced
  <2>2. s \notin RmHot(r)'  BY <1>10, <1>4 DEF RmHot, RmOf
  <2> QED  BY <1>9, <2>1, <2>2, <1>8 DEF RmHot
<1>11. ASSUME r # rmTasks[i].job PROVE RmStore!UniqueConflict(r)' <=> RmStore!UniqueConflict(r)
  <2>1. ASSUME NEW k \in RmStore!Ids
        PROVE  rmTasks'[k].job = r => rmTasks[k].job = r /\ rmTasks'[k] = rmTasks[k]
    BY <1>4, <1>11
  <2>2. ASSUME NEW k \in RmStore!Ids
        PROVE  rmTasks[k].job = r => rmTasks'[k].job = r /\ rmTasks'[k] = rmTasks[k]
    BY <1>4, <1>11
  <2> QED  BY Zenon, <2>1, <2>2 DEF RmStore!UniqueConflict, RmStore!Ids
<1> QED  BY <1>6, <1>9, <1>10, <1>11

(* The invariant of one reminder, whose row, messages and excuses stay,    *)
(* when no more is owed to it.                                             *)
LEMMA RmNoMore ==
    ASSUME RmIInv, NEW r \in RmIds,
           rmRow'[r] = rmRow[r], rmSent'[r] = rmSent[r], rmExcuse'[r] = rmExcuse[r],
           RmStore!UniqueConflict(r) => RmStore!UniqueConflict(r)' \/ rmRow[r] = "fired",
           RmOwes(r)' <= RmOwes(r)
    PROVE  RmCountedOf(r)'
<1>1. RmOwes(r) \in Nat /\ RmOwes(r)' \in Nat  BY RmFinite, RmFiniteNext DEF RmOwes
<1>2. rmSent[r] \in Nat /\ rmExcuse[r] \in Nat  BY DEF RmIInv, RmTyped
<1>3. RmUnserved(r)' => RmUnserved(r)  BY DEF RmUnserved
<1>4. RmCountedOf(r)  BY DEF RmIInv
<1> QED  BY <1>1, <1>2, <1>3, <1>4 DEF RmCountedOf

(* When one more is owed, sent or both, one more is excused.               *)
LEMMA RmExcusing ==
    ASSUME RmIInv, NEW r \in RmIds,
           rmRow'[r] = rmRow[r], rmSent'[r] \in Nat, rmExcuse'[r] = rmExcuse[r] + 1,
           RmStore!UniqueConflict(r) => RmStore!UniqueConflict(r)',
           rmSent'[r] + RmOwes(r)' <= rmSent[r] + RmOwes(r) + 1
    PROVE  RmCountedOf(r)'
<1>1. RmOwes(r) \in Nat /\ RmOwes(r)' \in Nat  BY RmFinite, RmFiniteNext DEF RmOwes
<1>2. rmSent[r] \in Nat /\ rmExcuse[r] \in Nat  BY DEF RmIInv, RmTyped
<1>3. RmUnserved(r)' => RmUnserved(r)  BY DEF RmUnserved
<1>4. RmCountedOf(r)  BY DEF RmIInv
<1> QED  BY <1>1, <1>2, <1>3, <1>4 DEF RmCountedOf

(* A step that leaves the tasks and the goroutines leaves what is counted. *)
LEMMA RmStill ==
    ASSUME UNCHANGED <<rmTasks, rmRun>>, NEW r
    PROVE  /\ RmOpen(r)' = RmOpen(r) /\ RmHot(r)' = RmHot(r) /\ RmOwes(r)' = RmOwes(r)
           /\ RmStore!UniqueConflict(r)' <=> RmStore!UniqueConflict(r)
<1>1. \A i : RmAwaits(i)' <=> RmAwaits(i)  BY DEF RmAwaits, RmHolders, RmStore!Owned
<1>2. RmOpen(r)' = RmOpen(r)  BY <1>1 DEF RmOpen, RmStore!Ids
<1>3. RmHot(r)' = RmHot(r)  BY DEF RmHot, RmOf
<1>4. RmStore!UniqueConflict(r)' <=> RmStore!UniqueConflict(r)
  BY Zenon DEF RmStore!UniqueConflict, RmStore!Ids
<1> QED  BY <1>2, <1>3, <1>4 DEF RmOwes

(* The chat and the clock.                                                 *)
LEMMA RmChatInv ==
    ASSUME RmIInv, NEW r \in RmIds, RmCreate(r) \/ RmComesDue(r) \/ RmCancel(r)
    PROVE  RmIInv'
<1> USE DEF RmIInv
<1>1. UNCHANGED <<rmLoop, rmTasks, rmNext, rmRun, rmSent, rmExcuse>>
  BY DEF RmCreate, RmComesDue, RmCancel, RmTable
<1>2. PICK v \in {"waiting", "due", "cancelled"} :
         /\ rmRow' = [rmRow EXCEPT ![r] = v]
         /\ v # "cancelled" => rmRow[r] \in {"none", "waiting"}
         /\ rmRow[r] \in {"none", "waiting", "due"}
  BY DEF RmCreate, RmComesDue, RmCancel
<1>3. RmTyped'
  BY <1>1, <1>2 DEF RmTyped, RmCreate, RmComesDue, RmCancel, RmStore!Ids
<1>4. RmPlaced'
  BY <1>1, <1>2 DEF RmTyped, RmPlaced, RmOf, RmStore!Ids
<1>5. ASSUME NEW q \in RmIds PROVE RmCountedOf(q)'
  <2>1. RmUnserved(q)' => RmUnserved(q)  BY <1>1, <1>2, RmStill DEF RmUnserved, RmTyped
  <2>2. RmCountedOf(q)  OBVIOUS
  <2> QED  BY Zenon, <1>1, <2>1, <2>2, RmStill DEF RmCountedOf
<1>6. \A q : RmUnderWay(q)' <=> RmUnderWay(q)
  BY <1>1 DEF RmUnderWay, RmStore!Ids, RmStore!Active
<1>7. RmSilent'
  <2>1. ASSUME NEW q \in RmIds, NEW n \in rmQuiet'[q]
        PROVE  rmRow'[q] = "cancelled" /\ rmSent[q] = n /\ ~RmUnderWay(q)
    <3>1. CASE RmCancel(r) /\ q = r  BY <3>1 DEF RmCancel, RmTyped
    <3>2. CASE ~(RmCancel(r) /\ q = r)
      <4>1. rmQuiet'[q] = rmQuiet[q]  BY <3>2 DEF RmCreate, RmComesDue, RmCancel, RmTyped
      <4>2. rmRow[q] = "cancelled" /\ rmSent[q] = n /\ ~RmUnderWay(q)  BY <4>1 DEF RmSilent
      <4> QED  BY <1>2, <4>2 DEF RmTyped
    <3> QED  BY <3>1, <3>2
  <2> QED  BY <1>1, <1>6, <2>1 DEF RmSilent
<1> QED  BY <1>3, <1>4, <1>5, <1>7

(* A loop reads the rows that are due.                                     *)
LEMMA RmReadInv == ASSUME RmIInv, NEW a \in RmLoops, RmRead(a) PROVE RmIInv'
<1> USE DEF RmIInv
<1>1. UNCHANGED <<rmRow, rmTasks, rmNext, rmRun, rmSent, rmExcuse, rmQuiet>>
  BY DEF RmRead, RmTable
<1>2. RmTyped'  BY <1>1 DEF RmTyped, RmRead, RmDue, RmStore!Ids
<1>3. RmPlaced'  BY <1>1 DEF RmPlaced, RmOf, RmStore!Ids
<1>4. ASSUME NEW q \in RmIds PROVE RmCountedOf(q)'
  <2>1. RmUnserved(q)' => RmUnserved(q)  BY <1>1, RmStill DEF RmUnserved
  <2>2. RmCountedOf(q)  OBVIOUS
  <2> QED  BY Zenon, <1>1, <2>1, <2>2, RmStill DEF RmCountedOf
<1>5. RmSilent'
  <2>1. ASSUME NEW q \in RmIds, NEW n \in rmQuiet[q] PROVE ~RmUnderWay(q)'
    <3>1. rmRow[q] = "cancelled" /\ ~RmUnderWay(q)  BY <2>1 DEF RmSilent
    <3>2. \A b \in RmLoops : q \notin rmLoop'[b]
      BY <3>1 DEF RmUnderWay, RmRead, RmDue, RmTyped
    <3> QED  BY <1>1, <3>1, <3>2 DEF RmUnderWay, RmStore!Ids, RmStore!Active
  <2> QED  BY <1>1, <2>1 DEF RmSilent
<1> QED  BY <1>2, <1>3, <1>4, <1>5

(* A step of a task that is under way does not reach a reminder that is    *)
(* quiet.                                                                  *)
LEMMA RmQuietly ==
    ASSUME RmIInv, NEW i \in RmStore!Ids, NEW s,
           \A k \in RmStore!Ids \ {i} : rmTasks'[k] = rmTasks[k],
           rmTasks'[i].job = rmTasks[i].job,
           \A t \in RmSlots \ {s} : rmRun'[t] = rmRun[t],
           s \in RmSlots => (rmRun'[s].pc # "idle" => rmRun'[s].id = i),
           UNCHANGED <<rmLoop, rmQuiet>>,
           RmUnderWay(rmTasks[i].job),
           \A q \in RmIds \ {rmTasks[i].job} : rmRow'[q] = rmRow[q] /\ rmSent'[q] = rmSent[q]
    PROVE  RmSilent'
<1> USE DEF RmIInv
<1>1. SUFFICES ASSUME NEW q \in RmIds, NEW n \in rmQuiet[q]
               PROVE  rmRow'[q] = "cancelled" /\ rmSent'[q] = n /\ ~RmUnderWay(q)'
  BY DEF RmSilent
<1>2. rmRow[q] = "cancelled" /\ rmSent[q] = n /\ ~RmUnderWay(q)  BY DEF RmSilent
<1>3. q # rmTasks[i].job  BY <1>2
<1>4. \A k \in RmStore!Ids : rmTasks'[k].job = rmTasks[k].job  OBVIOUS
<1>5. ~\E a \in RmLoops : q \in rmLoop'[a]  BY <1>2 DEF RmUnderWay
<1>6. ~\E k \in RmStore!Ids : rmTasks'[k].job = q /\ rmTasks'[k].status \in RmStore!Active
  BY <1>2, <1>3 DEF RmUnderWay
<1>7. ASSUME NEW t \in RmSlots, rmRun'[t].pc # "idle" PROVE rmTasks'[rmRun'[t].id].job # q
  <2>1. CASE t = s  BY <1>3, <1>7, <2>1
  <2>2. CASE t # s
    <3>1. rmRun'[t] = rmRun[t] /\ rmRun[t].id \in RmStore!Ids  BY <1>7, <2>2 DEF RmPlaced
    <3> QED  BY <1>2, <1>4, <1>7, <3>1 DEF RmUnderWay
  <2> QED  BY <2>1, <2>2
<1>8. ~RmUnderWay(q)'  BY <1>5, <1>6, <1>7 DEF RmUnderWay, RmStore!Ids, RmStore!Active
<1> QED  BY <1>2, <1>3, <1>8

(* A task is inserted: one more message is to come, for which the row      *)
(* asks, or the excuse that the list was stale.                            *)
LEMMA RmInsertInv == ASSUME RmIInv, NEW a \in RmLoops, NEW r \in RmIds, RmInsert(a, r) PROVE RmIInv'
<1> USE DEF RmIInv
<1>0. /\ UNCHANGED <<rmRow, rmRun, rmSent, rmQuiet>> /\ r \in rmLoop[a]
      /\ rmLoop' = [rmLoop EXCEPT ![a] = @ \ {r}]
  BY DEF RmInsert
<1>1. CASE UNCHANGED RmTable
  <2>1. UNCHANGED <<rmTasks, rmNext, rmExcuse>>  BY <1>1 DEF RmInsert, RmTable
  <2>2. RmTyped'  BY <1>0, <2>1 DEF RmTyped, RmStore!Ids
  <2>3. RmPlaced'  BY <1>0, <2>1 DEF RmPlaced, RmOf, RmStore!Ids
  <2>4. ASSUME NEW q \in RmIds PROVE RmCountedOf(q)'
    <3>1. RmUnserved(q)' => RmUnserved(q)  BY <1>0, <2>1, RmStill DEF RmUnserved
    <3>2. RmCountedOf(q)  OBVIOUS
    <3> QED  BY Zenon, <1>0, <2>1, <3>1, <3>2, RmStill DEF RmCountedOf
  <2>5. \A q : RmUnderWay(q)' => RmUnderWay(q)
    BY <1>0, <2>1 DEF RmTyped, RmUnderWay, RmStore!Ids, RmStore!Active
  <2>6. RmSilent'  BY <1>0, <2>5 DEF RmSilent
  <2> QED  BY <2>2, <2>3, <2>4, <2>6
<1>2. CASE ~(UNCHANGED RmTable)
  <2>1. /\ RmStore!InsertTask(r, 0) /\ RmStore!Insertable(r)
        /\ IF rmNext' # rmNext /\ rmRow[r] # "due" THEN RmExcused(r) ELSE UNCHANGED rmExcuse
    BY <1>2 DEF RmInsert, RmStore!InsertTask, RmTable
  <2>2. /\ rmTasks' = [rmTasks EXCEPT ![rmNext] = RmStore!NewRow(r, 0)]
        /\ rmNext' = rmNext + 1 /\ rmNext \in RmStore!Ids
        /\ ~RmStore!UniqueConflict(r)
    BY <2>1 DEF RmStore!InsertTask, RmStore!Insertable
  <2>3. PICK b : b = TRUE  OBVIOUS
  <2>4. PICK u : RmRowOk(u) /\ u.status = "pending" /\ u.job = r /\ u.keyed = b
                 /\ u = RmStore!NewRow(r, 0)
    <3>1. PICK f : f = FALSE  OBVIOUS
    <3>2. PICK e : e = (r \in RmIds)  OBVIOUS
    <3>3. PICK n : n = [status |-> "absent", job |-> CHOOSE j \in RmIds : TRUE, keyed |-> f,
                        worker |-> "none", attempts |-> 0, prio |-> 0, due |-> f,
                        lease |-> "none", old |-> f]
      OBVIOUS
    <3>4. n = RmStore!NoRow  BY Zenon, <3>1, <3>3 DEF RmStore!NoRow
    <3>5. PICK u : u = [n EXCEPT !.status = "pending", !.job = r, !.keyed = e, !.prio = 0,
                                 !.due = b]
      OBVIOUS
    <3>6. u = RmStore!NewRow(r, 0)  BY Zenon, <2>3, <3>2, <3>4, <3>5 DEF RmStore!NewRow
    <3>7. e = b  BY Zenon, <2>3, <3>2
    <3>8. RmRowOk(u) /\ u.status = "pending" /\ u.job = r /\ u.keyed = b
      BY <3>3, <3>5, <3>7 DEF RmRowOk, RmRecord
    <3> QED  BY <3>6, <3>8
  <2>6. RmRowOk(u) /\ u.status = "pending" /\ u.job = r /\ u.keyed = b  BY <2>4
  <2>7. rmTasks' = [rmTasks EXCEPT ![rmNext] = u]  BY <2>2, <2>4
  <2>8. rmTasks'[rmNext] = u /\ \A k \in RmStore!Ids \ {rmNext} : rmTasks'[k] = rmTasks[k]
    BY <2>2, <2>7 DEF RmTyped
  <2>9. rmNext \in Nat /\ rmTasks[rmNext].status = "absent"  BY <2>2 DEF RmTyped, RmPlaced
  <2>10. /\ \A q \in RmIds \ {r} : rmExcuse'[q] = rmExcuse[q]
         /\ rmExcuse' \in [RmIds -> Nat]
         /\ rmExcuse'[r] = IF rmRow[r] = "due" THEN rmExcuse[r] ELSE rmExcuse[r] + 1
    BY <2>1, <2>2, <2>9 DEF RmTyped, RmExcused
  <2>11. RmTyped'
    <3>1. rmTasks' = [k \in RmStore!Ids |-> rmTasks'[k]]
      BY <2>7 DEF RmTyped
    <3>2. \A k \in RmStore!Ids : RmRowOk(rmTasks'[k])  BY <2>6, <2>8 DEF RmTyped
    <3>3. rmLoop' \in [RmLoops -> SUBSET RmIds] /\ rmNext' \in Nat \ {0}
      BY <1>0, <2>2, <2>9 DEF RmTyped
    <3>4. rmQuiet' = [q \in RmIds |-> rmQuiet'[q]]  BY <1>0 DEF RmTyped
    <3>5. (\A k \in RmStore!Ids : RmRowOk(rmTasks[k]))'
      BY <3>2 DEF RmRowOk, RmRecord, RmStore!Ids
    <3>6. (rmTasks = [k \in RmStore!Ids |-> rmTasks[k]])'  BY <3>1 DEF RmStore!Ids
    <3>7. /\ rmRow' \in [RmIds -> {"none", "waiting", "due", "fired", "cancelled"}]
          /\ rmRun' \in [RmSlots -> [id : Nat, pc : {"idle", "send", "mark", "complete", "fail"}]]
          /\ rmSent' \in [RmIds -> Nat]
      BY Zenon, <1>0 DEF RmTyped
    <3> QED  BY Zenon, <2>10, <3>3, <3>4, <3>5, <3>6, <3>7 DEF RmTyped
  <2>12. \A t \in RmSlots : rmRun[t].pc # "idle" =>
            rmTasks'[rmRun[t].id] = rmTasks[rmRun[t].id] /\ RmOf(t)' = RmOf(t)
    <3>1. ASSUME NEW t \in RmSlots, rmRun[t].pc # "idle"
          PROVE  rmTasks'[rmRun[t].id] = rmTasks[rmRun[t].id]
      <4>1. rmRun[t].id \in RmStore!Ids /\ rmRun[t].id < rmNext  BY <3>1 DEF RmPlaced
      <4>2. rmRun[t].id # rmNext  BY <2>9, <4>1 DEF RmTyped
      <4> QED  BY <2>8, <4>1, <4>2
    <3> QED  BY <1>0, <3>1 DEF RmOf
  <2>13. RmPlaced'
    <3>1. \A k \in RmStore!Ids : k >= rmNext' => rmTasks'[k].status = "absent"
      BY <2>2, <2>8, <2>9 DEF RmPlaced, RmStore!Ids
    <3>2. \A t \in RmSlots :
             IF rmRun[t].pc = "idle" THEN rmRun[t].id = 0
             ELSE rmRun[t].id \in RmStore!Ids /\ rmRun[t].id < rmNext'
      BY <2>2, <2>9 DEF RmPlaced, RmTyped
    <3>3. \A t \in RmSlots : rmRun[t].pc \in {"mark", "complete"} => rmSent[RmOf(t)'] > 0
      BY <2>12 DEF RmPlaced
    <3>4. \A t \in RmSlots : rmRun[t].pc = "complete" => rmRow[RmOf(t)'] = "fired"
      BY <2>12 DEF RmPlaced
    <3> QED  BY <1>0, <3>1, <3>2, <3>3, <3>4 DEF RmPlaced, RmStore!Ids
  <2>14. ASSUME NEW q \in RmIds PROVE RmCountedOf(q)'
    <3>1. RmHot(q)' = RmHot(q)  BY <1>0, <2>12 DEF RmHot
    <3>2. \A k : RmHolders(k)' = RmHolders(k)  BY <1>0 DEF RmHolders
    <3>3. /\ RmOpen(q)' \subseteq RmOpen(q) \union {rmNext}
          /\ q # r => RmOpen(q)' = RmOpen(q)
      <4>1. \A k \in RmStore!Ids \ {rmNext} : RmAwaits(k)' <=> RmAwaits(k)
        BY <2>8, <3>2 DEF RmAwaits, RmStore!Owned
      <4>2. ~RmAwaits(rmNext)  BY <2>9 DEF RmAwaits, RmStore!Owned
      <4>3. \A k : k \in RmOpen(q)' <=>
               k \in RmStore!Ids /\ rmTasks'[k].job = q /\ RmAwaits(k)'
        BY DEF RmOpen, RmStore!Ids
      <4>4. \A k \in RmStore!Ids \ {rmNext} : k \in RmOpen(q)' <=> k \in RmOpen(q)
        BY <2>8, <4>1, <4>3 DEF RmOpen
      <4>5. q # r => rmNext \notin RmOpen(q)' /\ rmNext \notin RmOpen(q)
        BY <2>6, <2>8, <4>2, <4>3 DEF RmOpen
      <4>6. RmOpen(q)' \subseteq RmStore!Ids /\ RmOpen(q) \subseteq RmStore!Ids
        BY DEF RmOpen, RmStore!Ids
      <4>7. RmOpen(q)' \subseteq RmOpen(q) \union {rmNext}  BY <4>4, <4>6
      <4>8. ASSUME q # r PROVE RmOpen(q)' = RmOpen(q)  BY <4>4, <4>5, <4>6, <4>8
      <4> QED  BY Zenon, <4>7, <4>8
    <3>4. RmOwes(q)' <= RmOwes(q) + 1 /\ (q # r => RmOwes(q)' = RmOwes(q))
          /\ RmOwes(q) \in Nat /\ RmOwes(q)' \in Nat
      <4>1. Cardinality(RmOpen(q)') <= Cardinality(RmOpen(q)) + 1
        BY <3>3, RmFinite, CountMore
      <4> QED  BY <3>1, <3>3, <4>1, RmFinite, RmFiniteNext DEF RmOwes
    <3>5. CASE q # r
      <4>1. RmStore!UniqueConflict(q) => RmStore!UniqueConflict(q)'
        <5>1. ASSUME NEW k \in RmStore!Ids, rmTasks[k].status # "absent"
              PROVE  rmTasks'[k] = rmTasks[k]
          BY <2>8, <2>9, <5>1
        <5> QED  BY Zenon, <5>1 DEF RmStore!UniqueConflict, RmStore!Ids
      <4> QED  BY <1>0, <2>10, <3>4, <3>5, <4>1, RmNoMore
    <3>6. CASE q = r
      <4>1. RmStore!UniqueConflict(r)'
        <5>1. rmTasks'[rmNext].keyed  BY Zenon, <2>3, <2>6, <2>8
        <5>2. rmTasks'[rmNext].job = r /\ rmTasks'[rmNext].status # "absent"  BY <2>6, <2>8
        <5> QED  BY Zenon, <2>2, <5>1, <5>2 DEF RmStore!UniqueConflict, RmStore!Ids
      <4>2. ~RmUnserved(r)'  BY <4>1 DEF RmUnserved
      <4>3. rmRow[r] = "due" => RmUnserved(r)  BY <2>2 DEF RmUnserved
      <4>4. RmCountedOf(r) /\ rmSent[r] \in Nat /\ rmExcuse[r] \in Nat  BY DEF RmTyped
      <4>5. rmSent[r] + RmOwes(r)' <= 1 + rmExcuse'[r]
        BY <2>10, <3>4, <3>6, <4>3, <4>4 DEF RmCountedOf
      <4> QED  BY <1>0, <3>6, <4>2, <4>5 DEF RmCountedOf
    <3> QED  BY <3>5, <3>6
  <2>15. RmSilent'
    <3>1. SUFFICES ASSUME NEW q \in RmIds, NEW n \in rmQuiet[q] PROVE ~RmUnderWay(q)'
      BY <1>0 DEF RmSilent
    <3>2. ~RmUnderWay(q)  BY DEF RmSilent
    <3>3. q # r  BY <1>0, <3>2 DEF RmUnderWay
    <3>4. ~\E c \in RmLoops : q \in rmLoop'[c]  BY <1>0, <3>2 DEF RmUnderWay, RmTyped
    <3>5. ~\E k \in RmStore!Ids : rmTasks'[k].job = q /\ rmTasks'[k].status \in RmStore!Active
      BY <2>6, <2>8, <3>2, <3>3 DEF RmUnderWay
    <3>6. \A t \in RmSlots : rmRun[t].pc # "idle" => rmTasks'[rmRun[t].id].job # q
      BY <2>12, <3>2 DEF RmUnderWay
    <3> QED  BY <1>0, <3>4, <3>5, <3>6 DEF RmUnderWay, RmStore!Ids, RmStore!Active
  <2> QED  BY <2>11, <2>13, <2>14, <2>15
<1> QED  BY <1>1, <1>2

(* Every reminder but the one whose task moves keeps its count.            *)
LEMMA RmOthersCount ==
    ASSUME RmIInv, NEW i \in RmStore!Ids, NEW s,
           \A k \in RmStore!Ids \ {i} : rmTasks'[k] = rmTasks[k],
           rmTasks'[i].job = rmTasks[i].job,
           \A t \in RmSlots \ {s} : rmRun'[t] = rmRun[t],
           s \in RmSlots => rmRun[s].id \in {0, i} /\ rmRun'[s].id \in {0, i},
           s \in RmSlots => (rmRun'[s].pc # "idle" => rmRun'[s].id = i),
           NEW q \in RmIds, q # rmTasks[i].job,
           rmRow'[q] = rmRow[q], rmSent'[q] = rmSent[q], rmExcuse'[q] = rmExcuse[q]
    PROVE  RmCountedOf(q)'
<1>1. /\ RmOpen(q)' = RmOpen(q) /\ RmHot(q)' = RmHot(q)
      /\ RmStore!UniqueConflict(q)' <=> RmStore!UniqueConflict(q)
  BY RmMoves
<1>2. RmOwes(q)' <= RmOwes(q)  BY <1>1, RmFinite DEF RmOwes
<1> QED  BY <1>1, <1>2, RmNoMore

(* The worker claims a task: the goroutine owes what the task owed.        *)
LEMMA RmClaimInv ==
    ASSUME RmIInv, NEW s \in RmSlots, NEW i \in RmStore!Ids, RmClaim(s, i)
    PROVE  RmIInv'
<1> USE DEF RmIInv
<1>1. /\ UNCHANGED <<rmRow, rmLoop, rmNext, rmSent, rmExcuse, rmQuiet>>
      /\ rmRun[s] = RmIdle /\ rmTasks[i].status = "pending"
      /\ rmRun' = [rmRun EXCEPT ![s] = [id |-> i, pc |-> "send"]]
  BY DEF RmClaim, RmStore!DuePending
<1>2. PICK u : /\ RmRowOk(u) /\ u.status = "running" /\ u.job = rmTasks[i].job
               /\ u.keyed = rmTasks[i].keyed
               /\ rmTasks' = [rmTasks EXCEPT ![i] = u]
  BY RmRows DEF RmClaim, RmTyped
<1>3. rmTasks'[i] = u /\ \A k \in RmStore!Ids \ {i} : rmTasks'[k] = rmTasks[k]
  BY <1>2 DEF RmTyped
<1>4. /\ rmRun'[s].id = i /\ rmRun'[s].pc = "send" /\ rmRun[s].id = 0 /\ rmRun[s].pc = "idle"
      /\ \A t \in RmSlots \ {s} : rmRun'[t] = rmRun[t]
  BY <1>1 DEF RmTyped, RmIdle
<1>5. RmTyped'
  <2>1. (rmTasks = [k \in RmStore!Ids |-> rmTasks[k]])'  BY <1>2 DEF RmTyped, RmStore!Ids
  <2>2. (\A k \in RmStore!Ids : RmRowOk(rmTasks[k]))'
    BY <1>2, <1>3 DEF RmTyped, RmRowOk, RmRecord, RmStore!Ids
  <2>3. rmRun' \in [RmSlots -> [id : Nat, pc : {"idle", "send", "mark", "complete", "fail"}]]
    BY <1>1, RmAssumption DEF RmTyped, RmStore!Ids
  <2> QED  BY <1>1, <2>1, <2>2, <2>3 DEF RmTyped
<1>6. \A k \in RmStore!Ids : rmTasks'[k].job = rmTasks[k].job  BY <1>2, <1>3
<1>7. RmPlaced'
  <2>1. i < rmNext  BY <1>1, RmAssumption DEF RmPlaced, RmTyped, RmStore!Ids
  <2>2. (\A k \in RmStore!Ids : k >= rmNext => rmTasks[k].status = "absent")'
    BY <1>1, <1>3, <2>1, RmAssumption DEF RmPlaced, RmTyped, RmStore!Ids
  <2>3. \A t \in RmSlots \ {s} : rmRun[t].pc # "idle" => RmOf(t)' = RmOf(t)
    BY <1>4, <1>6 DEF RmOf, RmPlaced
  <2> QED  BY <1>1, <1>4, <2>1, <2>2, <2>3 DEF RmPlaced, RmStore!Ids
<1>8. ASSUME NEW q \in RmIds PROVE RmCountedOf(q)'
  <2>1. CASE q # rmTasks[i].job
    BY <1>1, <1>2, <1>3, <1>4, <2>1, RmOthersCount
  <2>2. CASE q = rmTasks[i].job
    <3>1. RmHolders(i)' # {}  BY <1>4 DEF RmHolders
    <3>2. ~RmAwaits(i)'  BY <1>2, <1>3, <3>1 DEF RmAwaits, RmStore!Owned
    <3>3. RmOpen(q)' \subseteq RmOpen(q) \ {i} /\ RmHot(q)' \subseteq RmHot(q) \union {s}
      BY <1>2, <1>3, <1>4, <3>2, RmMoves
    <3>4. i \in RmOpen(q)  BY <1>1, <2>2 DEF RmOpen, RmAwaits
    <3>5. Cardinality(RmOpen(q)') + 1 <= Cardinality(RmOpen(q))  BY <3>3, <3>4, RmFinite, CountLess
    <3>6. Cardinality(RmHot(q)') <= Cardinality(RmHot(q)) + 1  BY <3>3, RmFinite, CountMore
    <3>7. RmOwes(q)' <= RmOwes(q)  BY <3>5, <3>6, RmFinite, RmFiniteNext DEF RmOwes
    <3>8. RmStore!UniqueConflict(q) => RmStore!UniqueConflict(q)'
      <4>1. ASSUME NEW k \in RmStore!Ids
            PROVE  /\ rmTasks'[k].keyed = rmTasks[k].keyed /\ rmTasks'[k].job = rmTasks[k].job
                   /\ rmTasks[k].status # "absent" => rmTasks'[k].status # "absent"
        BY <1>2, <1>3
      <4> QED  BY Zenon, <4>1 DEF RmStore!UniqueConflict, RmStore!Ids
    <3> QED  BY <1>1, <3>7, <3>8, RmNoMore
  <2> QED  BY <2>1, <2>2
<1>9. RmSilent'
  <2>1. RmUnderWay(rmTasks[i].job)  BY <1>1 DEF RmUnderWay, RmStore!Active
  <2> QED  BY <1>1, <1>2, <1>3, <1>4, <2>1, RmQuietly
<1> QED  BY <1>5, <1>7, <1>8, <1>9

(* The handler: a message is sent, or an error tells of it, then the row   *)
(* is marked.                                                              *)
LEMMA RmHandlerInv ==
    ASSUME RmIInv, NEW s \in RmSlots, RmSend(s) \/ RmMark(s)
    PROVE  RmIInv'
<1> USE DEF RmIInv
<1>0. PICK i, r : i = rmRun[s].id /\ r = RmOf(s)  OBVIOUS
<1>1. UNCHANGED <<rmLoop, rmTasks, rmNext, rmQuiet>> /\ rmRun[s].pc \in {"send", "mark"}
  BY DEF RmSend, RmMark, RmTable
<1>2. i \in RmStore!Ids /\ i < rmNext /\ r = rmTasks[i].job /\ r \in RmIds
  BY <1>0, <1>1 DEF RmPlaced, RmTyped, RmRowOk, RmOf
<1>3. PICK p \in {"mark", "complete", "fail"} : RmGoes(s, p)
  BY DEF RmSend, RmMark
<1>4. /\ rmRun'[s].id = i /\ rmRun'[s].pc = p
      /\ \A t \in RmSlots \ {s} : rmRun'[t] = rmRun[t]
      /\ rmRun' \in [RmSlots -> [id : Nat, pc : {"idle", "send", "mark", "complete", "fail"}]]
  BY <1>0, <1>3 DEF RmGoes, RmTyped
<1>5. /\ \A q \in RmIds \ {r} : rmRow'[q] = rmRow[q] /\ rmSent'[q] = rmSent[q]
                                /\ rmExcuse'[q] = rmExcuse[q]
      /\ rmRow' \in [RmIds -> {"none", "waiting", "due", "fired", "cancelled"}]
      /\ rmSent' \in [RmIds -> Nat] /\ rmExcuse' \in [RmIds -> Nat]
      /\ rmRow'[r] \in {rmRow[r], "fired"} /\ rmSent'[r] \in {rmSent[r], rmSent[r] + 1}
      /\ p \in {"mark", "complete"} => rmSent'[r] > 0
      /\ p = "complete" => rmRow'[r] = "fired"
      /\ rmRow'[r] = "fired" => rmSent'[r] > 0
      /\ rmRow[r] = "fired" => rmRow'[r] = "fired"
  <2>1. CASE RmSend(s)
    <3>1. rmRow' = rmRow /\ rmRun[s].pc = "send"  BY <2>1 DEF RmSend
    <3>2. p \in {"mark", "fail"}  BY <1>0, <1>3, <1>4, <2>1 DEF RmSend, RmGoes, RmTyped
    <3>3. \/ rmSent' = [rmSent EXCEPT ![r] = @ + 1]
          \/ rmSent' = rmSent /\ p = "fail"
      BY <1>0, <1>3, <1>4, <2>1 DEF RmSend, RmGoes, RmTyped
    <3>4. rmExcuse' = rmExcuse \/ rmExcuse' = [rmExcuse EXCEPT ![r] = @ + 1]
      BY <1>0, <2>1 DEF RmSend, RmExcused
    <3> QED  BY <1>2, <3>1, <3>2, <3>3, <3>4 DEF RmTyped, RmPlaced
  <2>2. CASE RmMark(s)
    <3>1. rmSent' = rmSent /\ rmRun[s].pc = "mark"  BY <2>2 DEF RmMark
    <3>2. rmSent[r] > 0  BY <1>0, <3>1 DEF RmPlaced
    <3>3. \/ rmRow' = [rmRow EXCEPT ![r] = "fired"] /\ p = "complete"
          \/ rmRow' = rmRow /\ p = "fail"
      BY <1>0, <1>3, <1>4, <2>2 DEF RmMark, RmGoes, RmTyped
    <3>4. rmExcuse' = rmExcuse \/ rmExcuse' = [rmExcuse EXCEPT ![r] = @ + 1]
      BY <1>0, <2>2 DEF RmMark, RmExcused
    <3> QED  BY <1>2, <3>1, <3>2, <3>3, <3>4 DEF RmTyped
  <2> QED  BY <2>1, <2>2
<1>6. RmTyped'  BY <1>1, <1>4, <1>5 DEF RmTyped, RmRowOk, RmRecord, RmStore!Ids
<1>7. RmPlaced'
  <2>1. \A t \in RmSlots : RmOf(t)' = RmOf(t)  BY <1>0, <1>1, <1>4 DEF RmOf
  <2>2. \A q \in RmIds : /\ rmSent[q] > 0 => rmSent'[q] > 0
                         /\ rmRow[q] = "fired" => rmRow'[q] = "fired"
                         /\ rmRow'[q] = "fired" => rmSent'[q] > 0
    BY <1>5 DEF RmTyped, RmPlaced
  <2>3. \A t \in RmSlots : rmRun[t].pc # "idle" => RmOf(t) \in RmIds
    BY DEF RmPlaced, RmTyped, RmRowOk, RmOf
  <2>4. (\A k \in RmStore!Ids : k >= rmNext => rmTasks[k].status = "absent")'
    BY <1>1 DEF RmPlaced, RmStore!Ids
  <2>5. \A t \in RmSlots : IF rmRun'[t].pc = "idle" THEN rmRun'[t].id = 0
                           ELSE rmRun'[t].id \in RmStore!Ids /\ rmRun'[t].id < rmNext'
    BY <1>1, <1>2, <1>4 DEF RmPlaced
  <2>6. \A t \in RmSlots : rmRun'[t].pc \in {"mark", "complete"} => rmSent'[RmOf(t)'] > 0
    BY <1>0, <1>4, <1>5, <2>1, <2>2, <2>3 DEF RmPlaced
  <2>7. \A t \in RmSlots : rmRun'[t].pc = "complete" => rmRow'[RmOf(t)'] = "fired"
    BY <1>0, <1>4, <1>5, <2>1, <2>2, <2>3 DEF RmPlaced
  <2> QED  BY <1>1, <2>2, <2>4, <2>5, <2>6, <2>7 DEF RmPlaced, RmStore!Ids
<1>8. RmStore!UniqueConflict(r)' <=> RmStore!UniqueConflict(r)
  BY Zenon, <1>1 DEF RmStore!UniqueConflict, RmStore!Ids
<1>9. RmOpen(r)' = RmOpen(r)
  <2>1. \A k : RmHolders(k)' = RmHolders(k)  BY <1>0, <1>4 DEF RmHolders
  <2>2. \A k : RmAwaits(k)' <=> RmAwaits(k)  BY <1>1, <2>1 DEF RmAwaits, RmStore!Owned
  <2> QED  BY <1>1, <2>2 DEF RmOpen, RmStore!Ids
<1>10. ASSUME NEW q \in RmIds PROVE RmCountedOf(q)'
  <2>1. CASE q # r
    BY <1>0, <1>1, <1>2, <1>4, <1>5, <2>1, RmOthersCount
  <2>2. CASE q = r
    <3>1. /\ RmHot(r)' \subseteq RmHot(r) \union {s}
          /\ s \notin RmHot(r)' => RmHot(r)' \subseteq RmHot(r) \ {s}
      BY <1>0, <1>1, <1>2, <1>4, RmMoves
    <3>2. s \in RmHot(r) <=> rmRun[s].pc = "send"  BY <1>0, <1>1 DEF RmHot
    <3>3. s \in RmHot(r)' <=> p = "fail"  BY <1>0, <1>1, <1>2, <1>4 DEF RmHot, RmOf
    <3>4. /\ rmSent[r] \in Nat /\ rmSent'[r] \in Nat /\ rmExcuse[r] \in Nat
          /\ RmOwes(r) \in Nat /\ RmOwes(r)' \in Nat
      BY <1>2, <1>5, RmFinite, RmFiniteNext DEF RmTyped, RmOwes
    <3>5. RmOwes(r)' <= RmOwes(r) + 1
      BY <1>9, <3>1, RmFinite, RmFiniteNext, CountMore DEF RmOwes
    <3>6. ASSUME rmRun[s].pc = "send" PROVE RmOwes(r)' <= RmOwes(r)
      <4>1. RmHot(r)' \subseteq RmHot(r)  BY <3>1, <3>2, <3>6
      <4> QED  BY <1>9, <4>1, RmFinite, RmFiniteNext, CountNoMore DEF RmOwes
    <3>7. ASSUME p # "fail" PROVE RmOwes(r)' <= RmOwes(r)
      <4>1. RmHot(r)' \subseteq RmHot(r)  BY <3>1, <3>3, <3>7
      <4> QED  BY <1>9, <4>1, RmFinite, RmFiniteNext, CountNoMore DEF RmOwes
    <3>8. ASSUME rmRun[s].pc = "send", p # "fail" PROVE RmOwes(r)' + 1 <= RmOwes(r)
      <4>1. RmHot(r)' \subseteq RmHot(r) \ {s} /\ s \in RmHot(r)  BY <3>1, <3>2, <3>3, <3>8
      <4> QED  BY <1>9, <4>1, RmFinite, RmFiniteNext, CountLess DEF RmOwes
    <3>9. CASE rmExcuse'[r] = rmExcuse[r] + 1 /\ rmRow'[r] = rmRow[r]
      <4>1. rmSent'[r] + RmOwes(r)' <= rmSent[r] + RmOwes(r) + 1
        <5>1. CASE RmSend(s)
          <6>1. rmRun[s].pc = "send"  BY <5>1 DEF RmSend
          <6> QED  BY <1>5, <3>4, <3>6, <6>1
        <5>2. CASE RmMark(s)
          <6>1. rmSent'[r] = rmSent[r]  BY <5>2 DEF RmMark
          <6> QED  BY <3>4, <3>5, <6>1
        <5> QED  BY <5>1, <5>2
      <4> QED  BY <1>2, <1>8, <2>2, <3>4, <3>9, <4>1, RmExcusing
    <3>10. CASE rmExcuse'[r] # rmExcuse[r] + 1 /\ RmSend(s)
      <4>1. rmRun[s].pc = "send" /\ rmRow' = rmRow  BY <3>10 DEF RmSend
      <4>2. \/ rmSent'[r] = rmSent[r] + 1 /\ p = "mark" /\ rmExcuse' = rmExcuse
            \/ rmSent' = rmSent /\ rmExcuse' = rmExcuse
        <5>1. \/ rmSent' = [rmSent EXCEPT ![r] = @ + 1] /\ RmGoes(s, "mark")
                 /\ rmExcuse' = rmExcuse
              \/ rmSent' = rmSent /\ rmExcuse' = rmExcuse
              \/ rmExcuse' = [rmExcuse EXCEPT ![r] = @ + 1]
          BY <1>0, <3>10 DEF RmSend, RmExcused
        <5>2. rmExcuse' # [rmExcuse EXCEPT ![r] = @ + 1]  BY <1>2, <3>10 DEF RmTyped
        <5>3. RmGoes(s, "mark") => p = "mark"  BY <1>4 DEF RmGoes, RmTyped
        <5>4. rmSent' = [rmSent EXCEPT ![r] = @ + 1] => rmSent'[r] = rmSent[r] + 1
          BY <1>2 DEF RmTyped
        <5> QED  BY <5>1, <5>2, <5>3, <5>4
      <4>3. rmSent'[r] + RmOwes(r)' <= rmSent[r] + RmOwes(r)
        BY <3>4, <3>6, <3>8, <4>1, <4>2
      <4>4. RmUnserved(r)' => RmUnserved(r)  BY <1>8, <4>1 DEF RmUnserved
      <4>5. RmCountedOf(r)  BY <1>2
      <4> QED  BY <2>2, <3>4, <4>2, <4>3, <4>4, <4>5 DEF RmCountedOf
    <3>11. CASE ~(rmExcuse'[r] = rmExcuse[r] + 1 /\ rmRow'[r] = rmRow[r]) /\ RmMark(s)
      <4>1. /\ rmRow' = [rmRow EXCEPT ![r] = "fired"] /\ rmExcuse' = rmExcuse
            /\ rmSent' = rmSent /\ p = "complete"
        <5>1. /\ \/ rmRow' = [rmRow EXCEPT ![r] = "fired"] /\ RmGoes(s, "complete")
                    /\ rmExcuse' = rmExcuse
                 \/ rmExcuse' = [rmExcuse EXCEPT ![r] = @ + 1] /\ rmRow' = rmRow
              /\ rmSent' = rmSent
          BY <1>0, <3>11 DEF RmMark, RmExcused
        <5>2. rmExcuse' = [rmExcuse EXCEPT ![r] = @ + 1] => rmExcuse'[r] = rmExcuse[r] + 1
          BY <1>2 DEF RmTyped
        <5>3. RmGoes(s, "complete") => p = "complete"  BY <1>4 DEF RmGoes, RmTyped
        <5> QED  BY <3>11, <5>1, <5>2, <5>3
      <4>2. rmSent'[r] + RmOwes(r)' <= rmSent[r] + RmOwes(r)  BY <3>4, <3>7, <4>1
      <4>3. ~RmUnserved(r)'  BY <1>2, <4>1 DEF RmUnserved, RmTyped
      <4>4. RmCountedOf(r)  BY <1>2
      <4> QED  BY <2>2, <3>4, <4>1, <4>2, <4>3, <4>4 DEF RmCountedOf
    <3>12. CASE RmSend(s) /\ rmRow'[r] # rmRow[r]  BY <3>12 DEF RmSend
    <3> QED  BY <3>9, <3>10, <3>11, <3>12
  <2> QED  BY <2>1, <2>2
<1>11. RmSilent'
  <2>1. RmUnderWay(rmTasks[i].job)  BY <1>0, <1>1, <1>2 DEF RmUnderWay, RmOf
  <2> QED  BY <1>0, <1>1, <1>2, <1>4, <1>5, <2>1, RmQuietly
<1> QED  BY <1>6, <1>7, <1>10, <1>11

(* A step of a task i, of job r, and of what holds it, as the counts see   *)
(* it: the table's shape and the goroutines' places.                       *)
LEMMA RmTableInv ==
    ASSUME RmIInv, NEW i \in RmStore!Ids, NEW u, RmRowOk(u), u.job = rmTasks[i].job,
           rmTasks' = [rmTasks EXCEPT ![i] = u], rmTasks[i].status = "absent" => u.status = "absent",
           UNCHANGED <<rmRow, rmLoop, rmNext, rmSent, rmQuiet>>,
           rmRun' \in [RmSlots -> [id : Nat, pc : {"idle", "send", "mark", "complete", "fail"}]],
           \A t \in RmSlots : rmRun'[t] \in {rmRun[t], RmIdle},
           rmExcuse' \in [RmIds -> Nat]
    PROVE  /\ RmTyped' /\ RmPlaced'
           /\ rmTasks'[i] = u /\ \A k \in RmStore!Ids \ {i} : rmTasks'[k] = rmTasks[k]
<1> USE DEF RmIInv
<1>1. rmTasks'[i] = u /\ \A k \in RmStore!Ids \ {i} : rmTasks'[k] = rmTasks[k]
  BY DEF RmTyped
<1>2. RmTyped'
  <2>1. (rmTasks = [k \in RmStore!Ids |-> rmTasks[k]])'  BY DEF RmTyped, RmStore!Ids
  <2>2. (\A k \in RmStore!Ids : RmRowOk(rmTasks[k]))'
    BY <1>1 DEF RmTyped, RmRowOk, RmRecord, RmStore!Ids
  <2> QED  BY <2>1, <2>2 DEF RmTyped
<1>3. \A k \in RmStore!Ids : rmTasks'[k].job = rmTasks[k].job  BY <1>1
<1>4. RmPlaced'
  <2>1. (\A k \in RmStore!Ids : k >= rmNext => rmTasks[k].status = "absent")'
    BY <1>1 DEF RmPlaced, RmStore!Ids
  <2>2. \A t \in RmSlots : IF rmRun'[t].pc = "idle" THEN rmRun'[t].id = 0
                           ELSE rmRun'[t].id \in RmStore!Ids /\ rmRun'[t].id < rmNext'
    BY DEF RmPlaced, RmIdle
  <2>3. \A t \in RmSlots : rmRun'[t].pc # "idle" => rmRun'[t] = rmRun[t] /\ RmOf(t)' = RmOf(t)
    BY <1>3 DEF RmPlaced, RmIdle, RmOf
  <2>4. \A t \in RmSlots : rmRun'[t].pc \in {"mark", "complete"} => rmSent'[RmOf(t)'] > 0
    BY <2>3 DEF RmPlaced
  <2>5. \A t \in RmSlots : rmRun'[t].pc = "complete" => rmRow'[RmOf(t)'] = "fired"
    BY <2>3 DEF RmPlaced
  <2>6. \A q \in RmIds : rmRow'[q] = "fired" => rmSent'[q] > 0  BY DEF RmPlaced
  <2> QED  BY <2>1, <2>2, <2>4, <2>5, <2>6 DEF RmPlaced, RmStore!Ids
<1> QED  BY <1>1, <1>2, <1>4

(* The key of a task that stays keyed is still in use.                     *)
LEMMA RmKeyStays ==
    ASSUME NEW i \in RmStore!Ids, NEW q,
           \A k \in RmStore!Ids \ {i} : rmTasks'[k] = rmTasks[k],
           rmTasks'[i].keyed = rmTasks[i].keyed, rmTasks'[i].job = rmTasks[i].job,
           rmTasks[i].status # "absent" => rmTasks'[i].status # "absent"
    PROVE  RmStore!UniqueConflict(q) => RmStore!UniqueConflict(q)'
<1>1. ASSUME NEW k \in RmStore!Ids
      PROVE  /\ rmTasks'[k].keyed = rmTasks[k].keyed /\ rmTasks'[k].job = rmTasks[k].job
             /\ rmTasks[k].status # "absent" => rmTasks'[k].status # "absent"
  OBVIOUS
<1> QED  BY Zenon, <1>1 DEF RmStore!UniqueConflict, RmStore!Ids

(* A backoff passes, and a stale task is put back: it owes its message     *)
(* again, which is excused when its goroutine has it still.                *)
LEMMA RmReclaimInv ==
    ASSUME RmIInv, NEW i \in RmStore!Ids, RmBackoffEnds(i) \/ RmReclaim(i)
    PROVE  RmIInv'
<1> USE DEF RmIInv
<1>1. UNCHANGED <<rmRow, rmLoop, rmNext, rmRun, rmSent, rmQuiet>>
      /\ rmTasks[i].status \in {"pending", "running"}
  BY DEF RmBackoffEnds, RmReclaim, RmStore!Owned, RmTyped, RmRowOk
<1>2. PICK u : /\ RmRowOk(u) /\ u.job = rmTasks[i].job /\ u.keyed = rmTasks[i].keyed
               /\ u.status = "pending"
               /\ rmTasks' = [rmTasks EXCEPT ![i] = u]
  <2>1. CASE RmBackoffEnds(i)
    BY <2>1, RmRows DEF RmBackoffEnds, RmTyped
  <2>2. CASE RmReclaim(i)
    <3>1. rmTasks[i].status = "running"
      BY <2>2 DEF RmReclaim, RmStore!Owned, RmTyped, RmRowOk
    <3>2. PICK t : t = rmTasks[i] /\ RmRowOk(t)  BY DEF RmTyped
    <3>3. PICK v : v = RmStore!ReclaimedRow(RmStore!StaleRow(t))  OBVIOUS
    <3>4. RmRowOk(v) /\ v.job = t.job /\ v.keyed = t.keyed  BY <3>2, <3>3, RmRows
    <3>5. PICK w : w = RmStore!StaleRow(t)  OBVIOUS
    <3>6. w.status = "running" /\ w.lease = "expired" /\ RmRecord(w)
      BY <3>1, <3>2, <3>5 DEF RmStore!StaleRow, RmRowOk, RmRecord
    <3>7. v.status = "pending"
      BY <3>3, <3>5, <3>6 DEF RmStore!ReclaimedRow, RmStore!IsStale, RmStore!Owned, RmRecord
    <3> QED  BY <2>2, <3>2, <3>3, <3>4, <3>7 DEF RmReclaim
  <2> QED  BY <2>1, <2>2
<1>3. PICK r \in RmIds : r = rmTasks[i].job  BY DEF RmTyped, RmRowOk
<1>4. \/ rmExcuse' = rmExcuse /\ RmAwaits(i)
      \/ rmExcuse' = [rmExcuse EXCEPT ![r] = @ + 1]
  BY <1>3 DEF RmBackoffEnds, RmReclaim, RmAwaits, RmExcused
<1>5. /\ RmTyped' /\ RmPlaced'
      /\ rmTasks'[i] = u /\ \A k \in RmStore!Ids \ {i} : rmTasks'[k] = rmTasks[k]
  <2>1. rmExcuse' \in [RmIds -> Nat]  BY <1>3, <1>4 DEF RmTyped
  <2> QED  BY <1>1, <1>2, <2>1, RmTableInv DEF RmTyped
<1>6. ASSUME NEW q \in RmIds PROVE RmCountedOf(q)'
  <2>1. RmHot(q)' = RmHot(q)
    BY <1>1, <1>2, <1>5 DEF RmHot, RmOf, RmPlaced
  <2>2. \A k : RmHolders(k)' = RmHolders(k)  BY <1>1 DEF RmHolders
  <2>3. \A k \in RmStore!Ids \ {i} : RmAwaits(k)' <=> RmAwaits(k)
    BY <1>5, <2>2 DEF RmAwaits, RmStore!Owned
  <2>4. /\ RmOpen(q)' \subseteq RmOpen(q) \union {i}
        /\ q # r => RmOpen(q)' \subseteq RmOpen(q)
    BY <1>2, <1>3, <1>5, <2>3 DEF RmOpen, RmStore!Ids
  <2>5. RmStore!UniqueConflict(q) => RmStore!UniqueConflict(q)'
    BY <1>1, <1>2, <1>5, RmKeyStays
  <2>6. ASSUME RmOpen(q)' \subseteq RmOpen(q) PROVE RmOwes(q)' <= RmOwes(q)
    BY <2>1, <2>6, RmFinite, RmFiniteNext, CountNoMore DEF RmOwes
  <2>7. CASE q # r
    <3>1. rmExcuse'[q] = rmExcuse[q]  BY <1>3, <1>4, <2>7 DEF RmTyped
    <3> QED  BY <1>1, <2>4, <2>5, <2>6, <2>7, <3>1, RmNoMore
  <2>8. CASE q = r
    <3>6. CASE RmAwaits(i) /\ rmExcuse' = rmExcuse
      <4>1. i \in RmOpen(r)  BY <1>3, <3>6 DEF RmOpen
      <4>2. RmOpen(q)' \subseteq RmOpen(q)  BY <2>4, <2>8, <4>1
      <4> QED  BY <1>1, <2>5, <2>6, <3>6, <4>2, RmNoMore
    <3>7. CASE rmExcuse' = [rmExcuse EXCEPT ![r] = @ + 1]
      <4>1. Cardinality(RmOpen(q)') <= Cardinality(RmOpen(q)) + 1
        BY <2>4, RmFinite, CountMore
      <4>2. RmOwes(q)' <= RmOwes(q) + 1 /\ RmOwes(q) \in Nat /\ RmOwes(q)' \in Nat
        BY <2>1, <4>1, RmFinite, RmFiniteNext DEF RmOwes
      <4>3. rmExcuse'[q] = rmExcuse[q] + 1 /\ rmSent[q] \in Nat  BY <2>8, <3>7 DEF RmTyped
      <4>4. rmSent'[q] + RmOwes(q)' <= rmSent[q] + RmOwes(q) + 1  BY <1>1, <4>2, <4>3
      <4>5. rmSent'[q] \in Nat  BY <1>1, <4>3
      <4> QED  BY <1>1, <2>5, <4>3, <4>4, <4>5, RmExcusing
    <3> QED  BY <1>4, <3>6, <3>7
  <2> QED  BY <2>7, <2>8
<1>7. RmSilent'
  <2>1. SUFFICES ASSUME NEW q \in RmIds, NEW n \in rmQuiet[q] PROVE ~RmUnderWay(q)'
    BY <1>1 DEF RmSilent
  <2>2. ~RmUnderWay(q)  BY DEF RmSilent
  <2>3. RmUnderWay(r) \/ rmTasks[i].status = "running"
    BY <1>1, <1>3 DEF RmUnderWay, RmStore!Active
  <2>4. q # r  BY <1>1, <1>3, <2>2 DEF RmUnderWay, RmStore!Active
  <2>5. ~\E k \in RmStore!Ids : rmTasks'[k].job = q /\ rmTasks'[k].status \in RmStore!Active
    BY <1>2, <1>3, <1>5, <2>2, <2>4 DEF RmUnderWay
  <2>6. \A t \in RmSlots : rmRun[t].pc # "idle" => rmTasks'[rmRun[t].id].job # q
    BY <1>2, <1>5, <2>2 DEF RmUnderWay, RmPlaced
  <2> QED  BY <1>1, <2>2, <2>5, <2>6 DEF RmUnderWay, RmStore!Ids, RmStore!Active
<1> QED  BY <1>5, <1>6, <1>7

(* executeTask's last write, or its failure.                               *)
LEMMA RmEndInv == ASSUME RmIInv, NEW s \in RmSlots, RmEnd(s) PROVE RmIInv'
<1> USE DEF RmIInv
<1>0. PICK i, r : i = rmRun[s].id /\ r = RmOf(s)  OBVIOUS
<1>1. /\ UNCHANGED <<rmRow, rmLoop, rmNext, rmSent, rmQuiet>>
      /\ rmRun' = [rmRun EXCEPT ![s] = RmIdle]
      /\ rmRun[s].pc \in {"complete", "fail"}
  BY DEF RmEnd
<1>2. i \in RmStore!Ids /\ r = rmTasks[i].job /\ r \in RmIds
  BY <1>0, <1>1 DEF RmPlaced, RmTyped, RmRowOk, RmOf
<1>3. PICK t : t = rmTasks[i] /\ RmRowOk(t)  BY <1>2 DEF RmTyped
<1>4. /\ rmRun'[s] = RmIdle /\ \A k \in RmSlots \ {s} : rmRun'[k] = rmRun[k]
      /\ rmRun' \in [RmSlots -> [id : Nat, pc : {"idle", "send", "mark", "complete", "fail"}]]
  BY <1>1 DEF RmTyped, RmIdle
<1>5. PICK u :
         /\ RmRowOk(u) /\ u.job = r /\ (t.status = "absent" => u.status = "absent")
         /\ rmTasks' = [rmTasks EXCEPT ![i] = u]
         /\ \/ /\ rmRun[s].pc = "complete" /\ rmExcuse' = rmExcuse
               /\ IF t.status = "running" THEN u.status = "done" ELSE u = t
            \/ /\ rmRun[s].pc = "fail" /\ rmExcuse' = rmExcuse
               /\ (u.status = "pending" /\ u.keyed = t.keyed) \/ u.status \in {"absent", "failed"}
            \/ /\ rmRun[s].pc = "complete" /\ rmExcuse' = [rmExcuse EXCEPT ![r] = @ + 1] /\ u = t
            \/ /\ rmRun[s].pc = "fail" /\ rmExcuse' = rmExcuse /\ u = t
  <2>1. CASE rmTasks' = rmTasks
    <3>1. rmTasks' = [rmTasks EXCEPT ![i] = t]  BY <1>2, <1>3, <2>1 DEF RmTyped
    <3>2. \/ rmExcuse' = rmExcuse
          \/ rmRun[s].pc = "complete" /\ rmExcuse' = [rmExcuse EXCEPT ![r] = @ + 1]
      BY <1>0 DEF RmEnd, RmExcused
    <3>3. CASE rmRun[s].pc = "fail" \/ rmExcuse' = [rmExcuse EXCEPT ![r] = @ + 1]
      BY <1>1, <1>2, <1>3, <3>1, <3>2, <3>3
    <3>4. CASE rmRun[s].pc = "complete" /\ rmExcuse' = rmExcuse
                /\ rmExcuse' # [rmExcuse EXCEPT ![r] = @ + 1]
      <4>1. rmTasks' = [rmTasks EXCEPT ![i] = RmStore!CompletedRow(t)]
        BY <1>0, <1>3, <3>4 DEF RmEnd, RmExcused
      <4>2. PICK u : u = RmStore!CompletedRow(t)  OBVIOUS
      <4>3. /\ RmRowOk(u) /\ u.job = t.job
            /\ IF t.status = "running" THEN u.status = "done" ELSE u = t
        BY <1>3, <4>2, RmRows
      <4>4. rmTasks' = [rmTasks EXCEPT ![i] = u] /\ (t.status = "absent" => u.status = "absent")
        BY <4>1, <4>2, <4>3
      <4> QED  BY <1>2, <1>3, <3>4, <4>3, <4>4
    <3> QED  BY <1>1, <3>2, <3>3, <3>4
  <2>2. CASE rmTasks' # rmTasks
    <3>1. rmExcuse' = rmExcuse  BY <2>2 DEF RmEnd
    <3>2. CASE rmRun[s].pc = "complete"
      <4>1. rmTasks' = [rmTasks EXCEPT ![i] = RmStore!CompletedRow(t)]
        BY <1>0, <1>3, <2>2, <3>2 DEF RmEnd
      <4>2. PICK u : u = RmStore!CompletedRow(t)  OBVIOUS
      <4>3. t.status = "absent" => u.status = "absent"  BY <1>3, <4>2, RmRows
      <4> QED  BY <1>2, <1>3, <3>1, <3>2, <4>1, <4>2, <4>3, RmRows
    <3>3. CASE rmRun[s].pc = "fail"
      <4>1. PICK m, b : rmTasks' = [rmTasks EXCEPT ![i] = RmStore!FailedRow(t, m, b)]
        BY <1>0, <1>3, <2>2, <3>3 DEF RmEnd
      <4>2. PICK u : u = RmStore!FailedRow(t, m, b)  OBVIOUS
      <4>3. t.status = "absent" => u.status = "absent"
        BY <1>3, <4>2 DEF RmStore!FailedRow
      <4>4. /\ RmRowOk(u) /\ u.job = t.job
            /\ \/ u.status = "pending" /\ u.keyed = t.keyed
               \/ u.status \in {"absent", "failed"}
        BY <1>3, <4>2, RmFailedRow
      <4>5. rmTasks' = [rmTasks EXCEPT ![i] = u]  BY <4>1, <4>2
      <4> QED  BY <1>2, <1>3, <3>1, <3>3, <4>3, <4>4, <4>5
    <3> QED  BY <1>1, <3>2, <3>3
  <2> QED  BY <2>1, <2>2
<1>6. /\ RmTyped' /\ RmPlaced'
      /\ rmTasks'[i] = u /\ \A k \in RmStore!Ids \ {i} : rmTasks'[k] = rmTasks[k]
  <2>1. rmExcuse' \in [RmIds -> Nat]  BY <1>2, <1>5 DEF RmTyped
  <2>2. \A k \in RmSlots : rmRun'[k] \in {rmRun[k], RmIdle}  BY <1>4
  <2> QED  BY <1>1, <1>2, <1>3, <1>4, <1>5, <2>1, <2>2, RmTableInv
<1>7. rmRun'[s].id = 0 /\ rmRun'[s].pc = "idle"  BY <1>4 DEF RmIdle
<1>8. rmTasks'[i].job = rmTasks[i].job  BY <1>2, <1>5, <1>6
<1>9. ASSUME NEW q \in RmIds PROVE RmCountedOf(q)'
  <2>1. CASE q # r
    <3>1. rmExcuse'[q] = rmExcuse[q]  BY <1>2, <1>5, <2>1 DEF RmTyped
    <3> QED  BY <1>0, <1>1, <1>2, <1>4, <1>6, <1>7, <1>8, <2>1, <3>1, RmOthersCount
  <2>2. CASE q = r
    <3>1. /\ RmOpen(r)' \subseteq RmOpen(r) \union {i}
          /\ ~RmAwaits(i)' => RmOpen(r)' \subseteq RmOpen(r) \ {i}
          /\ RmHot(r)' \subseteq RmHot(r) \union {s}
          /\ s \notin RmHot(r)' => RmHot(r)' \subseteq RmHot(r) \ {s}
      BY <1>0, <1>1, <1>2, <1>4, <1>6, <1>7, <1>8, RmMoves
    <3>2. RmHot(r)' \subseteq RmHot(r) \ {s}  BY <1>7, <3>1 DEF RmHot
    <3>3. rmRun[s].pc = "fail" => s \in RmHot(r)  BY <1>0 DEF RmHot
    <3>4. /\ Cardinality(RmHot(r)') <= Cardinality(RmHot(r))
          /\ rmRun[s].pc = "fail" => Cardinality(RmHot(r)') + 1 <= Cardinality(RmHot(r))
      <4>1. RmHot(r)' \subseteq RmHot(r)  BY <3>2
      <4>2. Cardinality(RmHot(r)') <= Cardinality(RmHot(r))  BY <4>1, RmFinite, CountNoMore
      <4>3. ASSUME rmRun[s].pc = "fail"
            PROVE  Cardinality(RmHot(r)') + 1 <= Cardinality(RmHot(r))
        BY <3>2, <3>3, <4>3, RmFinite, CountLess
      <4> QED  BY <4>2, <4>3
    <3>5. Cardinality(RmOpen(r)') <= Cardinality(RmOpen(r)) + 1
      BY <3>1, RmFinite, CountMore
    <3>6. /\ rmSent[r] \in Nat /\ rmSent'[r] \in Nat /\ rmExcuse[r] \in Nat
          /\ RmOwes(r) \in Nat /\ RmOwes(r)' \in Nat
      BY <1>1, <1>2, RmFinite, RmFiniteNext DEF RmTyped, RmOwes
    <3>7. RmOwes(r)' <= RmOwes(r) + 1  BY <3>4, <3>5, RmFinite, RmFiniteNext DEF RmOwes
    <3>8. rmRun[s].pc = "fail" => RmOwes(r)' <= RmOwes(r)
      BY <3>4, <3>5, RmFinite, RmFiniteNext DEF RmOwes
    <3>9. RmOpen(r)' \subseteq RmOpen(r) => RmOwes(r)' <= RmOwes(r)
      BY <3>4, RmFinite, RmFiniteNext, CountNoMore DEF RmOwes
    <3>10. CASE u.keyed = t.keyed /\ (t.status # "absent" => u.status # "absent")
                  /\ (rmRun[s].pc = "fail" \/ rmExcuse' = [rmExcuse EXCEPT ![r] = @ + 1])
      <4>1. RmStore!UniqueConflict(r) => RmStore!UniqueConflict(r)'
        BY <1>2, <1>3, <1>6, <1>8, <3>10, RmKeyStays
      <4>2. CASE rmExcuse' = [rmExcuse EXCEPT ![r] = @ + 1]
        <5>1. rmExcuse'[r] = rmExcuse[r] + 1  BY <1>2, <4>2 DEF RmTyped
        <5>2. rmSent'[r] + RmOwes(r)' <= rmSent[r] + RmOwes(r) + 1  BY <1>1, <3>6, <3>7
        <5> QED  BY <1>1, <1>2, <2>2, <3>6, <4>1, <5>1, <5>2, RmExcusing
      <4>3. CASE rmRun[s].pc = "fail" /\ rmExcuse' = rmExcuse
        BY <1>1, <1>2, <2>2, <3>8, <4>1, <4>3, RmNoMore
      <4> QED  BY <1>5, <3>10, <4>2, <4>3
    <3>11. CASE rmRun[s].pc = "complete" /\ rmExcuse' = rmExcuse
      <4>1. rmRow[r] = "fired"  BY <1>0, <3>11 DEF RmPlaced
      <4>2. RmOpen(r)' \subseteq RmOpen(r)
        <5>1. CASE t.status = "running"
          <6>1. u.status = "done" \/ rmExcuse' = [rmExcuse EXCEPT ![r] = @ + 1]
            BY <1>5, <3>11, <5>1
          <6>2. rmExcuse[r] + 1 # rmExcuse[r]  BY <3>6
          <6>3. u.status = "done"  BY <1>2, <3>11, <6>1, <6>2 DEF RmTyped
          <6>4. ~RmAwaits(i)'  BY <1>6, <6>3 DEF RmAwaits, RmStore!Owned
          <6> QED  BY <3>1, <6>4
        <5>2. CASE t.status # "running"
          <6>1. u = t  BY <1>5, <3>11, <5>2
          <6>2. RmAwaits(i)' => RmAwaits(i)
            BY <1>3, <1>6, <5>2, <6>1 DEF RmAwaits, RmStore!Owned, RmRowOk
          <6>3. RmAwaits(i) => i \in RmOpen(r)  BY <1>2 DEF RmOpen
          <6>4. CASE RmAwaits(i)'  BY <3>1, <6>2, <6>3, <6>4
          <6>5. CASE ~RmAwaits(i)'  BY <3>1, <6>5
          <6> QED  BY <6>4, <6>5
        <5> QED  BY <5>1, <5>2
      <4> QED  BY <1>1, <1>2, <2>2, <3>9, <3>11, <4>1, <4>2, RmNoMore
    <3>12. CASE rmRun[s].pc = "fail" /\ rmExcuse' = rmExcuse /\ u.status \in {"absent", "failed"}
      <4>1. ~RmAwaits(i)'  BY <1>6, <3>12 DEF RmAwaits, RmStore!Owned
      <4>2. RmOpen(r)' \subseteq RmOpen(r)  BY <3>1, <4>1
      <4>3. Cardinality(RmOpen(r)') <= Cardinality(RmOpen(r))  BY <4>2, RmFinite, CountNoMore
      <4>4. RmOwes(r)' + 1 <= RmOwes(r)  BY <3>4, <3>12, <4>3, RmFinite, RmFiniteNext DEF RmOwes
      <4>5. RmCountedOf(r)  BY <1>2
      <4> QED  BY <1>1, <2>2, <3>6, <3>12, <4>4, <4>5 DEF RmCountedOf
    <3> QED  BY <1>1, <1>3, <1>5, <3>10, <3>11, <3>12
  <2> QED  BY <2>1, <2>2
<1>10. RmSilent'
  <2>1. RmUnderWay(r)  BY <1>0, <1>1 DEF RmUnderWay, RmOf
  <2>2. RmUnderWay(rmTasks[i].job)  BY <1>2, <2>1
  <2> QED  BY <1>1, <1>2, <1>4, <1>6, <1>7, <1>8, <2>2, RmQuietly
<1> QED  BY <1>6, <1>9, <1>10

(* The process dies: what is put back later was held by a goroutine that   *)
(* owed its message, or whose message is one of the excuses.               *)
LEMMA RmCrashInv == ASSUME RmIInv, RmCrash PROVE RmIInv'
<1> USE DEF RmIInv
<1> DEFINE RmSpent(r) == {s \in RmSlots : rmRun[s].pc \in {"mark", "complete"} /\ RmOf(s) = r}
           RmHeld(r)  == {s \in RmSlots : rmRun[s].pc # "idle" /\ RmOf(s) = r}
           RmLeft(r)  == {i \in RmStore!Ids : rmTasks[i].job = r /\ RmHolders(i) # {}}
<1>1. /\ UNCHANGED <<rmRow, rmTasks, rmNext, rmSent, rmQuiet>>
      /\ rmLoop' = [a \in RmLoops |-> {}] /\ rmRun' = [s \in RmSlots |-> RmIdle]
      /\ rmExcuse' = [r \in RmIds |-> rmExcuse[r] + Cardinality(RmSpent(r))]
  BY DEF RmCrash, RmTable
<1>2. \A r : IsFiniteSet(RmSpent(r)) /\ Cardinality(RmSpent(r)) \in Nat
  <2>1. ASSUME NEW r PROVE IsFiniteSet(RmSpent(r)) /\ Cardinality(RmSpent(r)) \in Nat
    <3>1. RmSpent(r) \subseteq RmSlots  OBVIOUS
    <3> QED  BY <3>1, RmAssumption, FS_Subset, FS_CardinalityType
  <2> QED  BY <2>1
<1>3. RmTyped'
  <2>1. rmExcuse' \in [RmIds -> Nat]
    <3> HIDE DEF RmSpent
    <3>1. \A r \in RmIds : rmExcuse[r] + Cardinality(RmSpent(r)) \in Nat  BY <1>2 DEF RmTyped
    <3> QED  BY <1>1, <3>1
  <2> QED  BY <1>1, <2>1 DEF RmTyped, RmIdle, RmStore!Ids, RmRowOk, RmRecord
<1>4. RmPlaced'  BY <1>1 DEF RmPlaced, RmIdle, RmStore!Ids
<1>5. ASSUME NEW r \in RmIds
      PROVE  /\ IsFiniteSet(RmLeft(r)) /\ Cardinality(RmLeft(r)) <= Cardinality(RmHeld(r))
             /\ Cardinality(RmLeft(r)) \in Nat /\ IsFiniteSet(RmHeld(r)) /\ Cardinality(RmHeld(r)) \in Nat
  <2>1. RmHeld(r) \subseteq RmSlots  OBVIOUS
  <2>2. IsFiniteSet(RmHeld(r)) /\ Cardinality(RmHeld(r)) \in Nat
    BY <2>1, RmAssumption, FS_Subset, FS_CardinalityType
  <2>3. PICK g : g = [s \in RmHeld(r) |-> rmRun[s].id]  OBVIOUS
  <2>4. \A i \in RmLeft(r) : \E s \in RmHeld(r) : g[s] = i
    <3>1. ASSUME NEW i \in RmLeft(r) PROVE \E s \in RmHeld(r) : g[s] = i
      <4>1. PICK s \in RmSlots : rmRun[s].id = i  BY DEF RmHolders
      <4>2. i # 0  BY DEF RmStore!Ids
      <4>3. rmRun[s].pc # "idle" /\ RmOf(s) = r  BY <4>1, <4>2 DEF RmPlaced, RmOf
      <4> QED  BY <2>3, <4>1, <4>3
    <3> QED  BY <3>1
  <2>5. \A s \in RmHeld(r) : g[s] \in RmLeft(r)
    BY <2>3 DEF RmHolders, RmPlaced, RmOf
  <2>6. g \in Surjection(RmHeld(r), RmLeft(r))
    <3> HIDE DEF RmHeld, RmLeft
    <3>1. g \in [RmHeld(r) -> RmLeft(r)]  BY <2>3, <2>5
    <3> QED  BY <2>4, <3>1 DEF Surjection
  <2>7. IsFiniteSet(RmLeft(r)) /\ Cardinality(RmLeft(r)) <= Cardinality(RmHeld(r))
    BY <2>2, <2>6, FS_Surjection
  <2> QED  BY <2>2, <2>7, FS_CardinalityType
<1>6. ASSUME NEW r \in RmIds
      PROVE  RmOwes(r)' <= RmOwes(r) + Cardinality(RmSpent(r))
  <2>1. RmHot(r)' = {}  BY <1>1 DEF RmHot, RmIdle
  <2>2. RmOpen(r)' \subseteq RmOpen(r) \union RmLeft(r)
    BY <1>1 DEF RmOpen, RmAwaits, RmStore!Ids, RmStore!Owned
  <2>3. RmHeld(r) = RmHot(r) \union RmSpent(r)
    BY DEF RmHot, RmTyped
  <2> HIDE DEF RmHeld, RmLeft, RmSpent
  <2>4. /\ IsFiniteSet(RmOpen(r) \union RmLeft(r))
        /\ Cardinality(RmOpen(r) \union RmLeft(r)) =
              Cardinality(RmOpen(r)) + Cardinality(RmLeft(r)) - Cardinality(RmOpen(r) \cap RmLeft(r))
    BY <1>5, RmFinite, FS_Union
  <2>5. Cardinality(RmOpen(r)') <= Cardinality(RmOpen(r) \union RmLeft(r))
    BY <2>2, <2>4, CountNoMore
  <2>6. Cardinality(RmOpen(r) \cap RmLeft(r)) \in Nat
    BY RmFinite, FS_Intersection, FS_CardinalityType
  <2>7. Cardinality(RmHeld(r)) =
           Cardinality(RmHot(r)) + Cardinality(RmSpent(r)) - Cardinality(RmHot(r) \cap RmSpent(r))
    BY <1>2, <2>3, RmFinite, FS_Union
  <2>8. Cardinality(RmHot(r) \cap RmSpent(r)) \in Nat
    BY RmFinite, FS_Intersection, FS_CardinalityType
  <2>9. Cardinality(RmHot(r)') = 0  BY <2>1, FS_EmptySet
  <2> QED  BY <1>2, <1>5, <2>4, <2>5, <2>6, <2>7, <2>8, <2>9, RmFinite, RmFiniteNext DEF RmOwes
<1>7. ASSUME NEW r \in RmIds PROVE RmCountedOf(r)'
  <2> HIDE DEF RmSpent
  <2>1. RmStore!UniqueConflict(r)' <=> RmStore!UniqueConflict(r)
    BY Zenon, <1>1 DEF RmStore!UniqueConflict, RmStore!Ids
  <2>2. RmUnserved(r)' => RmUnserved(r)  BY <1>1, <2>1 DEF RmUnserved
  <2>3. /\ rmSent[r] \in Nat /\ rmExcuse[r] \in Nat /\ Cardinality(RmSpent(r)) \in Nat
        /\ RmOwes(r) \in Nat /\ RmOwes(r)' \in Nat
    BY <1>2, RmFinite, RmFiniteNext DEF RmTyped, RmOwes
  <2>4. RmCountedOf(r)  OBVIOUS
  <2>5. rmExcuse'[r] = rmExcuse[r] + Cardinality(RmSpent(r)) /\ rmSent'[r] = rmSent[r]  BY <1>1
  <2> QED  BY <1>6, <2>2, <2>3, <2>4, <2>5 DEF RmCountedOf
<1>8. RmSilent'
  <2>1. \A q : RmUnderWay(q)' => RmUnderWay(q)
    BY <1>1 DEF RmUnderWay, RmIdle, RmStore!Ids, RmStore!Active
  <2> QED  BY <1>1, <2>1 DEF RmSilent
<1> QED  BY <1>3, <1>4, <1>7, <1>8

(* The first state: nothing is owed.                                       *)
LEMMA RmInitInv == ASSUME RmInit PROVE RmIInv
<1>1. PICK f : f = FALSE  OBVIOUS
<1>2. PICK n : n = [status |-> "absent", job |-> CHOOSE j \in RmIds : TRUE, keyed |-> f,
                    worker |-> "none", attempts |-> 0, prio |-> 0, due |-> f,
                    lease |-> "none", old |-> f]
  OBVIOUS
<1>3. n = RmStore!NoRow  BY Zenon, <1>1, <1>2 DEF RmStore!NoRow
<1>4. RmRowOk(n) /\ n.status = "absent"  BY <1>2, RmAssumption DEF RmRowOk, RmRecord
<1>5. /\ rmTasks = [i \in RmStore!Ids |-> n] /\ rmNext = 1
      /\ rmRun = [s \in RmSlots |-> RmIdle]
  BY <1>3 DEF RmInit, RmStore!StoreInit
<1>6. RmTyped  BY <1>4, <1>5 DEF RmInit, RmTyped, RmIdle
<1>7. RmPlaced  BY <1>4, <1>5 DEF RmInit, RmPlaced, RmIdle
<1>8. ASSUME NEW r \in RmIds PROVE RmCountedOf(r)
  <2>1. RmOpen(r) = {}  BY <1>4, <1>5 DEF RmOpen, RmAwaits, RmStore!Owned
  <2>2. RmHot(r) = {}  BY <1>5 DEF RmHot, RmIdle
  <2>3. RmOwes(r) = 0  BY <2>1, <2>2, FS_EmptySet DEF RmOwes
  <2> QED  BY <2>3 DEF RmCountedOf, RmInit
<1>9. RmSilent  BY DEF RmInit, RmSilent
<1> QED  BY <1>6, <1>7, <1>8, <1>9 DEF RmIInv

(* Every step keeps the invariant.                                         *)
LEMMA RmStepInv == ASSUME RmIInv, [RmNext]_rmVars PROVE RmIInv'
<1>1. CASE UNCHANGED rmVars
  <2>1. UNCHANGED <<rmRow, rmLoop, rmTasks, rmNext, rmRun, rmSent, rmExcuse, rmQuiet>>
    BY <1>1 DEF rmVars
  <2>2. RmTyped' /\ RmPlaced'
    BY <2>1 DEF RmIInv, RmTyped, RmPlaced, RmOf, RmStore!Ids, RmRowOk, RmRecord
  <2>3. ASSUME NEW r \in RmIds PROVE RmCountedOf(r)'
    <3>1. RmUnserved(r)' => RmUnserved(r)  BY <2>1, RmStill DEF RmUnserved
    <3>2. RmCountedOf(r)  BY DEF RmIInv
    <3> QED  BY Zenon, <2>1, <3>1, <3>2, RmStill DEF RmCountedOf
  <2>4. \A q : RmUnderWay(q)' <=> RmUnderWay(q)
    BY <2>1 DEF RmUnderWay, RmStore!Ids, RmStore!Active
  <2>5. RmSilent'  BY <2>1, <2>4 DEF RmIInv, RmSilent
  <2> QED  BY <2>2, <2>3, <2>5 DEF RmIInv
<1>2. CASE RmNext
  <2>1. CASE \E r \in RmIds : RmCreate(r) \/ RmComesDue(r) \/ RmCancel(r)  BY <2>1, RmChatInv
  <2>2. CASE \E a \in RmLoops : RmRead(a) \/ \E r \in RmIds : RmInsert(a, r)
    BY <2>2, RmReadInv, RmInsertInv
  <2>3. CASE RmClaiming \/ \E s \in RmSlots : RmStep(s)
    BY <2>3, RmClaimInv, RmHandlerInv, RmEndInv DEF RmClaiming, RmStep
  <2>4. CASE \E i \in RmStore!Ids : RmBackoffEnds(i) \/ RmReclaim(i)  BY <2>4, RmReclaimInv
  <2>5. CASE RmCrash  BY <2>5, RmCrashInv
  <2> QED  BY <1>2, <2>1, <2>2, <2>3, <2>4, <2>5 DEF RmNext
<1> QED  BY <1>1, <1>2

(* What RmSafe asks for is in the invariant.                               *)
LEMMA RmIInvSafe == ASSUME RmIInv PROVE RmSafe
<1>1. ASSUME NEW r \in RmIds
      PROVE  /\ rmRow[r] = "fired" => rmSent[r] > 0
             /\ rmSent[r] <= 1 + rmExcuse[r]
             /\ \A n \in rmQuiet[r] : rmRow[r] = "cancelled" /\ rmSent[r] = n
  <2>1. rmSent[r] \in Nat /\ rmExcuse[r] \in Nat /\ RmOwes(r) \in Nat
    BY RmFinite DEF RmIInv, RmTyped, RmOwes
  <2>2. RmCountedOf(r)  BY DEF RmIInv
  <2> QED  BY <2>1, <2>2 DEF RmIInv, RmPlaced, RmSilent, RmCountedOf
<1> QED  BY <1>1 DEF RmSafe

(* A reminder that is marked fired was sent, one message is sent but for   *)
(* those that an excuse explains, and one that was cancelled with nothing  *)
(* under way stays silent (ReminderJob, reminder_fire.go, DeleteReminder). *)
THEOREM RmSafety == RmSpec => []RmSafe
<1>1. RmInit => RmIInv  BY RmInitInv
<1>2. RmIInv /\ [RmNext]_rmVars => RmIInv'  BY RmStepInv
<1>3. RmIInv => RmSafe  BY RmIInvSafe
<1> QED  BY <1>1, <1>2, <1>3, PTL DEF RmSpec
-----------------------------------------------------------------------------
(* Scheduled agent jobs.  A firing that may still be dispatched is in the  *)
(* ledger and nobody else's; the job it stands for is as it was checked, or *)
(* an edit came after the check; the firings under way and the one that    *)
(* may be read are counted against the periods that have begun.            *)

AjRowOk(row) ==
    /\ row = [there |-> row.there, on |-> row.on, prompt |-> row.prompt, next |-> row.next]
    /\ row.next \in Nat

AjTaskOk(t) ==
    /\ t = [status |-> t.status, job |-> t.job, keyed |-> t.keyed, worker |-> t.worker,
            attempts |-> t.attempts, prio |-> t.prio, due |-> t.due, lease |-> t.lease,
            old |-> t.old]
    /\ t.job \in AjJobs

AjFiringsOk(l) ==
    /\ l = [due |-> l.due, made |-> l.made]
    /\ \A f \in l.due \union l.made : f[1] \in AjJobs
    /\ \A f, g \in l.due \union l.made : f[1] = g[1] => f = g

AjPcs == {"idle", "handle", "claim", "dispatch", "complete", "fail"}

AjTyped ==
    /\ ajRow = [j \in AjJobs |-> ajRow[j]] /\ \A j \in AjJobs : AjRowOk(ajRow[j])
    /\ ajNow \in Nat
    /\ \/ ajEdit = AjNoEdit
       \/ AjRowOk(ajEdit.row) /\ ajEdit.job \in AjJobs
    /\ ajLoop = [a \in AjLoops |-> ajLoop[a]] /\ \A a \in AjLoops : AjFiringsOk(ajLoop[a])
    /\ ajTasks = [i \in AjStore!Ids |-> ajTasks[i]]
    /\ \A i \in AjStore!Ids : AjTaskOk(ajTasks[i])
    /\ ajNext \in Nat \ {0}
    /\ ajPay = [i \in AjStore!Ids |-> ajPay[i]]
    /\ ajRun \in [AjSlots -> [id : Nat, pc : AjPcs]]
    /\ ajLedger \subseteq AjStore!Ids /\ ajFloor \in Nat
    /\ ajDone \in [AjStore!Ids -> Nat]
    /\ ajFired \in [AjJobs -> Nat] /\ ajExcuse \in [AjJobs -> Nat]

AjPlaced ==
    /\ \A i \in AjStore!Ids : i >= ajNext => ajTasks[i].status = "absent"
    /\ \A s \in AjSlots :
          IF ajRun[s].pc = "idle" THEN ajRun[s].id = 0
          ELSE ajRun[s].id \in AjStore!Ids /\ ajRun[s].id < ajNext

AjOnce ==
    /\ \A i \in AjStore!Ids : ajDone[i] <= 1 /\ (ajDone[i] > 0 => AjClaimed(i))
    /\ \A s \in AjSlots : ajRun[s].pc = "dispatch" =>
          AjClaimed(ajRun[s].id) /\ ajDone[ajRun[s].id] = 0
    /\ \A s, t \in AjSlots :
          ajRun[s].pc = "dispatch" /\ ajRun[t].pc = "dispatch" /\ ajRun[s].id = ajRun[t].id
          => s = t

AjHeeded ==
    /\ ajWrong = {}
    /\ \A s \in AjSlots :
          ajRun[s].pc \in {"claim", "dispatch"} => AjMatches(ajRun[s].id) \/ s \in ajLate

AjFlying(j) == {a \in AjLoops : \E f \in ajLoop[a].due \union ajLoop[a].made : f[1] = j}

AjIsRead(j) == \E a \in AjLoops : \E f \in ajLoop[a].due : f[1] = j

\* A loop may read the job, and has no need of an excuse.
AjFree(j) == ajRow[j].there /\ ajRow[j].next <= ajNow /\ ~AjIsRead(j)

AjCountedOf(j) ==
    /\ ajFired[j] + Cardinality(AjFlying(j)) <= 1 + ajNow + ajExcuse[j]
    /\ AjFree(j) => ajFired[j] + Cardinality(AjFlying(j)) <= ajNow + ajExcuse[j]

AjIInv == AjTyped /\ AjPlaced /\ AjOnce /\ AjHeeded /\ \A j \in AjJobs : AjCountedOf(j)

(* The counts of a job whose row, firings and loops stay.                  *)
LEMMA AjCountsStay ==
    ASSUME UNCHANGED <<ajRow, ajNow, ajLoop, ajFired, ajExcuse>>, NEW j, AjCountedOf(j)
    PROVE  AjCountedOf(j)'
<1>1. AjFlying(j)' = AjFlying(j)  BY DEF AjFlying
<1>2. AjIsRead(j)' <=> AjIsRead(j)  BY DEF AjIsRead
<1>3. AjFree(j)' <=> AjFree(j)  BY Zenon, <1>2 DEF AjFree
<1> QED  BY Zenon, <1>1, <1>3 DEF AjCountedOf

(* The claims, when nobody comes to a dispatch.                            *)
LEMMA AjOnceStays ==
    ASSUME AjOnce, UNCHANGED <<ajLedger, ajFloor, ajDone>>,
           \A s \in AjSlots : ajRun'[s].pc = "dispatch" => ajRun'[s] = ajRun[s]
    PROVE  AjOnce'
<1>1. \A i : AjClaimed(i)' <=> AjClaimed(i)  BY DEF AjClaimed
<1> QED  BY <1>1 DEF AjOnce, AjStore!Ids

(* A task stands for its job's row as long as the row, but for its         *)
(* next_run, the job of the task and its payload stay.                     *)
LEMMA AjMatchStays ==
    ASSUME NEW i, ajTasks'[i].job = ajTasks[i].job, ajPay'[i] = ajPay[i],
           ajRow'[ajTasks[i].job].there = ajRow[ajTasks[i].job].there,
           ajRow'[ajTasks[i].job].on = ajRow[ajTasks[i].job].on,
           ajRow'[ajTasks[i].job].prompt = ajRow[ajTasks[i].job].prompt
    PROVE  AjMatches(i)' <=> AjMatches(i)
BY Zenon DEF AjMatches

(* The checks, when nobody passes one.                                     *)
LEMMA AjHeededStays ==
    ASSUME AjHeeded, ajWrong' = ajWrong,
           \A s \in AjSlots : ajRun'[s].pc \in {"claim", "dispatch"} =>
              /\ ajRun[s].pc \in {"claim", "dispatch"} /\ ajRun'[s].id = ajRun[s].id
              /\ s \in ajLate => s \in ajLate'
              /\ s \in ajLate' \/ (AjMatches(ajRun[s].id) => AjMatches(ajRun[s].id)')
    PROVE  AjHeeded'
BY DEF AjHeeded

(* The same, when rows, tasks and payloads stay as well.                   *)
LEMMA AjHeededFrame ==
    ASSUME AjHeeded, UNCHANGED <<ajRow, ajWrong, ajPay>>,
           \A s \in AjSlots : ajRun'[s].pc \in {"claim", "dispatch"} =>
              /\ ajRun[s].pc \in {"claim", "dispatch"} /\ ajRun'[s].id = ajRun[s].id
              /\ s \in ajLate => s \in ajLate'
              /\ ajTasks'[ajRun[s].id].job = ajTasks[ajRun[s].id].job
    PROVE  AjHeeded'
<1>1. ASSUME NEW s \in AjSlots, ajRun'[s].pc \in {"claim", "dispatch"}
      PROVE  AjMatches(ajRun[s].id) => AjMatches(ajRun[s].id)'
  <2>1. PICK i : i = ajRun[s].id  OBVIOUS
  <2>2. ajTasks'[i].job = ajTasks[i].job /\ ajRun'[s].id = i  BY <1>1, <2>1
  <2>3. AjMatches(i)' <=> AjMatches(i)  BY <2>2, AjMatchStays
  <2>4. AjMatches(ajRun[s].id)' <=> AjMatches(i)'  BY Zenon, <2>2 DEF AjMatches
  <2> QED  BY Zenon, <2>1, <2>3, <2>4
<1> QED  BY <1>1, AjHeededStays

(* Time, and an edit that reads a row.                                     *)
LEMMA AjTimeInv == ASSUME AjIInv, AjTime PROVE AjIInv'
<1> USE DEF AjIInv
<1>1. /\ UNCHANGED <<ajRow, ajEdit, ajLoop, ajTasks, ajNext, ajPay, ajRun, ajLedger, ajFloor,
                     ajDone, ajFired, ajExcuse, ajLate, ajWrong>>
      /\ ajNow' = ajNow + 1
  BY DEF AjTime, AjTable, AjClaims, AjRecords
<1>2. AjTyped'  BY <1>1 DEF AjTyped, AjRowOk, AjTaskOk, AjFiringsOk, AjStore!Ids
<1>3. AjPlaced'  BY <1>1 DEF AjPlaced, AjStore!Ids
<1>4. AjOnce'  BY <1>1, AjOnceStays
<1>5. AjHeeded'  BY <1>1, AjHeededFrame
<1>6. ASSUME NEW j \in AjJobs PROVE AjCountedOf(j)'
  <2>1. AjFlying(j)' = AjFlying(j)  BY <1>1 DEF AjFlying
  <2>2. Cardinality(AjFlying(j)) \in Nat
    BY AjAssumption, FS_Subset, FS_CardinalityType DEF AjFlying
  <2>3. AjCountedOf(j) /\ ajFired[j] \in Nat /\ ajExcuse[j] \in Nat /\ ajNow \in Nat
    BY DEF AjTyped
  <2> QED  BY <1>1, <2>1, <2>2, <2>3 DEF AjCountedOf
<1> QED  BY <1>2, <1>3, <1>4, <1>5, <1>6

(* An edit begins: it remembers the row as it is now.                      *)
LEMMA AjOpenInv == ASSUME AjIInv, NEW j \in AjJobs, AjOpen(j) PROVE AjIInv'
<1> USE DEF AjIInv
<1>1. UNCHANGED <<ajRow, ajNow, ajLoop, ajTasks, ajNext, ajPay, ajRun, ajLedger, ajFloor,
                  ajDone, ajFired, ajExcuse, ajLate, ajWrong>>
  BY DEF AjOpen, AjTable, AjClaims, AjRecords
<1>2. AjRowOk(ajEdit'.row) /\ ajEdit'.job \in AjJobs
  <2>1. PICK b : b = (~ajRow[j].on)  OBVIOUS
  <2>2. PICK row : /\ \/ row = [ajRow[j] EXCEPT !.on = b]
                      \/ row = [ajRow[j] EXCEPT !.prompt = "edited"]
                   /\ ajEdit' = [job |-> j, row |-> row]
    BY Zenon, <2>1 DEF AjOpen
  <2>3. AjRowOk(row)  BY <2>2 DEF AjTyped, AjRowOk
  <2> QED  BY <2>2, <2>3
<1>3. AjTyped'
  <2>1. AjRowOk(ajEdit.row)' /\ (ajEdit.job \in AjJobs)'  BY <1>2 DEF AjRowOk
  <2> QED  BY SMTT(30), <1>1, <2>1 DEF AjTyped, AjTaskOk, AjFiringsOk, AjStore!Ids, AjRowOk
<1>4. AjPlaced'  BY <1>1 DEF AjPlaced, AjStore!Ids
<1>5. AjOnce'  BY <1>1, AjOnceStays
<1>6. AjHeeded'  BY <1>1, AjHeededFrame
<1>7. ASSUME NEW k \in AjJobs PROVE AjCountedOf(k)'  BY <1>1, AjCountsStay
<1> QED  BY <1>3, <1>4, <1>5, <1>6, <1>7

(* An edit is written: who checked before is late, and an old next_run is  *)
(* excused.                                                                *)
LEMMA AjSaveInv == ASSUME AjIInv, AjSave PROVE AjIInv'
<1> USE DEF AjIInv
<1>1. PICK j, row : j = ajEdit.job /\ row = ajEdit.row  OBVIOUS
<1>2. j \in AjJobs /\ AjRowOk(row)  BY <1>1 DEF AjSave, AjTyped
<1>3. UNCHANGED <<ajNow, ajLoop, ajTasks, ajNext, ajPay, ajRun, ajLedger, ajFloor, ajDone,
                  ajFired, ajWrong>> /\ ajEdit' = AjNoEdit
  BY DEF AjSave, AjTable, AjClaims
<1>4. \/ /\ ajRow' = [ajRow EXCEPT ![j] = row] /\ ajLate' = ajLate \union AjChecked(j)
         /\ ajRow[j].there
         /\ ajExcuse' = IF row.next < ajRow[j].next
                        THEN [ajExcuse EXCEPT ![j] = @ + 1] ELSE ajExcuse
      \/ UNCHANGED <<ajRow, ajLate, ajExcuse>>
  BY <1>1 DEF AjSave
<1>5. /\ ajRow' = [k \in AjJobs |-> ajRow'[k]] /\ \A k \in AjJobs : AjRowOk(ajRow'[k])
      /\ \A k \in AjJobs \ {j} : ajRow'[k] = ajRow[k]
      /\ ajExcuse' \in [AjJobs -> Nat]
      /\ \A k \in AjJobs : ajExcuse'[k] >= ajExcuse[k]
  BY <1>2, <1>4 DEF AjTyped
<1>6. AjTyped'
  <2>1. (\A k \in AjJobs : AjRowOk(ajRow[k]))'  BY <1>5 DEF AjRowOk
  <2> QED  BY <1>3, <1>5, <2>1 DEF AjTyped, AjTaskOk, AjFiringsOk, AjStore!Ids
<1>7. AjPlaced'  BY <1>3 DEF AjPlaced, AjStore!Ids
<1>8. AjOnce'  BY <1>3, AjOnceStays
<1>9. AjHeeded'
  <2>1. ASSUME NEW s \in AjSlots, ajRun[s].pc \in {"claim", "dispatch"}
        PROVE  s \in ajLate' \/ (AjMatches(ajRun[s].id) => AjMatches(ajRun[s].id)')
    <3>1. PICK i : i = ajRun[s].id  OBVIOUS
    <3>2. CASE ajTasks[i].job = j /\ ~UNCHANGED <<ajRow, ajLate, ajExcuse>>
      <4>1. s \in AjChecked(j)  BY <2>1, <3>1, <3>2 DEF AjChecked
      <4> QED  BY <1>4, <3>2, <4>1
    <3>3. CASE ajTasks[i].job # j \/ UNCHANGED <<ajRow, ajLate, ajExcuse>>
      <4>1. ajTasks[i].job \in AjJobs
        BY <2>1, <3>1 DEF AjPlaced, AjTyped, AjTaskOk
      <4>2. ajRow'[ajTasks[i].job] = ajRow[ajTasks[i].job]  BY <1>5, <3>3, <4>1
      <4>3. AjMatches(i)' <=> AjMatches(i)  BY <1>3, <4>2, AjMatchStays
      <4>4. AjMatches(ajRun[s].id)' <=> AjMatches(i)'  BY Zenon, <1>3, <3>1 DEF AjMatches
      <4> QED  BY Zenon, <3>1, <4>3, <4>4
    <3> QED  BY <3>2, <3>3
  <2>2. \A s : s \in ajLate => s \in ajLate'  BY <1>4
  <2> QED  BY <1>3, <2>1, <2>2, AjHeededStays
<1>10. ASSUME NEW k \in AjJobs PROVE AjCountedOf(k)'
  <2>1. AjFlying(k)' = AjFlying(k)  BY <1>3 DEF AjFlying
  <2>2. Cardinality(AjFlying(k)) \in Nat
    BY AjAssumption, FS_Subset, FS_CardinalityType DEF AjFlying
  <2>3. /\ AjCountedOf(k) /\ ajFired[k] \in Nat /\ ajExcuse[k] \in Nat /\ ajNow \in Nat
        /\ ajExcuse'[k] \in Nat /\ ajExcuse'[k] >= ajExcuse[k]
    BY <1>5 DEF AjTyped
  <2>4. AjIsRead(k)' <=> AjIsRead(k)  BY <1>3 DEF AjIsRead
  <2>5. AjFree(k)' => AjFree(k) \/ ajExcuse'[k] >= ajExcuse[k] + 1
    <3>1. CASE ajRow'[k] = ajRow[k]  BY Zenon, <1>3, <2>4, <3>1 DEF AjFree
    <3>2. CASE ajRow'[k] # ajRow[k]
      <4>1. k = j /\ ajRow[j].there  BY <1>4, <1>5, <3>2
      <4>2. ajRow'[j] = row /\ row.next \in Nat /\ ajRow[j].next \in Nat
        BY <1>2, <1>4, <1>5, <3>2, <4>1 DEF AjTyped, AjRowOk
      <4>3. CASE row.next < ajRow[j].next
        <5>1. ajExcuse' = [ajExcuse EXCEPT ![j] = @ + 1]  BY <1>4, <3>2, <4>1, <4>3
        <5> QED  BY <1>2, <2>3, <4>1, <5>1 DEF AjTyped
      <4>4. CASE ~(row.next < ajRow[j].next)
        <5>1. ajRow'[k].next <= ajNow' => ajRow[k].next <= ajNow
          BY <1>3, <2>3, <4>1, <4>2, <4>4
        <5>2. ajRow[k].there  BY Zenon, <4>1
        <5> QED  BY Zenon, <2>4, <5>1, <5>2 DEF AjFree
      <4> QED  BY <4>3, <4>4
    <3> QED  BY <3>1, <3>2
  <2> QED  BY <1>3, <2>1, <2>2, <2>3, <2>5 DEF AjCountedOf
<1> QED  BY <1>6, <1>7, <1>8, <1>9, <1>10

(* A row is deleted: it is not read again, and who checked before is late. *)
LEMMA AjDeleteInv == ASSUME AjIInv, NEW j \in AjJobs, AjDelete(j) PROVE AjIInv'
<1> USE DEF AjIInv
<1>1. UNCHANGED <<ajNow, ajEdit, ajLoop, ajTasks, ajNext, ajPay, ajRun, ajLedger, ajFloor,
                  ajDone, ajFired, ajExcuse, ajWrong>>
      /\ ajLate' = ajLate \union AjChecked(j)
  BY DEF AjDelete, AjTable, AjClaims
<1>2. PICK b : b = FALSE  OBVIOUS
<1>3. ajRow' = [ajRow EXCEPT ![j].there = b]  BY Zenon, <1>2 DEF AjDelete
<1>4. /\ ajRow' = [k \in AjJobs |-> ajRow'[k]] /\ \A k \in AjJobs : AjRowOk(ajRow'[k])
      /\ \A k \in AjJobs \ {j} : ajRow'[k] = ajRow[k]
      /\ ajRow'[j].there = b
  BY SMTT(30), <1>3 DEF AjTyped, AjRowOk
<1>5. AjTyped'
  <2>1. (\A k \in AjJobs : AjRowOk(ajRow[k]))'  BY <1>4 DEF AjRowOk
  <2> QED  BY <1>1, <1>4, <2>1 DEF AjTyped, AjTaskOk, AjFiringsOk, AjStore!Ids, AjRowOk
<1>6. AjPlaced'  BY <1>1 DEF AjPlaced, AjStore!Ids
<1>7. AjOnce'  BY <1>1, AjOnceStays
<1>8. AjHeeded'
  <2>1. ASSUME NEW s \in AjSlots, ajRun[s].pc \in {"claim", "dispatch"}
        PROVE  s \in ajLate' \/ (AjMatches(ajRun[s].id) => AjMatches(ajRun[s].id)')
    <3>1. PICK i : i = ajRun[s].id  OBVIOUS
    <3>2. CASE ajTasks[i].job = j
      <4>1. s \in AjChecked(j)  BY <2>1, <3>1, <3>2 DEF AjChecked
      <4> QED  BY <1>1, <4>1
    <3>3. CASE ajTasks[i].job # j
      <4>1. ajTasks[i].job \in AjJobs  BY <2>1, <3>1 DEF AjPlaced, AjTyped, AjTaskOk
      <4>2. ajRow'[ajTasks[i].job] = ajRow[ajTasks[i].job]  BY <1>4, <3>3, <4>1
      <4>3. AjMatches(i)' <=> AjMatches(i)  BY <1>1, <4>2, AjMatchStays
      <4>4. AjMatches(ajRun[s].id)' <=> AjMatches(i)'  BY Zenon, <1>1, <3>1 DEF AjMatches
      <4> QED  BY Zenon, <3>1, <4>3, <4>4
    <3> QED  BY <3>2, <3>3
  <2> QED  BY <1>1, <2>1, AjHeededStays
<1>9. ASSUME NEW k \in AjJobs PROVE AjCountedOf(k)'
  <2>1. AjFlying(k)' = AjFlying(k)  BY <1>1 DEF AjFlying
  <2>2. AjFree(k)' => AjFree(k)
    <3>1. CASE k = j
      <4>1. ~ajRow'[k].there  BY Zenon, <1>2, <1>4, <3>1
      <4> QED  BY Zenon, <4>1 DEF AjFree
    <3>2. CASE k # j
      <4>1. ajRow'[k] = ajRow[k]  BY <1>4, <3>2
      <4>2. AjIsRead(k)' <=> AjIsRead(k)  BY <1>1 DEF AjIsRead
      <4> QED  BY Zenon, <1>1, <4>1, <4>2 DEF AjFree
    <3> QED  BY <3>1, <3>2
  <2>3. AjCountedOf(k)  OBVIOUS
  <2> QED  BY Zenon, <1>1, <2>1, <2>2, <2>3 DEF AjCountedOf
<1> QED  BY <1>5, <1>6, <1>7, <1>8, <1>9

(* A step of the loops and the rows leaves claims, tasks and goroutines.   *)
LEMMA AjLoopFrame ==
    ASSUME AjIInv,
           UNCHANGED <<ajNow, ajEdit, ajTasks, ajNext, ajPay, ajRun, ajLedger, ajFloor, ajDone,
                       ajFired, ajLate, ajWrong>>,
           ajRow' = [j \in AjJobs |-> ajRow'[j]],
           \A j \in AjJobs : /\ AjRowOk(ajRow'[j])
                             /\ ajRow'[j].there = ajRow[j].there /\ ajRow'[j].on = ajRow[j].on
                             /\ ajRow'[j].prompt = ajRow[j].prompt,
           ajLoop' = [a \in AjLoops |-> ajLoop'[a]], \A a \in AjLoops : AjFiringsOk(ajLoop'[a]),
           ajExcuse' \in [AjJobs -> Nat]
    PROVE  AjTyped' /\ AjPlaced' /\ AjOnce' /\ AjHeeded'
<1> USE DEF AjIInv
<1>1. AjTyped'
  <2>1. (\A k \in AjJobs : AjRowOk(ajRow[k]))'  BY DEF AjRowOk
  <2>2. (\A a \in AjLoops : AjFiringsOk(ajLoop[a]))'  BY DEF AjFiringsOk
  <2>3. (\/ ajEdit = AjNoEdit
         \/ AjRowOk(ajEdit.row) /\ ajEdit.job \in AjJobs)'  BY DEF AjTyped, AjRowOk
  <2>4. (\A i \in AjStore!Ids : AjTaskOk(ajTasks[i]))'  BY DEF AjTyped, AjTaskOk, AjStore!Ids
  <2> QED  BY <2>1, <2>2, <2>3, <2>4 DEF AjTyped, AjStore!Ids
<1>2. AjPlaced'  BY DEF AjPlaced, AjStore!Ids
<1>3. AjOnce'  BY AjOnceStays
<1>4. AjHeeded'
  <2>1. ASSUME NEW s \in AjSlots, ajRun[s].pc \in {"claim", "dispatch"}
        PROVE  AjMatches(ajRun[s].id) => AjMatches(ajRun[s].id)'
    <3>1. PICK i : i = ajRun[s].id  OBVIOUS
    <3>2. ajTasks[i].job \in AjJobs  BY <2>1, <3>1 DEF AjPlaced, AjTyped, AjTaskOk
    <3>3. AjMatches(i)' <=> AjMatches(i)  BY <3>2, AjMatchStays
    <3>4. AjMatches(ajRun[s].id)' <=> AjMatches(i)'  BY Zenon, <3>1 DEF AjMatches
    <3> QED  BY Zenon, <3>1, <3>3, <3>4
  <2> QED  BY <2>1, AjHeededStays
<1> QED  BY <1>1, <1>2, <1>3, <1>4

(* The numbers of a count.                                                 *)
LEMMA AjNumbers ==
    ASSUME AjTyped, NEW j \in AjJobs
    PROVE  /\ IsFiniteSet(AjFlying(j)) /\ Cardinality(AjFlying(j)) \in Nat
           /\ ajFired[j] \in Nat /\ ajExcuse[j] \in Nat /\ ajNow \in Nat
BY AjAssumption, FS_Subset, FS_CardinalityType DEF AjFlying, AjTyped

(* A loop reads the rows that are due: the right to a firing is used, or   *)
(* another loop has read the job as well.                                  *)
LEMMA AjReadInv == ASSUME AjIInv, NEW a \in AjLoops, AjRead(a) PROVE AjIInv'
<1> USE DEF AjIInv
<1>1. UNCHANGED <<ajRow, ajNow, ajEdit, ajTasks, ajNext, ajPay, ajRun, ajLedger, ajFloor,
                  ajDone, ajFired, ajLate, ajWrong>>
  BY DEF AjRead, AjRows, AjTable, AjClaims
<1>2. PICK due : due = {j \in AjJobs : AjDue(j)}  OBVIOUS
<1>3. PICK new : new = {<<j, ajRow[j].prompt>> : j \in due}  OBVIOUS
<1>4. /\ ajLoop' = [ajLoop EXCEPT ![a].due = new]
      /\ ajLoop[a].due = {} /\ ajLoop[a].made = {}
      /\ ajExcuse' = [j \in AjJobs |-> IF j \in due /\ AjIsRead(j) THEN ajExcuse[j] + 1
                                       ELSE ajExcuse[j]]
  BY <1>2, <1>3 DEF AjRead, AjIsRead
<1>5. /\ ajLoop'[a].due = new /\ ajLoop'[a].made = {}
      /\ ajLoop'[a] = [due |-> ajLoop'[a].due, made |-> ajLoop'[a].made]
      /\ \A b \in AjLoops \ {a} : ajLoop'[b] = ajLoop[b]
      /\ ajLoop' = [b \in AjLoops |-> ajLoop'[b]]
  BY <1>4 DEF AjTyped, AjFiringsOk
<1>6. /\ \A f \in new : f[1] \in due /\ f[1] \in AjJobs
      /\ \A f, g \in new : f[1] = g[1] => f = g
      /\ \A j \in due : \E f \in new : f[1] = j
  <2>1. PICK p : p = [j \in due |-> <<j, ajRow[j].prompt>>]  OBVIOUS
  <2>2. \A j \in due : p[j] \in new /\ p[j][1] = j  BY <1>3, <2>1
  <2>3. \A f \in new : \E j \in due : f = p[j]  BY <1>3, <2>1
  <2>4. due \subseteq AjJobs  BY <1>2
  <2> QED  BY <2>2, <2>3, <2>4
<1>7. \A b \in AjLoops : AjFiringsOk(ajLoop'[b])
  <2>1. AjFiringsOk(ajLoop'[a])  BY <1>5, <1>6 DEF AjFiringsOk
  <2> QED  BY <1>5, <2>1 DEF AjTyped
<1>8. ajExcuse' \in [AjJobs -> Nat]  BY <1>4 DEF AjTyped
<1>9. AjTyped' /\ AjPlaced' /\ AjOnce' /\ AjHeeded'
  BY <1>1, <1>5, <1>7, <1>8, AjLoopFrame DEF AjTyped
<1>10. ASSUME NEW j \in AjJobs PROVE AjCountedOf(j)'
  <2>1. CASE j \notin due
    <3>1. \A f \in new : f[1] # j  BY <1>6, <2>1
    <3>2. AjFlying(j)' = AjFlying(j)
      <4>1. \A b \in AjLoops : (\E f \in ajLoop'[b].due \union ajLoop'[b].made : f[1] = j) <=>
                               (\E f \in ajLoop[b].due \union ajLoop[b].made : f[1] = j)
        BY <1>4, <1>5, <3>1
      <4> QED  BY <4>1 DEF AjFlying
    <3>3. AjIsRead(j)' <=> AjIsRead(j)
      <4>1. \A b \in AjLoops : (\E f \in ajLoop'[b].due : f[1] = j) <=>
                               (\E f \in ajLoop[b].due : f[1] = j)
        BY <1>4, <1>5, <3>1
      <4> QED  BY <4>1 DEF AjIsRead
    <3>4. AjFree(j)' <=> AjFree(j)  BY Zenon, <1>1, <3>3 DEF AjFree
    <3>5. ajExcuse'[j] = ajExcuse[j]  BY <1>4, <2>1
    <3>6. AjCountedOf(j)  OBVIOUS
    <3> QED  BY <1>1, <3>2, <3>4, <3>5, <3>6 DEF AjCountedOf
  <2>2. CASE j \in due
    <3>1. AjIsRead(j)'  BY <1>5, <1>6, <2>2 DEF AjIsRead
    <3>2. ~AjFree(j)'  BY <3>1 DEF AjFree
    <3>3. AjFlying(j)' \subseteq AjFlying(j) \union {a}  BY <1>5 DEF AjFlying
    <3>4. Cardinality(AjFlying(j)') <= Cardinality(AjFlying(j)) + 1
          /\ Cardinality(AjFlying(j)') \in Nat
      BY <3>3, AjNumbers, CountMore
    <3>5. AjFree(j) \/ AjIsRead(j)
      BY Zenon, <1>2, <2>2 DEF AjDue, AjFree
    <3>6. ajExcuse'[j] = IF AjIsRead(j) THEN ajExcuse[j] + 1 ELSE ajExcuse[j]  BY <1>4, <2>2
    <3>7. AjCountedOf(j)  OBVIOUS
    <3> QED  BY <1>1, <3>2, <3>4, <3>5, <3>6, <3>7, AjNumbers DEF AjCountedOf
  <2> QED  BY <2>1, <2>2
<1> QED  BY <1>9, <1>10

(* A set of natural numbers has a least one.                               *)
LEMMA LeastOf ==
    ASSUME NEW N, N \subseteq Nat, N # {}
    PROVE  \E n \in N : \A m \in N : n <= m
<1>1. PICK R : R = {ss \in Nat \X Nat : ss[1] < ss[2]}  OBVIOUS
<1>2. R = OpToRel(<, Nat)  BY <1>1 DEF OpToRel
<1>3. IsWellFoundedOn(R, Nat)  BY <1>2, NatLessThanWellFounded
<1>4. PICK n \in N : \A m \in N : ~(<<m, n>> \in R)
  <2>1. \E x \in N : \A y \in N : ~(<<y, x>> \in R)  BY <1>3, WFMin
  <2> QED  BY <2>1
<1>5. \A m \in N : <<m, n>> \in R <=> m < n  BY <1>1
<1>6. ASSUME NEW m \in N PROVE n <= m
  <2>1. n \in Nat /\ m \in Nat /\ ~(m < n)  BY <1>4, <1>5
  <2> QED  BY <2>1
<1> QED  BY <1>6

(* The firing whose turn it is, is one: jobs have a least id.              *)
LEMMA AjFirstIn ==
    ASSUME NEW F, F # {}, \A f \in F : f[1] \in Nat
    PROVE  AjFirst(F) \in F
<1>1. PICK N : N = {f[1] : f \in F}  OBVIOUS
<1>2. N \subseteq Nat /\ N # {}  BY <1>1
<1>3. PICK n \in N : \A m \in N : n <= m  BY <1>2, LeastOf
<1>4. PICK f \in F : f[1] = n  BY <1>1
<1>5. \A g \in F : f[1] <= g[1]  BY <1>1, <1>3, <1>4
<1> QED  BY <1>4, <1>5 DEF AjFirst

(* A firing is advanced: the row is not due before the next period, or the *)
(* write failed and that is excused.                                       *)
LEMMA AjAdvanceInv == ASSUME AjIInv, NEW a \in AjLoops, AjAdvance(a) PROVE AjIInv'
<1> USE DEF AjIInv
<1>1. PICK f : f = AjFirst(ajLoop[a].due)  OBVIOUS
<1>2. PICK k : k = f[1]  OBVIOUS
<1>3. UNCHANGED <<ajNow, ajEdit, ajTasks, ajNext, ajPay, ajRun, ajLedger, ajFloor,
                  ajDone, ajFired, ajLate, ajWrong>>
  BY DEF AjAdvance, AjTable, AjClaims
<1>4. /\ ajLoop' = [ajLoop EXCEPT ![a] = [due |-> @.due \ {f}, made |-> @.made \union {f}]]
      /\ \/ /\ ajRow' = IF ajRow[k].there THEN [ajRow EXCEPT ![k].next = ajNow + 1] ELSE ajRow
            /\ ajExcuse' = ajExcuse
         \/ /\ ajRow' = ajRow
            /\ ajExcuse' = [ajExcuse EXCEPT ![k] = @ + 1]
  BY <1>1, <1>2 DEF AjAdvance, AjAdvanced
<1>5. f \in ajLoop[a].due /\ k \in AjJobs
  <2>1. ajLoop[a].due # {} /\ \A g \in ajLoop[a].due : g[1] \in AjJobs /\ g[1] \in Nat
    BY AjAssumption DEF AjAdvance, AjTyped, AjFiringsOk
  <2> QED  BY <1>1, <1>2, <2>1, AjFirstIn
<1>6. /\ ajLoop'[a] = [due |-> ajLoop'[a].due, made |-> ajLoop'[a].made]
      /\ ajLoop'[a].due = ajLoop[a].due \ {f}
      /\ ajLoop'[a].made = ajLoop[a].made \union {f}
      /\ \A b \in AjLoops \ {a} : ajLoop'[b] = ajLoop[b]
      /\ ajLoop' = [b \in AjLoops |-> ajLoop'[b]]
  BY <1>4 DEF AjTyped
<1>7. \A b \in AjLoops : AjFiringsOk(ajLoop'[b])
  <2>1. AjFiringsOk(ajLoop'[a])
    <3>1. ajLoop'[a].due \union ajLoop'[a].made = ajLoop[a].due \union ajLoop[a].made
      BY <1>5, <1>6
    <3>2. AjFiringsOk(ajLoop[a])  BY DEF AjTyped
    <3> QED  BY <1>6, <3>1, <3>2 DEF AjFiringsOk
  <2> QED  BY <1>6, <2>1 DEF AjTyped
<1>8. /\ ajRow' = [j \in AjJobs |-> ajRow'[j]]
      /\ \A j \in AjJobs : /\ AjRowOk(ajRow'[j])
                           /\ ajRow'[j].there = ajRow[j].there /\ ajRow'[j].on = ajRow[j].on
                           /\ ajRow'[j].prompt = ajRow[j].prompt
      /\ \A j \in AjJobs \ {k} : ajRow'[j] = ajRow[j]
      /\ ajRow'[k] = ajRow[k] \/ ajRow'[k].next = ajNow + 1
  <2>1. CASE ajRow' = ajRow  BY <2>1 DEF AjTyped
  <2>2. CASE ajRow' = [ajRow EXCEPT ![k].next = ajNow + 1]
    <3>1. ajNow + 1 \in Nat  BY DEF AjTyped
    <3>2. \A j \in AjJobs : AjRowOk(ajRow[j])  BY DEF AjTyped
    <3>3. PICK n : n = ajNow + 1  OBVIOUS
    <3>4. /\ ajRow'[k] = [ajRow[k] EXCEPT !.next = n]
          /\ \A j \in AjJobs \ {k} : ajRow'[j] = ajRow[j]
          /\ ajRow' = [j \in AjJobs |-> ajRow'[j]]
      BY <1>5, <2>2, <3>3 DEF AjTyped
    <3>5. /\ AjRowOk(ajRow'[k]) /\ ajRow'[k].next = n
          /\ ajRow'[k].there = ajRow[k].there /\ ajRow'[k].on = ajRow[k].on
          /\ ajRow'[k].prompt = ajRow[k].prompt
      BY <1>5, <3>1, <3>2, <3>3, <3>4 DEF AjRowOk
    <3> QED  BY <3>2, <3>3, <3>4, <3>5
  <2> QED  BY <1>4, <2>1, <2>2
<1>9. ajExcuse' \in [AjJobs -> Nat] /\ \A j \in AjJobs : ajExcuse'[j] >= ajExcuse[j]
  BY <1>4 DEF AjTyped
<1>10. AjTyped' /\ AjPlaced' /\ AjOnce' /\ AjHeeded'
  BY <1>3, <1>6, <1>7, <1>8, <1>9, AjLoopFrame
<1>11. ASSUME NEW j \in AjJobs PROVE AjCountedOf(j)'
  <2>1. AjFlying(j)' = AjFlying(j)
    <3>1. \A b \in AjLoops : ajLoop'[b].due \union ajLoop'[b].made
                             = ajLoop[b].due \union ajLoop[b].made
      BY <1>5, <1>6
    <3> QED  BY <3>1 DEF AjFlying
  <2>2. AjFree(j)' => AjFree(j) \/ ajExcuse'[j] >= ajExcuse[j] + 1
    <3>1. CASE j # k
      <4>1. AjIsRead(j)' <=> AjIsRead(j)
        <5>1. \A b \in AjLoops : (\E g \in ajLoop'[b].due : g[1] = j) <=>
                                 (\E g \in ajLoop[b].due : g[1] = j)
          BY <1>2, <1>6, <3>1
        <5> QED  BY <5>1 DEF AjIsRead
      <4>2. ajRow'[j] = ajRow[j]  BY <1>8, <3>1
      <4> QED  BY Zenon, <1>3, <4>1, <4>2 DEF AjFree
    <3>2. CASE j = k /\ ajExcuse' = [ajExcuse EXCEPT ![k] = @ + 1]
      BY <1>5, <3>2 DEF AjTyped
    <3>3. CASE j = k /\ ajRow' = IF ajRow[k].there THEN [ajRow EXCEPT ![k].next = ajNow + 1]
                                 ELSE ajRow
      <4>1. CASE ajRow[k].there
        <5>1. ajRow'[k].next = ajNow + 1 /\ ajNow \in Nat  BY <1>5, <3>3, <4>1 DEF AjTyped, AjRowOk
        <5>2. ~(ajRow'[j].next <= ajNow')  BY <1>3, <3>3, <5>1
        <5> QED  BY Zenon, <5>2 DEF AjFree
      <4>2. CASE ~ajRow[k].there
        <5>1. ~ajRow'[j].there  BY <3>3, <4>2
        <5> QED  BY Zenon, <5>1 DEF AjFree
      <4> QED  BY <4>1, <4>2
    <3> QED  BY <1>4, <3>1, <3>2, <3>3
  <2>3. AjCountedOf(j) /\ ajExcuse'[j] \in Nat /\ ajExcuse'[j] >= ajExcuse[j]  BY <1>9
  <2> QED  BY <1>3, <2>1, <2>2, <2>3, AjNumbers DEF AjCountedOf
<1> QED  BY <1>10, <1>11

(* A firing is inserted, or lost: the loop is rid of it.                   *)
LEMMA AjInsertInv == ASSUME AjIInv, NEW a \in AjLoops, AjInsert(a) PROVE AjIInv'
<1> USE DEF AjIInv
<1>1. PICK f : f = AjFirst(ajLoop[a].made)  OBVIOUS
<1>2. PICK k : k = f[1]  OBVIOUS
<1>3. UNCHANGED <<ajRow, ajNow, ajEdit, ajRun, ajLedger, ajFloor, ajDone, ajExcuse, ajLate,
                  ajWrong>>
  BY DEF AjInsert, AjRows, AjClaims
<1>4. ajLoop' = [ajLoop EXCEPT ![a].made = @ \ {f}] /\ ajLoop[a].due = {}
  BY <1>1 DEF AjInsert
<1>5. f \in ajLoop[a].made /\ k \in AjJobs
  <2>1. ajLoop[a].made # {} /\ \A g \in ajLoop[a].made : g[1] \in AjJobs /\ g[1] \in Nat
    BY AjAssumption DEF AjInsert, AjTyped, AjFiringsOk
  <2> QED  BY <1>1, <1>2, <2>1, AjFirstIn
<1>6. PICK u : u = AjStore!NewRow(k, 0)  OBVIOUS
<1>7. AjTaskOk(u)
  <2>1. PICK no : no = FALSE  OBVIOUS
  <2>2. PICK yes : yes = TRUE  OBVIOUS
  <2>3. PICK keyed : keyed = (k \in AjJobs)  OBVIOUS
  <2>4. u = [[status |-> "absent", job |-> CHOOSE j \in AjJobs : TRUE, keyed |-> no,
              worker |-> "none", attempts |-> 0, prio |-> 0, due |-> no, lease |-> "none",
              old |-> no] EXCEPT !.status = "pending", !.job = k, !.keyed = keyed,
                                 !.prio = 0, !.due = yes]
    BY Zenon, <1>6, <2>1, <2>2, <2>3 DEF AjStore!NewRow, AjStore!NoRow
  <2> QED  BY <1>5, <2>4 DEF AjTaskOk
<1>8. \/ /\ ajNext \in AjStore!Ids /\ ajNext' = ajNext + 1
         /\ ajTasks' = [ajTasks EXCEPT ![ajNext] = u]
         /\ ajPay' = [ajPay EXCEPT ![ajNext] = f[2]]
         /\ ajFired' = [ajFired EXCEPT ![k] = @ + 1]
      \/ UNCHANGED <<ajNext, ajTasks, ajPay, ajFired>>
  <2>1. CASE UNCHANGED <<ajTasks, ajNext>>
    <3>1. ajNext' = ajNext  BY <2>1
    <3>2. UNCHANGED <<ajPay, ajFired>>  BY <3>1 DEF AjInsert, AjTable
    <3> QED  BY <2>1, <3>2
  <2>2. CASE ~UNCHANGED <<ajTasks, ajNext>>
    <3>0. ~(AjEvent /\ UNCHANGED <<AjTable, ajFired>>)  BY <2>2 DEF AjTable
    <3>1. /\ AjStore!InsertTask(k, 0)
          /\ ajPay' = IF ajNext' = ajNext THEN ajPay ELSE [ajPay EXCEPT ![ajNext] = f[2]]
          /\ ajFired' = IF ajNext' = ajNext THEN ajFired ELSE [ajFired EXCEPT ![k] = @ + 1]
      BY <1>1, <1>2, <2>2, <3>0 DEF AjInsert
    <3>2. ajNext \in AjStore!Ids /\ ajTasks' = [ajTasks EXCEPT ![ajNext] = u]
          /\ ajNext' = ajNext + 1
      BY Zenon, <1>6, <2>2, <3>1 DEF AjStore!InsertTask, AjStore!Insertable
    <3>3. ajNext' # ajNext  BY <3>2 DEF AjTyped
    <3>4. ajPay' = [ajPay EXCEPT ![ajNext] = f[2]]  BY <3>1, <3>3
    <3>5. ajFired' = [ajFired EXCEPT ![k] = @ + 1]  BY <3>1, <3>3
    <3> QED  BY Zenon, <3>2, <3>4, <3>5
  <2> QED  BY <2>1, <2>2
<1>9. /\ ajLoop'[a] = [due |-> ajLoop'[a].due, made |-> ajLoop'[a].made]
      /\ ajLoop'[a].due = {} /\ ajLoop'[a].made = ajLoop[a].made \ {f}
      /\ \A b \in AjLoops \ {a} : ajLoop'[b] = ajLoop[b]
      /\ ajLoop' = [b \in AjLoops |-> ajLoop'[b]]
  <2>1. PICK l : l = ajLoop[a]  OBVIOUS
  <2>2. l = [due |-> l.due, made |-> l.made]  BY <2>1 DEF AjTyped, AjFiringsOk
  <2>3. ajLoop = [b \in AjLoops |-> ajLoop[b]]  BY DEF AjTyped
  <2>4. ajLoop'[a] = [l EXCEPT !.made = l.made \ {f}]  BY <1>4, <2>1, <2>3
  <2>5. /\ \A b \in AjLoops \ {a} : ajLoop'[b] = ajLoop[b]
        /\ ajLoop' = [b \in AjLoops |-> ajLoop'[b]]
    BY <1>4, <2>3
  <2> QED  BY <1>4, <2>1, <2>2, <2>4, <2>5
<1>10. \A i \in AjStore!Ids : i < ajNext => ajTasks'[i] = ajTasks[i] /\ ajPay'[i] = ajPay[i]
  <2>1. ASSUME NEW i \in AjStore!Ids, i < ajNext
        PROVE  ajTasks'[i] = ajTasks[i] /\ ajPay'[i] = ajPay[i]
    <3>1. i # ajNext  BY <2>1 DEF AjTyped, AjStore!Ids
    <3>2. ajTasks = [n \in AjStore!Ids |-> ajTasks[n]] /\ ajPay = [n \in AjStore!Ids |-> ajPay[n]]
      BY DEF AjTyped
    <3> QED  BY <1>8, <3>1, <3>2
  <2> QED  BY <2>1
<1>11. AjTyped'
  <2>1. (\A b \in AjLoops : AjFiringsOk(ajLoop[b]))'
    <3>1. AjFiringsOk(ajLoop[a]) /\ \A b \in AjLoops \ {a} : AjFiringsOk(ajLoop[b])
      BY DEF AjTyped
    <3>2. AjFiringsOk(ajLoop'[a])  BY <1>9, <3>1 DEF AjFiringsOk
    <3>3. \A b \in AjLoops : AjFiringsOk(ajLoop'[b])  BY <1>9, <3>1, <3>2
    <3> QED  BY <3>3 DEF AjFiringsOk
  <2>2. \A i \in AjStore!Ids : AjTaskOk(ajTasks'[i])
    BY <1>7, <1>8 DEF AjTyped
  <2>3. (\A i \in AjStore!Ids : AjTaskOk(ajTasks[i]))'  BY <2>2 DEF AjTaskOk, AjStore!Ids
  <2>4. ajFired' \in [AjJobs -> Nat]  BY <1>5, <1>8 DEF AjTyped
  <2>5. ajNext' \in Nat \ {0}  BY <1>8 DEF AjTyped
  <2>6. ajTasks' = [i \in AjStore!Ids |-> ajTasks'[i]] /\ ajPay' = [i \in AjStore!Ids |-> ajPay'[i]]
    BY <1>8 DEF AjTyped
  <2>7. (\/ ajEdit = AjNoEdit
         \/ AjRowOk(ajEdit.row) /\ ajEdit.job \in AjJobs)'  BY <1>3 DEF AjTyped, AjRowOk
  <2>8. (\A j \in AjJobs : AjRowOk(ajRow[j]))'  BY <1>3 DEF AjTyped, AjRowOk
  <2> QED  BY <1>3, <1>9, <2>1, <2>3, <2>4, <2>5, <2>6, <2>7, <2>8 DEF AjTyped, AjStore!Ids
<1>12. AjPlaced'
  <2>1. ASSUME NEW i \in AjStore!Ids, i >= ajNext' PROVE ajTasks'[i].status = "absent"
    <3>1. i >= ajNext /\ (i # ajNext \/ UNCHANGED ajTasks)
      BY <1>8, <2>1 DEF AjTyped, AjStore!Ids
    <3>2. ajTasks = [n \in AjStore!Ids |-> ajTasks[n]]  BY DEF AjTyped
    <3>3. ajTasks'[i] = ajTasks[i]  BY <1>8, <3>1, <3>2
    <3> QED  BY <3>1, <3>3 DEF AjPlaced
  <2>2. \A i : i < ajNext /\ i \in AjStore!Ids => i < ajNext'
    BY <1>8 DEF AjTyped, AjStore!Ids
  <2> QED  BY <1>3, <2>1, <2>2 DEF AjPlaced, AjStore!Ids
<1>13. AjOnce'  BY <1>3, AjOnceStays
<1>14. AjHeeded'
  <2>1. ASSUME NEW s \in AjSlots, ajRun[s].pc \in {"claim", "dispatch"}
        PROVE  AjMatches(ajRun[s].id) => AjMatches(ajRun[s].id)'
    <3>1. PICK i : i = ajRun[s].id  OBVIOUS
    <3>2. i \in AjStore!Ids /\ i < ajNext  BY <2>1, <3>1 DEF AjPlaced
    <3>3. ajTasks'[i] = ajTasks[i] /\ ajPay'[i] = ajPay[i]  BY <1>10, <3>2
    <3>4. AjMatches(i)' <=> AjMatches(i)  BY <1>3, <3>3, AjMatchStays
    <3>5. AjMatches(ajRun[s].id)' <=> AjMatches(i)'  BY Zenon, <1>3, <3>1 DEF AjMatches
    <3> QED  BY Zenon, <3>1, <3>4, <3>5
  <2> QED  BY <1>3, <2>1, AjHeededStays
<1>15. ASSUME NEW j \in AjJobs PROVE AjCountedOf(j)'
  <2>1. AjFlying(j)' \subseteq AjFlying(j)
    <3>1. \A b \in AjLoops : ajLoop'[b].due \union ajLoop'[b].made
                             \subseteq ajLoop[b].due \union ajLoop[b].made
      BY <1>9, <1>4
    <3> QED  BY <3>1 DEF AjFlying
  <2>2. AjIsRead(j)' <=> AjIsRead(j)
    <3>1. \A b \in AjLoops : ajLoop'[b].due = ajLoop[b].due  BY <1>4, <1>9
    <3> QED  BY <3>1 DEF AjIsRead
  <2>3. AjFree(j)' <=> AjFree(j)  BY Zenon, <1>3, <2>2 DEF AjFree
  <2>4. AjCountedOf(j)  OBVIOUS
  <2>5. Cardinality(AjFlying(j)') \in Nat /\ Cardinality(AjFlying(j)') <= Cardinality(AjFlying(j))
    BY <2>1, AjNumbers, CountNoMore
  <2>6. CASE ajFired'[j] = ajFired[j]
    BY <1>3, <2>3, <2>4, <2>5, <2>6, AjNumbers DEF AjCountedOf
  <2>7. CASE ajFired'[j] # ajFired[j]
    <3>1. j = k /\ ajFired'[j] = ajFired[j] + 1  BY <1>5, <1>8, <2>7 DEF AjTyped
    <3>2. a \in AjFlying(j)  BY <1>2, <1>5, <3>1 DEF AjFlying
    <3>3. a \notin AjFlying(j)'
      <4>1. \A g \in ajLoop'[a].due \union ajLoop'[a].made : g[1] # k
        <5>1. AjFiringsOk(ajLoop[a])  BY DEF AjTyped
        <5> QED  BY <1>2, <1>4, <1>5, <1>9, <5>1 DEF AjFiringsOk
      <4> QED  BY <3>1, <4>1 DEF AjFlying
    <3>4. Cardinality(AjFlying(j)') + 1 <= Cardinality(AjFlying(j))
      <4>1. AjFlying(j)' \subseteq AjFlying(j) \ {a}  BY <2>1, <3>3
      <4> QED  BY <3>2, <4>1, AjNumbers, CountLess
    <3> QED  BY <1>3, <2>3, <2>4, <2>5, <3>1, <3>4, AjNumbers DEF AjCountedOf
  <2> QED  BY <2>6, <2>7
<1> QED  BY <1>11, <1>12, <1>13, <1>14, <1>15

(* The ledger has an entry with as many above it as a pruning keeps.       *)
LEMMA AjCutoffIn ==
    ASSUME ajLedger \subseteq AjStore!Ids, AjFull
    PROVE  AjCutoff \in ajLedger
<1> DEFINE Above(c) == {d \in ajLedger : d > c}
<1>1. ajLedger \subseteq Nat /\ IsFiniteSet(ajLedger)
  <2>1. IsFiniteSet(AjStore!Ids) /\ AjStore!Ids \subseteq Nat
    BY AjAssumption, FS_Interval DEF AjStore!Ids
  <2> QED  BY <2>1, FS_Subset
<1>2. \A c : IsFiniteSet(Above(c)) /\ Cardinality(Above(c)) \in Nat
  <2>1. ASSUME NEW c PROVE IsFiniteSet(Above(c)) /\ Cardinality(Above(c)) \in Nat
    <3>1. Above(c) \subseteq ajLedger  OBVIOUS
    <3> QED  BY <1>1, <3>1, FS_Subset, FS_CardinalityType
  <2> QED  BY <2>1
<1>3. PICK M : M = {Cardinality(Above(c)) : c \in {d \in ajLedger : Cardinality(Above(d)) >= AjLedgerKeep}}
  OBVIOUS
<1>4. M \subseteq Nat  BY <1>2, <1>3
<1>5. M # {}
  <2>1. ajLedger # {}
    <3>1. Cardinality({}) = 0  BY FS_EmptySet
    <3>2. Cardinality(ajLedger) > 0  BY <1>1, AjAssumption, FS_CardinalityType DEF AjFull
    <3> QED  BY <3>1, <3>2
  <2>2. PICK c \in ajLedger : \A d \in ajLedger : c <= d  BY <1>1, <2>1, LeastOf
  <2>3. Above(c) = ajLedger \ {c}
    <3>1. ASSUME NEW d \in ajLedger PROVE d > c <=> d # c
      <4>1. c \in Nat /\ d \in Nat /\ c <= d  BY <1>1, <2>2
      <4> QED  BY <4>1
    <3> QED  BY <3>1
  <2>4. Cardinality(Above(c)) = Cardinality(ajLedger) - 1 /\ Cardinality(ajLedger) \in Nat
    BY <1>1, <2>2, <2>3, FS_RemoveElement, FS_CardinalityType
  <2>5. Cardinality(Above(c)) >= AjLedgerKeep  BY <2>4, AjAssumption DEF AjFull
  <2> HIDE DEF Above
  <2> QED  BY <1>3, <2>2, <2>5
<1>6. PICK k \in M : \A m \in M : k <= m  BY <1>4, <1>5, LeastOf
<1>7. PICK c \in ajLedger : k = Cardinality(Above(c)) /\ k >= AjLedgerKeep
  <2> HIDE DEF Above
  <2> QED  BY <1>3
<1>8. k = AjLedgerKeep
  <2>1. SUFFICES ASSUME k > AjLedgerKeep PROVE FALSE
    BY <1>4, <1>7, AjAssumption
  <2>2. Above(c) # {}
    <3> HIDE DEF Above
    <3> QED  BY <1>4, <1>7, <2>1, AjAssumption, FS_EmptySet
  <2>3. Above(c) \subseteq Nat  BY <1>1
  <2>4. PICK d \in Above(c) : \A e \in Above(c) : d <= e
    <3> HIDE DEF Above
    <3> QED  BY <2>2, <2>3, LeastOf
  <2>5. d \in ajLedger /\ Above(d) = Above(c) \ {d}
    <3>1. d \in ajLedger /\ d > c /\ c \in Nat /\ d \in Nat  BY <1>1, <2>4
    <3>2. ASSUME NEW e \in ajLedger PROVE e > d <=> e > c /\ e # d
      <4>1. e \in Nat  BY <1>1
      <4>2. e > c => d <= e  BY <2>4
      <4> QED  BY <3>1, <4>1, <4>2
    <3> QED  BY <3>1, <3>2
  <2>6. Cardinality(Above(d)) = k - 1
    <3> HIDE DEF Above
    <3> QED  BY <1>2, <1>7, <2>4, <2>5, FS_RemoveElement
  <2> HIDE DEF Above
  <2>7. k - 1 >= AjLedgerKeep  BY <1>4, <2>1, AjAssumption
  <2>8. k - 1 \in M  BY <1>3, <2>5, <2>6, <2>7
  <2> QED  BY <1>4, <1>6, <2>8
<1> QED  BY <1>7, <1>8 DEF AjCutoff

(* The floor only rises, and what was claimed stays so in a pruned ledger. *)
LEMMA AjRaisedOk ==
    ASSUME ajLedger \subseteq AjStore!Ids, ajFloor \in Nat
    PROVE  /\ AjRaised \in Nat /\ AjRaised >= ajFloor
           /\ AjPruned \subseteq AjStore!Ids
           /\ \A i \in AjStore!Ids : AjClaimed(i) => i <= AjRaised \/ i \in AjPruned
<1>1. CASE ~AjFull
  <2>1. AjRaised = ajFloor /\ AjPruned = ajLedger  BY Zenon, <1>1 DEF AjRaised, AjPruned
  <2> QED  BY <2>1 DEF AjClaimed
<1>2. CASE AjFull
  <2>1. AjCutoff \in Nat
    <3>1. AjCutoff \in AjStore!Ids  BY <1>2, AjCutoffIn
    <3> QED  BY <3>1, AjAssumption DEF AjStore!Ids
  <2>2. PICK c : c = AjCutoff  OBVIOUS
  <2>3. AjRaised = Max({ajFloor, c})  BY Zenon, <1>2, <2>2 DEF AjRaised
  <2>4. PICK m : m = Max({ajFloor, c})  OBVIOUS
  <2>5. m \in {ajFloor, c} /\ \A y \in {ajFloor, c} : m >= y
    <3>1. \E x \in {ajFloor, c} : \A y \in {ajFloor, c} : x >= y  BY <2>1, <2>2
    <3>2. m = CHOOSE x \in {ajFloor, c} : \A y \in {ajFloor, c} : x >= y  BY Zenon, <2>4 DEF Max
    <3> QED  BY <3>1, <3>2
  <2>6. m \in Nat /\ m >= ajFloor /\ AjRaised = m  BY <2>1, <2>2, <2>3, <2>4, <2>5
  <2>7. AjPruned = {i \in ajLedger : i > m}  BY Zenon, <1>2, <2>6 DEF AjPruned
  <2>8. ASSUME NEW i \in AjStore!Ids, AjClaimed(i) PROVE i <= m \/ i \in AjPruned
    <3>1. i \in Nat  BY AjAssumption DEF AjStore!Ids
    <3> QED  BY <2>6, <2>7, <2>8, <3>1 DEF AjClaimed
  <2>9. AjPruned \subseteq AjStore!Ids  BY <2>7
  <2> QED  BY <2>6, <2>8, <2>9
<1> QED  BY <1>1, <1>2

(* A step of the worker leaves rows, loops and counts.                     *)
LEMMA AjWorkFrame ==
    ASSUME AjIInv,
           UNCHANGED <<ajRow, ajNow, ajEdit, ajLoop, ajNext, ajPay, ajFired, ajExcuse>>,
           ajTasks' = [i \in AjStore!Ids |-> ajTasks'[i]],
           \A i \in AjStore!Ids :
              /\ AjTaskOk(ajTasks'[i])
              /\ ajTasks[i].status = "absent" => ajTasks'[i].status = "absent",
           ajRun' \in [AjSlots -> [id : Nat, pc : AjPcs]],
           \A s \in AjSlots : IF ajRun'[s].pc = "idle" THEN ajRun'[s].id = 0
                              ELSE ajRun'[s].id \in AjStore!Ids /\ ajRun'[s].id < ajNext,
           ajLedger' \subseteq AjStore!Ids, ajFloor' \in Nat,
           ajDone' \in [AjStore!Ids -> Nat]
    PROVE  AjTyped' /\ AjPlaced' /\ \A j \in AjJobs : AjCountedOf(j)'
<1> USE DEF AjIInv
<1>1. AjTyped'
  <2>1. (\A i \in AjStore!Ids : AjTaskOk(ajTasks[i]))'  BY DEF AjTaskOk, AjStore!Ids
  <2>2. (\/ ajEdit = AjNoEdit
         \/ AjRowOk(ajEdit.row) /\ ajEdit.job \in AjJobs)'  BY DEF AjTyped, AjRowOk
  <2>3. (\A j \in AjJobs : AjRowOk(ajRow[j]))'  BY DEF AjTyped, AjRowOk
  <2>4. (\A a \in AjLoops : AjFiringsOk(ajLoop[a]))'  BY DEF AjTyped, AjFiringsOk
  <2> QED  BY <2>1, <2>2, <2>3, <2>4 DEF AjTyped, AjStore!Ids
<1>2. AjPlaced'  BY DEF AjPlaced, AjStore!Ids
<1>3. ASSUME NEW j \in AjJobs PROVE AjCountedOf(j)'  BY AjCountsStay
<1> QED  BY <1>1, <1>2, <1>3

(* A goroutine that goes on.                                               *)
LEMMA AjGoesOn ==
    ASSUME AjTyped, AjPlaced, NEW s \in AjSlots, ajRun[s].pc # "idle",
           NEW pc \in AjPcs \ {"idle"}, AjGoes(s, pc)
    PROVE  /\ ajRun' \in [AjSlots -> [id : Nat, pc : AjPcs]]
           /\ \A t \in AjSlots : IF ajRun'[t].pc = "idle" THEN ajRun'[t].id = 0
                                 ELSE ajRun'[t].id \in AjStore!Ids /\ ajRun'[t].id < ajNext
           /\ ajRun'[s].pc = pc /\ ajRun'[s].id = ajRun[s].id
           /\ \A t \in AjSlots \ {s} : ajRun'[t] = ajRun[t]
BY DEF AjTyped, AjPlaced, AjGoes

(* The rows that the statements of the task table write.                   *)
LEMMA AjTaskRows ==
    ASSUME NEW t, AjTaskOk(t)
    PROVE  /\ LET u == AjStore!StartedRow(AjStore!ClaimedRow(t, "worker")) IN
              AjTaskOk(u) /\ u.job = t.job
           /\ LET u == AjStore!CompletedRow(t) IN
              AjTaskOk(u) /\ u.job = t.job /\ (t.status = "absent" => u = t)
           /\ LET u == AjStore!ReclaimedRow(AjStore!StaleRow(t)) IN
              AjTaskOk(u) /\ u.job = t.job
<1> USE DEF AjTaskOk
<1>1. LET u == AjStore!StartedRow(AjStore!ClaimedRow(t, "worker")) IN
      AjTaskOk(u) /\ u.job = t.job
  <2>1. PICK v : v = AjStore!ClaimedRow(t, "worker")  OBVIOUS
  <2>2. AjTaskOk(v) /\ v.job = t.job  BY <2>1 DEF AjStore!ClaimedRow
  <2>3. PICK u : u = [v EXCEPT !.status = "running", !.attempts = v.attempts + 1]  OBVIOUS
  <2>4. AjTaskOk(u) /\ u.job = t.job  BY <2>2, <2>3
  <2>5. u = AjStore!StartedRow(AjStore!ClaimedRow(t, "worker"))
    BY <2>1, <2>3 DEF AjStore!StartedRow
  <2> QED  BY <2>4, <2>5
<1>2. LET u == AjStore!CompletedRow(t) IN
      AjTaskOk(u) /\ u.job = t.job /\ (t.status = "absent" => u = t)
  BY DEF AjStore!CompletedRow
<1>3. LET u == AjStore!ReclaimedRow(AjStore!StaleRow(t)) IN AjTaskOk(u) /\ u.job = t.job
  <2>1. PICK v : v = AjStore!StaleRow(t)  OBVIOUS
  <2>2. AjTaskOk(v) /\ v.job = t.job  BY <2>1 DEF AjStore!StaleRow
  <2> QED  BY <2>1, <2>2 DEF AjStore!ReclaimedRow
<1> QED  BY <1>1, <1>2, <1>3

(* A failed attempt keeps the task with its job.                           *)
LEMMA AjFailedRow ==
    ASSUME NEW t, AjTaskOk(t), NEW m, NEW b, NEW u, u = AjStore!FailedRow(t, m, b)
    PROVE  AjTaskOk(u) /\ u.job = t.job /\ (t.status = "absent" => u = t)
BY DEF AjTaskOk, AjStore!FailedRow

(* A goroutine claims a due task, and will run its handler.                *)
LEMMA AjClaimInv ==
    ASSUME AjIInv, NEW s \in AjSlots, NEW i \in AjStore!Ids, AjClaim(s, i) PROVE AjIInv'
<1> USE DEF AjIInv
<1>1. UNCHANGED <<ajRow, ajNow, ajEdit, ajLoop, ajNext, ajPay, ajLedger, ajFloor, ajDone,
                  ajFired, ajExcuse, ajLate, ajWrong>>
      /\ ajRun' = [ajRun EXCEPT ![s] = [id |-> i, pc |-> "handle"]]
  BY DEF AjClaim, AjRows, AjClaims, AjRecords
<1>2. PICK u : u = AjStore!StartedRow(AjStore!ClaimedRow(ajTasks[i], "worker"))  OBVIOUS
<1>3. ajTasks' = [ajTasks EXCEPT ![i] = u]  BY <1>2 DEF AjClaim
<1>4. AjTaskOk(u) /\ u.job = ajTasks[i].job  BY <1>2, AjTaskRows DEF AjTyped
<1>5. ajTasks[i].status = "pending"  BY DEF AjClaim, AjStore!DuePending
<1>6. i \in Nat /\ i < ajNext
  <2>1. i \in Nat /\ ajNext \in Nat  BY AjAssumption DEF AjStore!Ids, AjTyped
  <2> QED  BY <1>5, <2>1 DEF AjPlaced
<1>7. /\ ajTasks' = [k \in AjStore!Ids |-> ajTasks'[k]]
      /\ \A k \in AjStore!Ids : /\ AjTaskOk(ajTasks'[k]) /\ ajTasks'[k].job = ajTasks[k].job
                                /\ ajTasks[k].status = "absent" => ajTasks'[k].status = "absent"
  BY <1>3, <1>4, <1>5 DEF AjTyped
<1>8. /\ ajRun' \in [AjSlots -> [id : Nat, pc : AjPcs]]
      /\ ajRun'[s].pc = "handle" /\ ajRun'[s].id = i
      /\ \A t \in AjSlots \ {s} : ajRun'[t] = ajRun[t]
  BY <1>1, <1>6 DEF AjTyped, AjPcs
<1>9. \A t \in AjSlots : IF ajRun'[t].pc = "idle" THEN ajRun'[t].id = 0
                         ELSE ajRun'[t].id \in AjStore!Ids /\ ajRun'[t].id < ajNext
  BY <1>6, <1>8 DEF AjPlaced
<1>10. AjTyped' /\ AjPlaced' /\ \A j \in AjJobs : AjCountedOf(j)'
  <2>1. ajLedger' \subseteq AjStore!Ids /\ ajFloor' \in Nat /\ ajDone' \in [AjStore!Ids -> Nat]
    BY <1>1 DEF AjTyped
  <2> QED  BY <1>1, <1>7, <1>8, <1>9, <2>1, AjWorkFrame
<1>11. AjOnce'  BY <1>1, <1>8, AjOnceStays
<1>12. AjHeeded'
  <2>1. \A t \in AjSlots : ajRun[t].pc \in {"claim", "dispatch"} => ajRun[t].id \in AjStore!Ids
    BY DEF AjPlaced
  <2> QED  BY <1>1, <1>7, <1>8, <2>1, AjHeededFrame
<1> QED  BY <1>10, <1>11, <1>12

(* A step of a goroutine that leaves the ledger and the history.           *)
LEMMA AjGoesInv ==
    ASSUME AjIInv, NEW s \in AjSlots, ajRun[s].pc # "idle",
           NEW pc \in AjPcs \ {"idle", "dispatch"}, AjGoes(s, pc),
           UNCHANGED <<ajRow, ajNow, ajEdit, ajLoop, ajTasks, ajNext, ajPay, ajLedger, ajFloor,
                       ajFired, ajExcuse, ajLate, ajWrong, ajDone>>,
           pc = "claim" => AjMatches(ajRun[s].id)
    PROVE  AjIInv'
<1> USE DEF AjIInv
<1>1. /\ ajRun' \in [AjSlots -> [id : Nat, pc : AjPcs]]
      /\ \A t \in AjSlots : IF ajRun'[t].pc = "idle" THEN ajRun'[t].id = 0
                            ELSE ajRun'[t].id \in AjStore!Ids /\ ajRun'[t].id < ajNext
      /\ ajRun'[s].pc = pc /\ ajRun'[s].id = ajRun[s].id
      /\ \A t \in AjSlots \ {s} : ajRun'[t] = ajRun[t]
  BY AjGoesOn
<1>2. AjTyped' /\ AjPlaced' /\ \A j \in AjJobs : AjCountedOf(j)'
  <2>1. /\ ajTasks' = [k \in AjStore!Ids |-> ajTasks'[k]]
        /\ \A k \in AjStore!Ids : AjTaskOk(ajTasks'[k])
        /\ ajLedger' \subseteq AjStore!Ids /\ ajFloor' \in Nat /\ ajDone' \in [AjStore!Ids -> Nat]
    BY DEF AjTyped
  <2> QED  BY <1>1, <2>1, AjWorkFrame
<1>3. AjOnce'  BY <1>1, AjOnceStays
<1>4. AjHeeded'
  <2>1. ASSUME NEW t \in AjSlots, ajRun'[t].pc \in {"claim", "dispatch"}
        PROVE  (AjMatches(ajRun[t].id) \/ t \in ajLate)'
    <3>1. PICK i : i = ajRun[t].id  OBVIOUS
    <3>2. ajRun'[t].id = i  BY <1>1, <3>1
    <3>3. AjMatches(i)' <=> AjMatches(i)  BY Zenon DEF AjMatches
    <3>4. AjMatches(i) \/ t \in ajLate
      <4>1. CASE t = s  BY <1>1, <2>1, <3>1, <4>1
      <4>2. CASE t # s
        <5>1. ajRun[t].pc \in {"claim", "dispatch"}  BY <1>1, <2>1, <4>2
        <5> QED  BY <3>1, <5>1 DEF AjHeeded
      <4> QED  BY <4>1, <4>2
    <3>5. AjMatches(ajRun[t].id)' <=> AjMatches(i)'  BY Zenon, <3>2 DEF AjMatches
    <3> QED  BY Zenon, <3>3, <3>4, <3>5
  <2> QED  BY <2>1 DEF AjHeeded
<1> QED  BY <1>2, <1>3, <1>4

(* The handler: a loop that ends, and a runbook whose row is looked at.    *)
LEMMA AjHandleInv ==
    ASSUME AjIInv, NEW s \in AjSlots, AjLoopRun(s) \/ AjCheck(s) PROVE AjIInv'
<1>1. UNCHANGED <<ajRow, ajNow, ajEdit, ajLoop, ajTasks, ajNext, ajPay, ajLedger, ajFloor,
                  ajFired, ajExcuse, ajLate, ajWrong, ajDone>>
      /\ ajRun[s].pc = "handle"
  BY DEF AjLoopRun, AjCheck, AjRows, AjTable, AjClaims, AjRecords
<1>2. PICK pc : /\ AjGoes(s, pc) /\ pc \in {"claim", "complete", "fail"}
                /\ pc = "claim" => AjMatches(ajRun[s].id)
  <2>1. CASE AjLoopRun(s)
    <3>1. AjGoes(s, "complete") \/ AjGoes(s, "fail")  BY <2>1 DEF AjLoopRun
    <3> QED  BY <3>1
  <2>2. CASE AjCheck(s)
    <3>1. PICK pc \in AjMayGo(s) : AjGoes(s, pc)  BY <2>2 DEF AjCheck
    <3> QED  BY <3>1 DEF AjMayGo
  <2> QED  BY <2>1, <2>2
<1>3. pc \in AjPcs \ {"idle", "dispatch"} /\ ajRun[s].pc # "idle"  BY <1>1, <1>2 DEF AjPcs
<1> QED  BY <1>1, <1>2, <1>3, AjGoesInv

(* The claim of a firing: what was claimed stays claimed, and who comes to *)
(* the dispatch is the first.                                              *)
LEMMA AjEnterInv == ASSUME AjIInv, NEW s \in AjSlots, AjEnter(s) PROVE AjIInv'
<1>1. UNCHANGED <<ajRow, ajNow, ajEdit, ajLoop, ajTasks, ajNext, ajPay,
                  ajFired, ajExcuse, ajLate, ajWrong, ajDone>>
      /\ ajRun[s].pc = "claim"
  BY DEF AjEnter, AjRows, AjTable, AjRecords
<1>2. PICK i : i = ajRun[s].id  OBVIOUS
<1>3. \/ AjGoes(s, "complete") /\ UNCHANGED <<ajLedger, ajFloor>>
      \/ /\ ~AjClaimed(i) /\ ajFloor' = AjRaised
         /\ \/ ajLedger' = AjPruned /\ AjGoes(s, "complete")
            \/ ajLedger' = AjPruned \union {i} /\ AjGoes(s, "dispatch")
  BY <1>2 DEF AjEnter, AjClaims
<1>4. CASE AjGoes(s, "complete") /\ UNCHANGED <<ajLedger, ajFloor>>
  <2>1. "complete" \in AjPcs \ {"idle", "dispatch"} /\ "complete" # "claim"  BY DEF AjPcs
  <2> QED  BY <1>1, <1>4, <2>1, AjGoesInv
<1>5. CASE /\ ~AjClaimed(i) /\ ajFloor' = AjRaised
           /\ \/ ajLedger' = AjPruned /\ AjGoes(s, "complete")
              \/ ajLedger' = AjPruned \union {i} /\ AjGoes(s, "dispatch")
  <2> USE DEF AjIInv
  <2>1. PICK pc \in {"complete", "dispatch"} :
           /\ AjGoes(s, pc)
           /\ ajLedger' = AjPruned \/ ajLedger' = AjPruned \union {i}
           /\ pc = "dispatch" => i \in ajLedger'
    BY <1>5
  <2>2. pc \in AjPcs \ {"idle"} /\ ajRun[s].pc # "idle"  BY <1>1, <2>1 DEF AjPcs
  <2>3. /\ ajRun' \in [AjSlots -> [id : Nat, pc : AjPcs]]
        /\ \A t \in AjSlots : IF ajRun'[t].pc = "idle" THEN ajRun'[t].id = 0
                              ELSE ajRun'[t].id \in AjStore!Ids /\ ajRun'[t].id < ajNext
        /\ ajRun'[s].pc = pc /\ ajRun'[s].id = ajRun[s].id
        /\ \A t \in AjSlots \ {s} : ajRun'[t] = ajRun[t]
    BY <2>1, <2>2, AjGoesOn
  <2>4. i \in AjStore!Ids  BY <1>1, <1>2 DEF AjPlaced
  <2>5. /\ AjRaised \in Nat /\ AjPruned \subseteq AjStore!Ids
        /\ \A k \in AjStore!Ids : AjClaimed(k) => k <= AjRaised \/ k \in AjPruned
    BY AjRaisedOk DEF AjTyped
  <2>6. ajLedger' \subseteq AjStore!Ids /\ ajFloor' \in Nat  BY <1>5, <2>1, <2>4, <2>5
  <2>7. \A k \in AjStore!Ids : AjClaimed(k) => AjClaimed(k)'
    BY <1>5, <2>1, <2>5 DEF AjClaimed
  <2>8. pc = "dispatch" => AjClaimed(i)'  BY <2>1 DEF AjClaimed
  <2>9. AjTyped' /\ AjPlaced' /\ \A j \in AjJobs : AjCountedOf(j)'
    <3>1. /\ ajTasks' = [k \in AjStore!Ids |-> ajTasks'[k]]
          /\ \A k \in AjStore!Ids : AjTaskOk(ajTasks'[k])
          /\ ajDone' \in [AjStore!Ids -> Nat]
      BY <1>1 DEF AjTyped
    <3> QED  BY <1>1, <2>3, <2>6, <3>1, AjWorkFrame
  <2>10. AjOnce'
    <3>1. \A k \in AjStore!Ids : ajDone[k] <= 1 /\ (ajDone[k] > 0 => AjClaimed(k)')
      BY <2>7 DEF AjOnce
    <3>2. pc = "dispatch" => ajDone[i] = 0
      BY <1>5, <2>4 DEF AjOnce, AjTyped
    <3>3. ASSUME NEW t \in AjSlots \ {s}, ajRun[t].pc = "dispatch"
          PROVE  ajRun[t].id # i /\ AjClaimed(ajRun[t].id)'
      <4>1. AjClaimed(ajRun[t].id) /\ ajRun[t].id \in AjStore!Ids
        BY <3>3 DEF AjOnce, AjPlaced
      <4>2. PICK k : k = ajRun[t].id  OBVIOUS
      <4>3. AjClaimed(k)'  BY <2>7, <4>1, <4>2
      <4>4. ajRun'[t].id = k  BY <2>3, <4>2
      <4>5. AjClaimed(ajRun[t].id)'  BY <4>3, <4>4 DEF AjClaimed
      <4> QED  BY <1>5, <4>1, <4>5
    <3>4. ASSUME NEW t \in AjSlots, ajRun'[t].pc = "dispatch"
          PROVE  AjClaimed(ajRun[t].id)' /\ ajDone'[ajRun'[t].id] = 0
      <4>1. CASE t = s
        <5>1. ajRun'[t].id = i /\ pc = "dispatch"  BY <1>2, <2>3, <3>4, <4>1
        <5>2. AjClaimed(ajRun[t].id)'  BY <2>8, <5>1 DEF AjClaimed
        <5> QED  BY <1>1, <3>2, <5>1, <5>2
      <4>2. CASE t # s
        <5>1. ajRun[t].pc = "dispatch" /\ ajRun'[t] = ajRun[t]  BY <2>3, <3>4, <4>2
        <5> QED  BY <1>1, <3>3, <4>2, <5>1 DEF AjOnce
      <4> QED  BY <4>1, <4>2
    <3>5. ASSUME NEW t \in AjSlots, NEW r \in AjSlots, ajRun'[t].pc = "dispatch",
                 ajRun'[r].pc = "dispatch", ajRun'[t].id = ajRun'[r].id
          PROVE  t = r
      <4>1. CASE t # s /\ r # s  BY <2>3, <3>5, <4>1 DEF AjOnce
      <4>2. CASE t = s \/ r = s  BY <1>2, <2>3, <3>3, <3>5, <4>2
      <4> QED  BY <4>1, <4>2
    <3>6. (\A k \in AjStore!Ids : ajDone[k] <= 1 /\ (ajDone[k] > 0 => AjClaimed(k)))'
      BY <1>1, <3>1 DEF AjStore!Ids
    <3> QED  BY <3>4, <3>5, <3>6 DEF AjOnce
  <2>11. AjHeeded'
    <3>1. \A t \in AjSlots : ajRun'[t].pc \in {"claim", "dispatch"} =>
             ajRun[t].pc \in {"claim", "dispatch"} /\ ajRun'[t].id = ajRun[t].id
      BY <1>1, <2>3
    <3> QED  BY <1>1, <3>1, AjHeededFrame
  <2> QED  BY <2>9, <2>10, <2>11
<1> QED  BY <1>3, <1>4, <1>5

(* A dispatch: the first of its firing, and of a job that still stands.    *)
LEMMA AjDispatchInv == ASSUME AjIInv, NEW s \in AjSlots, AjDispatch(s) PROVE AjIInv'
<1>1. /\ UNCHANGED <<ajRow, ajNow, ajEdit, ajLoop, ajTasks, ajNext, ajPay, ajLedger, ajFloor,
                     ajFired, ajExcuse, ajLate>>
      /\ ajRun[s].pc = "dispatch" /\ AjGoes(s, "complete")
  BY DEF AjDispatch, AjRows, AjTable, AjClaims
<1>2. "complete" \in AjPcs \ {"idle", "dispatch"} /\ "complete" # "claim"  BY DEF AjPcs
<1>3. PICK i : i = ajRun[s].id  OBVIOUS
<1>4. ajWrong' = ajWrong
  BY <1>1 DEF AjDispatch, AjIInv, AjHeeded
<1>5. CASE ajDone' = ajDone  BY <1>1, <1>2, <1>4, <1>5, AjGoesInv
<1>6. CASE ajDone' = [ajDone EXCEPT ![i] = @ + 1]
  <2> USE DEF AjIInv
  <2>1. /\ ajRun' \in [AjSlots -> [id : Nat, pc : AjPcs]]
        /\ \A t \in AjSlots : IF ajRun'[t].pc = "idle" THEN ajRun'[t].id = 0
                              ELSE ajRun'[t].id \in AjStore!Ids /\ ajRun'[t].id < ajNext
        /\ ajRun'[s].pc = "complete" /\ ajRun'[s].id = ajRun[s].id
        /\ \A t \in AjSlots \ {s} : ajRun'[t] = ajRun[t]
    BY <1>1, <1>2, AjGoesOn
  <2>2. i \in AjStore!Ids /\ AjClaimed(i) /\ ajDone[i] = 0
    BY <1>1, <1>3 DEF AjPlaced, AjOnce
  <2>3. /\ ajDone' \in [AjStore!Ids -> Nat] /\ ajDone'[i] = 1
        /\ \A k \in AjStore!Ids \ {i} : ajDone'[k] = ajDone[k]
    BY <1>6, <2>2 DEF AjTyped
  <2>4. AjTyped' /\ AjPlaced' /\ \A j \in AjJobs : AjCountedOf(j)'
    <3>1. /\ ajTasks' = [k \in AjStore!Ids |-> ajTasks'[k]]
          /\ \A k \in AjStore!Ids : AjTaskOk(ajTasks'[k])
          /\ ajLedger' \subseteq AjStore!Ids /\ ajFloor' \in Nat
      BY <1>1 DEF AjTyped
    <3> QED  BY <1>1, <2>1, <2>3, <3>1, AjWorkFrame
  <2>5. AjOnce'
    <3>1. \A k : AjClaimed(k)' <=> AjClaimed(k)  BY <1>1 DEF AjClaimed
    <3>2. \A k \in AjStore!Ids : ajDone'[k] <= 1 /\ (ajDone'[k] > 0 => AjClaimed(k)')
      BY <2>2, <2>3, <3>1 DEF AjOnce
    <3>3. ASSUME NEW t \in AjSlots, ajRun'[t].pc = "dispatch"
          PROVE  /\ t # s /\ ajRun'[t] = ajRun[t] /\ ajRun[t].pc = "dispatch"
                 /\ AjClaimed(ajRun[t].id)' /\ ajDone'[ajRun'[t].id] = 0
      <4>1. t # s /\ ajRun'[t] = ajRun[t] /\ ajRun[t].pc = "dispatch"  BY <2>1, <3>3
      <4>2. ajRun[t].id # i  BY <1>1, <1>3, <4>1 DEF AjOnce
      <4>3. ajRun[t].id \in AjStore!Ids  BY <4>1 DEF AjPlaced
      <4>4. AjClaimed(ajRun[t].id) /\ ajDone[ajRun[t].id] = 0  BY <4>1 DEF AjOnce
      <4>5. AjClaimed(ajRun[t].id)'  BY <1>1, <4>1, <4>4 DEF AjClaimed
      <4> QED  BY <2>3, <4>1, <4>2, <4>3, <4>4, <4>5
    <3>5. \A t, r \in AjSlots :
             ajRun'[t].pc = "dispatch" /\ ajRun'[r].pc = "dispatch" /\ ajRun'[t].id = ajRun'[r].id
             => t = r
      BY <3>3 DEF AjOnce
    <3>6. (\A k \in AjStore!Ids : ajDone[k] <= 1 /\ (ajDone[k] > 0 => AjClaimed(k)))'
      BY <3>2 DEF AjStore!Ids
    <3> QED  BY <3>3, <3>5, <3>6 DEF AjOnce
  <2>6. AjHeeded'
    <3>1. \A t \in AjSlots : ajRun'[t].pc \in {"claim", "dispatch"} =>
             ajRun[t].pc \in {"claim", "dispatch"} /\ ajRun'[t].id = ajRun[t].id
      BY <2>1
    <3> QED  BY <1>1, <1>4, <3>1, AjHeededFrame
  <2> QED  BY <2>4, <2>5, <2>6
<1> QED  BY <1>3, <1>5, <1>6 DEF AjDispatch

(* The last write of a task.                                               *)
LEMMA AjEndInv == ASSUME AjIInv, NEW s \in AjSlots, AjEnd(s) PROVE AjIInv'
<1> USE DEF AjIInv
<1>1. /\ UNCHANGED <<ajRow, ajNow, ajEdit, ajLoop, ajNext, ajPay, ajLedger, ajFloor, ajDone,
                     ajFired, ajExcuse, ajWrong>>
      /\ ajRun' = [ajRun EXCEPT ![s] = AjIdle] /\ ajLate' = ajLate \ {s}
      /\ ajRun[s].pc # "idle"
  BY DEF AjEnd, AjRows, AjClaims
<1>2. PICK i : i = ajRun[s].id  OBVIOUS
<1>3. i \in AjStore!Ids  BY <1>1, <1>2 DEF AjPlaced
<1>4. PICK u : /\ ajTasks' = [ajTasks EXCEPT ![i] = u]
               /\ AjTaskOk(u) /\ (ajTasks[i].status = "absent" => u = ajTasks[i])
               /\ u.job = ajTasks[i].job
  <2>1. AjTaskOk(ajTasks[i])  BY <1>3 DEF AjTyped
  <2>2. CASE ajRun[s].pc = "complete"
    <3>1. PICK u : u = AjStore!CompletedRow(ajTasks[i])  OBVIOUS
    <3>2. ajTasks' = [ajTasks EXCEPT ![i] = u]  BY <1>2, <2>2, <3>1 DEF AjEnd
    <3> QED  BY <2>1, <3>1, <3>2, AjTaskRows
  <2>3. CASE ajRun[s].pc # "complete"
    <3>1. PICK m, b : ajTasks' = [ajTasks EXCEPT ![i] = AjStore!FailedRow(ajTasks[i], m, b)]
      BY <1>2, <2>3 DEF AjEnd
    <3>2. PICK u : u = AjStore!FailedRow(ajTasks[i], m, b)  OBVIOUS
    <3>3. ajTasks' = [ajTasks EXCEPT ![i] = u]  BY <3>1, <3>2
    <3>4. AjTaskOk(u) /\ u.job = ajTasks[i].job /\ (ajTasks[i].status = "absent" => u = ajTasks[i])
      BY <2>1, <3>2, AjFailedRow
    <3> QED  BY <3>3, <3>4
  <2> QED  BY <2>2, <2>3
<1>5. /\ ajTasks' = [k \in AjStore!Ids |-> ajTasks'[k]]
      /\ \A k \in AjStore!Ids : /\ AjTaskOk(ajTasks'[k]) /\ ajTasks'[k].job = ajTasks[k].job
                                /\ ajTasks[k].status = "absent" => ajTasks'[k].status = "absent"
  BY <1>3, <1>4 DEF AjTyped
<1>6. /\ ajRun' \in [AjSlots -> [id : Nat, pc : AjPcs]]
      /\ ajRun'[s].pc = "idle" /\ ajRun'[s].id = 0
      /\ \A t \in AjSlots \ {s} : ajRun'[t] = ajRun[t]
  BY <1>1 DEF AjTyped, AjPcs, AjIdle
<1>7. \A t \in AjSlots : IF ajRun'[t].pc = "idle" THEN ajRun'[t].id = 0
                         ELSE ajRun'[t].id \in AjStore!Ids /\ ajRun'[t].id < ajNext
  BY <1>6 DEF AjPlaced
<1>8. AjTyped' /\ AjPlaced' /\ \A j \in AjJobs : AjCountedOf(j)'
  <2>1. ajLedger' \subseteq AjStore!Ids /\ ajFloor' \in Nat /\ ajDone' \in [AjStore!Ids -> Nat]
    BY <1>1 DEF AjTyped
  <2> QED  BY <1>1, <1>5, <1>6, <1>7, <2>1, AjWorkFrame
<1>9. AjOnce'  BY <1>1, <1>6, AjOnceStays
<1>10. AjHeeded'
  <2>1. \A t \in AjSlots : ajRun[t].pc \in {"claim", "dispatch"} => ajRun[t].id \in AjStore!Ids
    BY DEF AjPlaced
  <2>2. \A t \in AjSlots : ajRun'[t].pc \in {"claim", "dispatch"} =>
           /\ ajRun[t].pc \in {"claim", "dispatch"} /\ ajRun'[t].id = ajRun[t].id
           /\ t \in ajLate => t \in ajLate'
           /\ ajTasks'[ajRun[t].id].job = ajTasks[ajRun[t].id].job
    BY <1>1, <1>5, <1>6, <2>1
  <2> QED  BY <1>1, <2>2, AjHeededFrame
<1> QED  BY <1>8, <1>9, <1>10

(* A task is put back.                                                     *)
LEMMA AjReclaimInv == ASSUME AjIInv, NEW i \in AjStore!Ids, AjReclaim(i) PROVE AjIInv'
<1> USE DEF AjIInv
<1>1. /\ UNCHANGED <<ajRow, ajNow, ajEdit, ajLoop, ajNext, ajPay, ajRun, ajLedger, ajFloor,
                     ajDone, ajFired, ajExcuse, ajLate, ajWrong>>
      /\ ajTasks[i].status # "absent"
  BY DEF AjReclaim, AjRows, AjClaims, AjStore!Owned
<1>2. PICK u : u = AjStore!ReclaimedRow(AjStore!StaleRow(ajTasks[i]))  OBVIOUS
<1>3. ajTasks' = [ajTasks EXCEPT ![i] = u]  BY <1>2 DEF AjReclaim
<1>4. AjTaskOk(u) /\ u.job = ajTasks[i].job  BY <1>2, AjTaskRows DEF AjTyped
<1>5. /\ ajTasks' = [k \in AjStore!Ids |-> ajTasks'[k]]
      /\ \A k \in AjStore!Ids : /\ AjTaskOk(ajTasks'[k]) /\ ajTasks'[k].job = ajTasks[k].job
                                /\ ajTasks[k].status = "absent" => ajTasks'[k].status = "absent"
  BY <1>1, <1>3, <1>4 DEF AjTyped
<1>6. AjTyped' /\ AjPlaced' /\ \A j \in AjJobs : AjCountedOf(j)'
  <2>1. ajLedger' \subseteq AjStore!Ids /\ ajFloor' \in Nat /\ ajDone' \in [AjStore!Ids -> Nat]
        /\ ajRun' \in [AjSlots -> [id : Nat, pc : AjPcs]]
    BY <1>1 DEF AjTyped
  <2>2. \A t \in AjSlots : IF ajRun'[t].pc = "idle" THEN ajRun'[t].id = 0
                           ELSE ajRun'[t].id \in AjStore!Ids /\ ajRun'[t].id < ajNext
    BY <1>1 DEF AjPlaced
  <2> QED  BY <1>1, <1>5, <2>1, <2>2, AjWorkFrame
<1>7. AjOnce'  BY <1>1, AjOnceStays
<1>8. AjHeeded'
  <2>1. \A t \in AjSlots : ajRun[t].pc \in {"claim", "dispatch"} => ajRun[t].id \in AjStore!Ids
    BY DEF AjPlaced
  <2> QED  BY <1>1, <1>5, <2>1, AjHeededFrame
<1> QED  BY <1>6, <1>7, <1>8

(* The process dies: no firing is under way, and a job that had been read  *)
(* and may be read again has lost one.                                     *)
LEMMA AjCrashInv == ASSUME AjIInv, AjCrash PROVE AjIInv'
<1> USE DEF AjIInv
<1>1. /\ UNCHANGED <<ajRow, ajNow, ajTasks, ajNext, ajPay, ajLedger, ajFloor, ajDone, ajFired,
                     ajExcuse, ajWrong>>
      /\ ajEdit' = AjNoEdit
      /\ ajLoop' = [a \in AjLoops |-> [due |-> {}, made |-> {}]]
      /\ ajRun' = [s \in AjSlots |-> AjIdle]
  BY DEF AjCrash, AjTable, AjClaims
<1>2. AjTyped'
  <2>1. (\A j \in AjJobs : AjRowOk(ajRow[j]))'  BY <1>1 DEF AjTyped, AjRowOk
  <2>2. (\A a \in AjLoops : AjFiringsOk(ajLoop[a]))'  BY <1>1 DEF AjFiringsOk
  <2>3. (\A i \in AjStore!Ids : AjTaskOk(ajTasks[i]))'
    BY <1>1 DEF AjTyped, AjTaskOk, AjStore!Ids
  <2>4. ajRun' \in [AjSlots -> [id : Nat, pc : AjPcs]]  BY <1>1 DEF AjIdle, AjPcs
  <2>5. ajLoop' = [a \in AjLoops |-> ajLoop'[a]]  BY <1>1
  <2> QED  BY <1>1, <2>1, <2>2, <2>3, <2>4, <2>5 DEF AjTyped, AjStore!Ids
<1>3. AjPlaced'  BY <1>1 DEF AjPlaced, AjIdle, AjStore!Ids
<1>4. AjOnce'  BY <1>1, AjOnceStays DEF AjIdle
<1>5. AjHeeded'  BY <1>1 DEF AjHeeded, AjIdle
<1>6. ASSUME NEW j \in AjJobs PROVE AjCountedOf(j)'
  <2>1. AjFlying(j)' = {}  BY <1>1 DEF AjFlying
  <2>2. Cardinality(AjFlying(j)') = 0  BY <2>1, FS_EmptySet
  <2>3. AjFree(j)' => AjFree(j) \/ AjIsRead(j)
    BY Zenon, <1>1 DEF AjFree
  <2>4. AjIsRead(j) => Cardinality(AjFlying(j)) >= 1
    <3>1. AjIsRead(j) => AjFlying(j) # {}  BY DEF AjIsRead, AjFlying
    <3>2. AjFlying(j) # {} => Cardinality(AjFlying(j)) # 0  BY AjNumbers, FS_EmptySet
    <3> QED  BY <3>1, <3>2, AjNumbers
  <2>5. AjCountedOf(j)  OBVIOUS
  <2> QED  BY <1>1, <2>2, <2>3, <2>4, <2>5, AjNumbers DEF AjCountedOf
<1> QED  BY <1>2, <1>3, <1>4, <1>5, <1>6

(* The first state: every job is due, and none has fired.                  *)
LEMMA AjInitInv == ASSUME AjInit PROVE AjIInv
<1>1. PICK no : no = FALSE  OBVIOUS
<1>2. PICK yes : yes = TRUE  OBVIOUS
<1>3. PICK n : n = [status |-> "absent", job |-> CHOOSE j \in AjJobs : TRUE, keyed |-> no,
                    worker |-> "none", attempts |-> 0, prio |-> 0, due |-> no,
                    lease |-> "none", old |-> no]
  OBVIOUS
<1>4. n = AjStore!NoRow  BY Zenon, <1>1, <1>3 DEF AjStore!NoRow
<1>5. AjTaskOk(n) /\ n.status = "absent"  BY <1>3, AjAssumption DEF AjTaskOk
<1>6. ajTasks = [i \in AjStore!Ids |-> n] /\ ajNext = 1  BY <1>4 DEF AjInit, AjStore!StoreInit
<1>7. ajRow = [j \in AjJobs |-> [there |-> yes, on |-> yes, prompt |-> AjPrompt[j], next |-> 0]]
  BY Zenon, <1>2 DEF AjInit, AjNewRow
<1>8. /\ ajNow = 0 /\ ajEdit = AjNoEdit
      /\ ajLoop = [a \in AjLoops |-> [due |-> {}, made |-> {}]]
      /\ ajPay = [i \in AjStore!Ids |-> "none"]
      /\ ajRun = [s \in AjSlots |-> AjIdle]
      /\ ajLedger = {} /\ ajFloor = 0
      /\ ajDone = [i \in AjStore!Ids |-> 0]
      /\ ajFired = [j \in AjJobs |-> 0] /\ ajExcuse = [j \in AjJobs |-> 0] /\ ajWrong = {}
  BY DEF AjInit
<1>9. AjTyped
  <2>1. ajRow = [j \in AjJobs |-> ajRow[j]] /\ \A j \in AjJobs : AjRowOk(ajRow[j])
    BY <1>7 DEF AjRowOk
  <2>2. ajLoop = [a \in AjLoops |-> ajLoop[a]] /\ \A a \in AjLoops : AjFiringsOk(ajLoop[a])
    BY <1>8 DEF AjFiringsOk
  <2>3. ajTasks = [i \in AjStore!Ids |-> ajTasks[i]]
        /\ \A i \in AjStore!Ids : AjTaskOk(ajTasks[i])
    BY <1>5, <1>6
  <2>4. ajRun \in [AjSlots -> [id : Nat, pc : AjPcs]]  BY <1>8 DEF AjIdle, AjPcs
  <2>5. ajPay = [i \in AjStore!Ids |-> ajPay[i]]  BY <1>8
  <2> QED  BY <1>6, <1>8, <2>1, <2>2, <2>3, <2>4, <2>5 DEF AjTyped
<1>10. AjPlaced  BY <1>5, <1>6, <1>8 DEF AjPlaced, AjIdle
<1>11. AjOnce  BY <1>8 DEF AjOnce, AjIdle
<1>12. AjHeeded  BY <1>8 DEF AjHeeded, AjIdle
<1>13. ASSUME NEW j \in AjJobs PROVE AjCountedOf(j)
  <2>1. AjFlying(j) = {}  BY <1>8 DEF AjFlying
  <2>2. Cardinality(AjFlying(j)) = 0  BY <2>1, FS_EmptySet
  <2> QED  BY <1>8, <2>2 DEF AjCountedOf
<1> QED  BY <1>9, <1>10, <1>11, <1>12, <1>13 DEF AjIInv

(* Every step keeps the invariant.                                         *)
LEMMA AjStepInv == ASSUME AjIInv, [AjNext]_ajVars PROVE AjIInv'
<1>1. CASE UNCHANGED ajVars
  <2>1. UNCHANGED <<ajRow, ajNow, ajEdit, ajLoop, ajTasks, ajNext, ajPay, ajRun, ajLedger,
                    ajFloor, ajDone, ajFired, ajExcuse, ajLate, ajWrong>>
    BY <1>1 DEF ajVars
  <2>2. AjTyped' /\ AjPlaced' /\ \A j \in AjJobs : AjCountedOf(j)'
    <3>1. ajLedger' \subseteq AjStore!Ids /\ ajFloor' \in Nat /\ ajDone' \in [AjStore!Ids -> Nat]
          /\ ajRun' \in [AjSlots -> [id : Nat, pc : AjPcs]]
          /\ ajTasks' = [k \in AjStore!Ids |-> ajTasks'[k]]
      BY <2>1 DEF AjIInv, AjTyped
    <3>2. \A t \in AjSlots : IF ajRun'[t].pc = "idle" THEN ajRun'[t].id = 0
                             ELSE ajRun'[t].id \in AjStore!Ids /\ ajRun'[t].id < ajNext
      BY <2>1 DEF AjIInv, AjPlaced
    <3>3. \A k \in AjStore!Ids : AjTaskOk(ajTasks'[k])  BY <2>1 DEF AjIInv, AjTyped
    <3> QED  BY <2>1, <3>1, <3>2, <3>3, AjWorkFrame
  <2>3. AjOnce'  BY <2>1, AjOnceStays DEF AjIInv
  <2>4. AjHeeded'  BY <2>1, AjHeededFrame DEF AjIInv
  <2> QED  BY <2>2, <2>3, <2>4 DEF AjIInv
<1>2. CASE AjNext
  <2>1. CASE AjTime \/ AjSave \/ AjCrash  BY <2>1, AjTimeInv, AjSaveInv, AjCrashInv
  <2>2. CASE \E j \in AjJobs : AjOpen(j) \/ AjDelete(j)  BY <2>2, AjOpenInv, AjDeleteInv
  <2>3. CASE \E a \in AjLoops : AjRead(a) \/ AjAdvance(a) \/ AjInsert(a)
    BY <2>3, AjReadInv, AjAdvanceInv, AjInsertInv
  <2>4. CASE \E s \in AjSlots : AjLoopRun(s) \/ AjCheck(s) \/ AjEnter(s)
    BY <2>4, AjHandleInv, AjEnterInv
  <2>5. CASE \E s \in AjSlots : AjDispatch(s) \/ AjEnd(s) \/ \E i \in AjStore!Ids : AjClaim(s, i)
    BY <2>5, AjDispatchInv, AjEndInv, AjClaimInv
  <2>6. CASE \E i \in AjStore!Ids : AjReclaim(i)  BY <2>6, AjReclaimInv
  <2> QED  BY <1>2, <2>1, <2>2, <2>3, <2>4, <2>5, <2>6 DEF AjNext
<1> QED  BY <1>1, <1>2

(* What AjSafe asks for is in the invariant.                               *)
LEMMA AjIInvSafe == ASSUME AjIInv PROVE AjSafe
<1>1. ASSUME NEW j \in AjJobs PROVE ajFired[j] <= 1 + ajNow + ajExcuse[j]
  <2>1. AjCountedOf(j) /\ AjTyped  BY DEF AjIInv
  <2> QED  BY <2>1, AjNumbers DEF AjCountedOf
<1> QED  BY <1>1 DEF AjIInv, AjOnce, AjHeeded, AjSafe

(* A runbook is dispatched at most once for a firing and for the job as it *)
(* was checked, and a job fires once a period but for the excuses          *)
(* (AgentJobsJob, agent_job.go, ExecuteScheduledRunbook).                  *)
THEOREM AjSafety == AjSpec => []AjSafe
<1>1. AjInit => AjIInv  BY AjInitInv
<1>2. AjIInv /\ [AjNext]_ajVars => AjIInv'  BY AjStepInv
<1>3. AjIInv => AjSafe  BY AjIInvSafe
<1> QED  BY <1>1, <1>2, <1>3, PTL DEF AjSpec

-----------------------------------------------------------------------------
(* Chat import.  Where the handler is says what of the archive is there;   *)
(* where an upload is, that its file is there or no longer needed; a fact  *)
(* without its key is the handler's, or a failure left it.                 *)

ImPcs == {"idle", "begin", "open", "fact", "key", "conv", "embed", "chunk", "remove",
          "report", "fail", "over"}

ImTyped ==
    /\ imUp \in [ImUploads -> {"new", "staged", "discard", "record", "enqueue", "answered"}]
    /\ imRow \in [ImJobs -> {"none", "running", "done", "failed", "canceled"}]
    /\ imTask \in [ImJobs -> {"none", "pending", "running", "over"}]
    /\ imJob \in [job : ImJobs \union {"none"}, pc : ImPcs]
    /\ imVec \in 0 .. 2 /\ imFacts \in Nat /\ imFaults \in Nat

ImPlace ==
    /\ imJob.pc # "idle" => imJob.job \in ImJobs
    /\ imJob.pc \in {"open", "fact", "key", "conv", "remove"} => imJob.job = "import"
    /\ imJob.pc = "conv" => imKeyed
    /\ imJob.job = "import" /\ imJob.pc \in {"embed", "chunk", "remove", "report"} =>
          imKeyed /\ imMsg
    /\ imJob.job = "import" /\ imJob.pc \in {"remove", "report"} => imVec > 0

ImCounted ==
    /\ imFacts <= 1 + imFaults
    /\ ~imKeyed /\ imJob.pc # "key" => imFacts <= imFaults

ImUploaded ==
    \A u \in ImUploads :
       /\ imUp[u] \in {"staged", "record", "enqueue"} => imZip \/ imMsg
       /\ imUp[u] = "discard" => imMsg

ImIInv == ImTyped /\ ImPlace /\ ImCounted /\ ImUploaded /\ ImDoneMeansDone /\ ImZipKept

(* The first state.                                                        *)
LEMMA ImInitInv == ImInit => ImIInv
<1> SUFFICES ASSUME ImInit PROVE ImIInv  OBVIOUS
<1>1. ImTyped  BY DEF ImInit, ImTyped, ImJobs, ImPcs, ImIdle
<1>2. ImPlace /\ ImCounted  BY DEF ImInit, ImPlace, ImCounted, ImIdle
<1>3. ImUploaded /\ ImDoneMeansDone /\ ImZipKept
  BY DEF ImInit, ImUploaded, ImDoneMeansDone, ImZipKept, ImJobs, ImActive
<1> QED  BY <1>1, <1>2, <1>3 DEF ImIInv

(* What holds of a count holds of a higher bound.                          *)
LEMMA CountStays ==
    ASSUME NEW n \in Nat, NEW c \in Nat, NEW d \in Nat, d >= c
    PROVE  (n <= 1 + c => n <= 1 + d) /\ (n <= c => n <= d) /\ (n <= 1 + c => n <= c + 1)
OBVIOUS

(* A request: only an upload touches the file, and only a recorded one     *)
(* makes a task.                                                           *)
LEMMA ImRequestInv == ASSUME ImIInv, NEW u \in ImUploads, ImRequest(u) PROVE ImIInv'
<1> USE DEF ImIInv
<1>1. ImTyped'
  BY DEF ImTyped, ImRequest, ImStage, ImLookup, ImDiscard, ImRecord, ImEnqueue, ImWrites, ImFault,
         ImRequests, ImData
<1>2. UNCHANGED <<imJob, imKeyed, imMsg, imVec, imFacts>>
  BY Zenon DEF ImRequest, ImStage, ImLookup, ImDiscard, ImRecord, ImEnqueue, ImData
<1>7. imFaults' >= imFaults
  BY DEF ImTyped, ImRequest, ImStage, ImLookup, ImDiscard, ImRecord, ImEnqueue, ImWrites, ImFault
<1>8. ImPlace'  BY <1>2, <1>7 DEF ImPlace
<1>9. ImCounted'
  <2>1. imFacts \in Nat /\ imFaults \in Nat /\ imFaults' \in Nat  BY <1>1 DEF ImTyped
  <2>2. (imKeyed' <=> imKeyed) /\ imJob' = imJob /\ imFacts' = imFacts  BY Zenon, <1>2
  <2>3. imFacts <= 1 + imFaults'  BY <1>7, <2>1, CountStays DEF ImCounted
  <2>4. imFacts <= imFaults => imFacts <= imFaults'  BY <1>7, <2>1, CountStays
  <2> QED  BY Zenon, <2>2, <2>3, <2>4 DEF ImCounted
<1>3. ImPlace' /\ ImCounted'  BY <1>8, <1>9
<1>4. ImDoneMeansDone'
  BY <1>2 DEF ImDoneMeansDone, ImTyped, ImRequest, ImStage, ImLookup, ImDiscard, ImRecord, ImEnqueue,
              ImWrites
<1>5. ImUploaded'
  BY <1>2 DEF ImUploaded, ImDoneMeansDone, ImTyped, ImRequest, ImStage, ImLookup, ImDiscard, ImRecord,
              ImEnqueue
<1>6. ImZipKept'
  BY <1>2 DEF ImUploaded, ImZipKept, ImActive, ImTyped, ImRequest, ImStage, ImLookup, ImDiscard,
              ImRecord, ImEnqueue
<1> QED  BY <1>1, <1>3, <1>4, <1>5, <1>6

(* Of these steps only a claim and a task's end move the handler.          *)
LEMMA ImTaskMoves ==
    ASSUME \/ ImCancelTask \/ ImCancelRow \/ ImReindexTask \/ ImReindexRow \/ ImEnd
           \/ \E j \in ImJobs : ImReclaim(j)
           \/ \E j \in ImJobs : ImClaim(j)
    PROVE  \/ imJob' = imJob
           \/ imJob.pc # "key" /\ imJob' = ImIdle
           \/ imJob.pc # "key" /\ \E j \in ImJobs : imJob' = [job |-> j, pc |-> "begin"]
<1>1. CASE ImEnd  BY <1>1 DEF ImEnd, ImAt
<1>2. CASE \E j \in ImJobs : ImClaim(j)
  <2>1. ImIdle.pc # "key"  BY DEF ImIdle
  <2> QED  BY Zenon, <1>2, <2>1 DEF ImClaim
<1>3. CASE ~ImEnd /\ ~\E j \in ImJobs : ImClaim(j)
  BY Zenon, <1>3 DEF ImCancelTask, ImCancelRow, ImReindexTask, ImReindexRow, ImReclaim
<1> QED  BY Zenon, <1>1, <1>2, <1>3

(* Cancel and reindex, the end of a task, and stale tasks: a task that was *)
(* not active does not become the import's again.                          *)
LEMMA ImTaskInv ==
    ASSUME ImIInv,
           \/ ImCancelTask \/ ImCancelRow \/ ImReindexTask \/ ImReindexRow \/ ImEnd
           \/ \E j \in ImJobs : ImReclaim(j)
           \/ \E j \in ImJobs : ImClaim(j)
    PROVE  ImIInv'
<1> USE DEF ImIInv
<1>1. ImTyped'
  BY DEF ImTyped, ImCancelTask, ImCancelRow, ImReindexTask, ImReindexRow, ImEnd, ImReclaim, ImClaim,
         ImWrites, ImFault, ImRequests, ImData, ImIdle, ImPcs
<1>2. UNCHANGED <<imUp, imZip, imKeyed, imMsg, imVec, imFacts>>
  BY Zenon DEF ImCancelTask, ImCancelRow, ImReindexTask, ImReindexRow, ImEnd, ImReclaim, ImClaim,
               ImRequests, ImData
<1>5. /\ imFaults' >= imFaults
      /\ imRow'["import"] \in {imRow["import"], "canceled"}
  BY DEF ImTyped, ImCancelTask, ImCancelRow, ImReindexTask, ImReindexRow, ImEnd, ImReclaim, ImClaim,
         ImWrites, ImFault, ImJobs
<1>6. imTask'["import"] \in {"pending", "running"} => imTask["import"] \in {"pending", "running"}
  BY DEF ImTyped, ImCancelTask, ImCancelRow, ImReindexTask, ImReindexRow, ImEnd, ImReclaim, ImClaim,
         ImJobs
<1>7. \/ imJob' = imJob
      \/ imJob.pc # "key" /\ imJob' = ImIdle
      \/ imJob.pc # "key" /\ \E j \in ImJobs : imJob' = [job |-> j, pc |-> "begin"]
  BY ImTaskMoves
<1>3. ImPlace' /\ ImCounted'
  <2>1. ImPlace'  BY <1>2, <1>7 DEF ImPlace, ImIdle, ImJobs
  <2>2. imFacts \in Nat /\ imFaults \in Nat /\ imFaults' \in Nat  BY <1>1 DEF ImTyped
  <2>3. imFacts <= 1 + imFaults'  BY <1>5, <2>2, CountStays DEF ImCounted
  <2>4. imFacts <= imFaults => imFacts <= imFaults'  BY <1>5, <2>2, CountStays
  <2>5. imFacts' = imFacts /\ (imKeyed' <=> imKeyed)  BY Zenon, <1>2
  <2>6. imJob'.pc # "key" => imJob.pc # "key"  BY <1>7
  <2>7. ImCounted'  BY Zenon, <2>3, <2>4, <2>5, <2>6 DEF ImCounted
  <2> QED  BY <2>1, <2>7
<1>4. ImDoneMeansDone' /\ ImUploaded' /\ ImZipKept'
  BY <1>2, <1>5, <1>6 DEF ImDoneMeansDone, ImUploaded, ImZipKept, ImActive
<1> QED  BY <1>1, <1>3, <1>4

(* The handler.                                                            *)
LEMMA ImHandlerInv ==
    ASSUME ImIInv,
           \/ ImBegin \/ ImOpen \/ ImFact \/ ImKey \/ ImConversations \/ ImEmbed \/ ImChunk
           \/ ImRemove \/ ImReport \/ ImError
    PROVE  ImIInv'
<1> USE DEF ImIInv
<1>1. ImTyped'
  <2>1. imUp' = imUp /\ imTask' = imTask
    BY Zenon DEF ImRequests, ImBegin, ImOpen, ImFact, ImKey, ImConversations, ImEmbed, ImChunk,
             ImRemove, ImReport, ImError
  <2>2. imJob' \in [job : ImJobs \union {"none"}, pc : ImPcs]
    BY DEF ImTyped, ImGoes, ImPcs, ImBegin, ImOpen, ImFact, ImKey, ImConversations, ImEmbed, ImChunk,
             ImRemove, ImReport, ImError
  <2>3. imRow' \in [ImJobs -> {"none", "running", "done", "failed", "canceled"}]
    BY DEF ImTyped, ImWrites, ImData, ImJobs, ImBegin, ImOpen, ImFact, ImKey, ImConversations, ImEmbed, ImChunk,
             ImRemove, ImReport, ImError
  <2>4. imVec' \in 0 .. 2
    BY DEF ImTyped, ImData, ImBegin, ImOpen, ImFact, ImKey, ImConversations, ImEmbed, ImChunk,
             ImRemove, ImReport, ImError
  <2>5. imFacts' \in Nat /\ imFaults' \in Nat
    BY DEF ImTyped, ImData, ImWrites, ImFault, ImBegin, ImOpen, ImFact, ImKey, ImConversations, ImEmbed, ImChunk,
             ImRemove, ImReport, ImError
  <2> QED  BY <2>1, <2>2, <2>3, <2>4, <2>5 DEF ImTyped
<1>2. ImPlace'
  <2>0. imJob \in [job : ImJobs \union {"none"}, pc : ImPcs] /\ imVec \in 0 .. 2  BY DEF ImTyped
  <2>1. CASE ImBegin  BY <2>0, <2>1 DEF ImPlace, ImData, ImAt, ImGoes, ImJobs, ImBegin
  <2>2. CASE ImOpen  BY <2>0, <2>2 DEF ImPlace, ImData, ImAt, ImGoes, ImOpen
  <2>3. CASE ImFact  BY <2>0, <2>3 DEF ImPlace, ImData, ImAt, ImGoes, ImFact
  <2>4. CASE ImKey  BY <2>0, <2>4 DEF ImPlace, ImData, ImAt, ImGoes, ImKey
  <2>5. CASE ImConversations  BY <2>0, <2>5 DEF ImPlace, ImData, ImAt, ImGoes, ImConversations
  <2>6. CASE ImEmbed  BY <2>0, <2>6 DEF ImPlace, ImData, ImAt, ImGoes, ImEmbed
  <2>7. CASE ImChunk  BY <2>0, <2>7 DEF ImPlace, ImData, ImAt, ImGoes, ImChunk
  <2>8. CASE ImRemove  BY <2>0, <2>8 DEF ImPlace, ImData, ImAt, ImGoes, ImRemove
  <2>9. CASE ImReport  BY <2>0, <2>9 DEF ImPlace, ImData, ImAt, ImGoes, ImReport
  <2>10. CASE ImError  BY <2>0, <2>10 DEF ImPlace, ImData, ImAt, ImGoes, ImError
  <2> QED  BY <2>1, <2>2, <2>3, <2>4, <2>5, <2>6, <2>7, <2>8, <2>9, <2>10
<1>3. ImCounted'
  <2>1. /\ imJob \in [job : ImJobs \union {"none"}, pc : ImPcs]
        /\ imFacts \in Nat /\ imFaults \in Nat /\ imFaults' \in Nat
    BY <1>1 DEF ImTyped
  <2>2. CASE ImFact
    <3>1. imFaults' = imFaults /\ imKeyed' = imKeyed /\ imJob.pc = "fact"
      BY Zenon, <2>2 DEF ImFact, ImAt
    <3>2. CASE imKeyed
      <4>1. imFacts' = imFacts  BY <2>2, <3>2 DEF ImFact
      <4> QED  BY Zenon, <3>1, <3>2, <4>1 DEF ImCounted
    <3>3. CASE ~imKeyed
      <4>1. imFacts' = imFacts + 1 /\ imJob'.pc = "key"  BY <2>1, <2>2, <3>3 DEF ImFact, ImGoes
      <4>2. imFacts <= imFaults  BY <3>1, <3>3 DEF ImCounted
      <4>3. imFacts + 1 <= 1 + imFaults  BY <2>1, <4>2
      <4> QED  BY Zenon, <3>1, <4>1, <4>3 DEF ImCounted
    <3> QED  BY <3>2, <3>3
  <2>3. CASE ImKey
    <3>1. imKeyed' = TRUE /\ imFacts' = imFacts /\ imFaults' = imFaults
      BY Zenon, <2>3 DEF ImKey
    <3> QED  BY Zenon, <3>1 DEF ImCounted
  <2>4. CASE ImError
    <3>1. imFacts' = imFacts /\ imFaults' = imFaults + 1  BY <2>4 DEF ImError, ImFault, ImData
    <3>4. imFacts <= imFaults + 1  BY <2>1, CountStays DEF ImCounted
    <3>2. imFacts <= imFaults'  BY <3>1, <3>4
    <3>3. imFacts <= 1 + imFaults'
      <4>1. imFaults' >= imFaults  BY <2>1, <3>1
      <4> QED  BY <2>1, <4>1, CountStays DEF ImCounted
    <3> QED  BY Zenon, <3>1, <3>2, <3>3 DEF ImCounted
  <2>5. CASE ImBegin \/ ImOpen \/ ImConversations \/ ImEmbed \/ ImChunk \/ ImRemove \/ ImReport
    <3>1. imFacts' = imFacts /\ imKeyed' = imKeyed
      BY Zenon, <2>5 DEF ImBegin, ImOpen, ImConversations, ImEmbed, ImChunk, ImRemove, ImReport, ImData
    <3>2. imJob.pc # "key"
      BY <2>5 DEF ImBegin, ImOpen, ImConversations, ImEmbed, ImChunk, ImRemove, ImReport, ImAt
    <3>3. imFaults' >= imFaults
      BY <2>1, <2>5 DEF ImBegin, ImOpen, ImConversations, ImEmbed, ImChunk, ImRemove, ImReport,
                        ImWrites, ImFault
    <3>4. imFacts <= 1 + imFaults'  BY <2>1, <3>3, CountStays DEF ImCounted
    <3>5. imFacts <= imFaults => imFacts <= imFaults'  BY <2>1, <3>3, CountStays
    <3> QED  BY Zenon, <3>1, <3>2, <3>4, <3>5 DEF ImCounted
  <2> QED  BY Zenon, <2>2, <2>3, <2>4, <2>5
<1>4. ImDoneMeansDone'
  <2>1. CASE ImReport
    <3>1. UNCHANGED <<imKeyed, imMsg, imVec>>  BY Zenon, <2>1 DEF ImReport, ImData
    <3>2. \/ imRow' = imRow
          \/ imRow' = [imRow EXCEPT ![imJob.job] = IF ImAt("fail") THEN "failed" ELSE "done"]
      BY <2>1 DEF ImReport, ImWrites
    <3>3. imRow'["import"] = "done" =>
             imRow["import"] = "done" \/ (imJob.job = "import" /\ imJob.pc = "report")
      BY <2>1, <3>2 DEF ImReport, ImAt, ImTyped, ImJobs
    <3> QED  BY Zenon, <3>1, <3>3 DEF ImPlace, ImDoneMeansDone
  <2>2. CASE ~ImReport
    <3>1. imRow' = imRow \/ imRow' = [imRow EXCEPT ![imJob.job] = "running"]
      BY <2>2 DEF ImBegin, ImOpen, ImFact, ImKey, ImConversations, ImEmbed, ImChunk, ImRemove, ImError, ImWrites
    <3>2. imRow'["import"] = "done" => imRow["import"] = "done"
      BY <3>1 DEF ImTyped, ImJobs
    <3>3. (imKeyed => imKeyed') /\ (imMsg => imMsg')
      <4>1. CASE ImKey  BY Zenon, <4>1 DEF ImKey
      <4>2. CASE ImConversations  BY Zenon, <4>2 DEF ImConversations
      <4>3. CASE ImFact  BY Zenon, <4>3 DEF ImFact
      <4>4. CASE ImEmbed \/ ImChunk
        <5>1. imKeyed' = imKeyed /\ imMsg' = imMsg  BY Zenon, <4>4 DEF ImEmbed, ImChunk
        <5> QED  BY Zenon, <5>1
      <4>5. CASE ImBegin \/ ImOpen \/ ImRemove \/ ImError
        <5>1. UNCHANGED ImData  BY Zenon, <4>5 DEF ImBegin, ImOpen, ImRemove, ImError
        <5>2. imKeyed' = imKeyed /\ imMsg' = imMsg  BY Zenon, <5>1 DEF ImData
        <5> QED  BY Zenon, <5>2
      <4> QED  BY Zenon, <2>2, <4>1, <4>2, <4>3, <4>4, <4>5
    <3>4. imVec > 0 => imVec' > 0
      BY <2>2 DEF ImBegin, ImOpen, ImFact, ImKey, ImConversations, ImEmbed, ImChunk, ImRemove, ImError, ImData
    <3> QED  BY Zenon, <3>2, <3>3, <3>4 DEF ImDoneMeansDone
  <2> QED  BY <2>1, <2>2
<1>5. ImUploaded' /\ ImZipKept'
  BY DEF ImTyped, ImPlace, ImUploaded, ImZipKept, ImActive, ImBegin, ImOpen, ImFact, ImKey, ImConversations,
         ImEmbed, ImChunk, ImRemove, ImReport, ImError, ImRequests, ImData, ImAt
<1> QED  BY <1>1, <1>2, <1>3, <1>4, <1>5

(* The process dies: the file stays if a task will read it.                *)
LEMMA ImCrashInv == ASSUME ImIInv, ImCrash PROVE ImIInv'
<1> USE DEF ImIInv
<1>1. ImTyped'  BY DEF ImTyped, ImCrash, ImFault, ImData, ImIdle, ImPcs, ImSwept, ImActive
<1>2. ImPlace' /\ ImCounted' /\ ImDoneMeansDone'
  BY DEF ImTyped, ImPlace, ImCounted, ImDoneMeansDone, ImCrash, ImFault, ImData, ImIdle
<1>3. ImUploaded' /\ ImZipKept'
  BY DEF ImUploaded, ImZipKept, ImCrash, ImData, ImSwept, ImActive
<1> QED  BY <1>1, <1>2, <1>3

(* Every step of the import keeps the invariant.                           *)
LEMMA ImStepInv == ASSUME ImIInv, [ImNext]_imVars PROVE ImIInv'
<1>1. CASE UNCHANGED imVars
  BY <1>1 DEF imVars, ImIInv, ImTyped, ImPlace, ImCounted, ImUploaded, ImDoneMeansDone, ImZipKept, ImActive
<1> QED  BY <1>1, ImRequestInv, ImTaskInv, ImHandlerInv, ImCrashInv DEF ImNext, ImHandle

(* What ImSafe asks for is in the invariant.                               *)
LEMMA ImIInvSafe == ImIInv => ImSafe
BY DEF ImIInv, ImTyped, ImCounted, ImSafe, ImFactsOnce

(* The kinds of what is archived, and of the rows that were left.          *)
ImKinds ==
    /\ imZip \in BOOLEAN /\ imKeyed \in BOOLEAN /\ imMsg \in BOOLEAN
    /\ imBroken \subseteq ImJobs

(* What is archived, and what an import leaves, starts typed. *)
LEMMA ImKindsInit == ImInit => ImKinds
BY DEF ImInit, ImKinds

(* Every request, handler step, crash and restart keeps the kinds. *)
LEMMA ImKindsStep == ASSUME ImIInv, ImKinds, [ImNext]_imVars PROVE ImKinds'
<1>1. CASE UNCHANGED imVars  BY Zenon, <1>1 DEF ImKinds, imVars
<1>2. CASE \E u \in ImUploads : ImRequest(u)
  <2> PICK u \in ImUploads : ImRequest(u)  BY Zenon, <1>2
  <2>1. UNCHANGED <<imKeyed, imMsg>>
    BY Zenon DEF ImRequest, ImStage, ImLookup, ImDiscard, ImRecord, ImEnqueue, ImData
  <2>2. imZip' \in {imZip, TRUE, FALSE}
    BY Zenon DEF ImRequest, ImStage, ImLookup, ImDiscard, ImRecord, ImEnqueue
  <2>3. imBroken' \in {imBroken, imBroken \union {"import"}}
    BY DEF ImRequest, ImStage, ImLookup, ImDiscard, ImRecord, ImEnqueue
  <2> QED  BY <2>1, <2>2, <2>3 DEF ImKinds, ImJobs
<1>3. CASE \/ ImCancelTask \/ ImCancelRow \/ ImReindexTask \/ ImReindexRow
           \/ \E j \in ImJobs : ImReclaim(j)
  <2>1. UNCHANGED <<imZip, imKeyed, imMsg>>
    BY Zenon, <1>3 DEF ImCancelTask, ImCancelRow, ImReindexTask, ImReindexRow, ImReclaim, ImData
  <2>2. imBroken' \in {imBroken, imBroken \union {"import"}, imBroken \union {"reindex"}}
    BY <1>3 DEF ImCancelTask, ImCancelRow, ImReindexTask, ImReindexRow, ImReclaim
  <2> QED  BY <2>1, <2>2 DEF ImKinds, ImJobs
<1>4. CASE ImHandle \/ ImError
  <2>1. imZip' \in {imZip, FALSE}
    BY Zenon, <1>4 DEF ImHandle, ImBegin, ImOpen, ImFact, ImKey, ImConversations, ImEmbed,
      ImChunk, ImRemove, ImReport, ImEnd, ImClaim, ImError
  <2>2. imKeyed' \in {imKeyed, TRUE} /\ imMsg' \in {imMsg, TRUE}
    BY Zenon, <1>4 DEF ImHandle, ImBegin, ImOpen, ImFact, ImKey, ImConversations, ImEmbed,
      ImChunk, ImRemove, ImReport, ImEnd, ImClaim, ImError, ImData
  <2>3. imBroken' \subseteq ImJobs
    <3>1. CASE ImReport
      <4>1. imJob.job \in ImJobs  BY <3>1 DEF ImReport, ImIInv, ImPlace
      <4>2. imBroken' \in {imBroken, imBroken \union {imJob.job}}  BY <3>1 DEF ImReport
      <4> QED  BY <4>1, <4>2 DEF ImKinds
    <3>2. CASE ~ImReport
      <4>1. imBroken' = imBroken
        BY Zenon, <1>4, <3>2 DEF ImHandle, ImBegin, ImOpen, ImFact, ImKey, ImConversations,
          ImEmbed, ImChunk, ImRemove, ImEnd, ImClaim, ImError
      <4> QED  BY <4>1 DEF ImKinds
    <3> QED  BY <3>1, <3>2
  <2> QED  BY <2>1, <2>2, <2>3 DEF ImKinds
<1>5. CASE ImCrash
  <2>1. UNCHANGED <<imKeyed, imMsg>>  BY Zenon, <1>5 DEF ImCrash, ImData
  <2>2. imZip' \in BOOLEAN  BY <1>5 DEF ImCrash, ImSwept
  <2>3. imBroken' \subseteq imBroken \union {"import"}  BY <1>5 DEF ImCrash, ImCut
  <2> QED  BY <2>1, <2>2, <2>3 DEF ImKinds, ImJobs
<1> QED  BY Zenon, <1>1, <1>2, <1>3, <1>4, <1>5 DEF ImNext

(* The kinds and the inductive invariant give the types of the import. *)
LEMMA ImTypedOK == ImIInv /\ ImKinds => ImTypeOK
<1> SUFFICES ASSUME ImIInv, ImKinds PROVE ImTypeOK  OBVIOUS
<1>1. \A j \in ImJobs : /\ imRow[j] \in {"none", "running", "done", "failed", "canceled"}
                        /\ imTask[j] \in {"none", "pending", "running", "over"}
  BY DEF ImIInv, ImTyped
<1>2. imVec \in 0 .. 2  BY DEF ImIInv, ImTyped
<1> QED  BY Zenon, <1>1, <1>2 DEF ImKinds, ImTypeOK

(* The kinds of the tasks, of the counters and of what is remembered.      *)
RmKinds ==
    /\ rmTasks \in [RmStore!Ids -> RmStore!Row] /\ rmNext \in 1 .. RmMaxTask + 1
    /\ rmQuiet \in [RmIds -> SUBSET Nat] /\ rmFaults \in 0 .. RmMaxFaults

(* Every statement on the task table writes a row of the table. *)
LEMMA RmRowsStay ==
    ASSUME NEW t \in RmStore!Row
    PROVE  /\ RmStore!StartedRow(RmStore!ClaimedRow(t, "worker")) \in RmStore!Row
           /\ RmStore!CompletedRow(t) \in RmStore!Row
           /\ RmStore!FailedRow(t, RmStore!MayRetry(t), t.attempts > 0) \in RmStore!Row
           /\ RmStore!DueRow(t) \in RmStore!Row
           /\ RmStore!ReclaimedRow(RmStore!StaleRow(t)) \in RmStore!Row
<1>1. RmStore!StartedRow(RmStore!ClaimedRow(t, "worker")) \in RmStore!Row
  <2>1. PICK v : v = RmStore!ClaimedRow(t, "worker")  OBVIOUS
  <2>2. v \in RmStore!Row  BY <2>1 DEF RmStore!ClaimedRow, RmStore!Row, RmStore!Active
  <2>3. v.attempts + 1 \in Nat  BY <2>2 DEF RmStore!Row
  <2>4. RmStore!StartedRow(v) \in RmStore!Row
    BY Zenon, <2>2, <2>3 DEF RmStore!StartedRow, RmStore!Row, RmStore!Active
  <2> QED  BY Zenon, <2>1, <2>4
<1>2. RmStore!CompletedRow(t) \in RmStore!Row
  <2>1. PICK no : no = FALSE  OBVIOUS
  <2>2. [t EXCEPT !.status = "done", !.keyed = no, !.old = no] \in RmStore!Row
    BY <2>1 DEF RmStore!Row, RmStore!Terminal
  <2>3. RmStore!CompletedRow(t) \in {t, [t EXCEPT !.status = "done", !.keyed = no, !.old = no]}
    BY Zenon, <2>1 DEF RmStore!CompletedRow
  <2> QED  BY Zenon, <2>2, <2>3
<1>3. RmStore!FailedRow(t, RmStore!MayRetry(t), t.attempts > 0) \in RmStore!Row
  <2>1. PICK no, late : no = FALSE /\ late = ~(t.attempts > 0)  OBVIOUS
  <2>2. no \in BOOLEAN /\ late \in BOOLEAN  BY Zenon, <2>1
  <2>3. /\ [t EXCEPT !.status = "pending", !.worker = "none", !.lease = "none", !.due = late]
              \in RmStore!Row
        /\ [t EXCEPT !.status = "failed", !.keyed = no, !.old = no] \in RmStore!Row
    BY <2>2 DEF RmStore!Row, RmStore!Terminal, RmStore!Active
  <2> QED  BY Zenon, <2>1, <2>3 DEF RmStore!FailedRow
<1>4. RmStore!DueRow(t) \in RmStore!Row  BY Zenon DEF RmStore!DueRow, RmStore!Row
<1>5. RmStore!ReclaimedRow(RmStore!StaleRow(t)) \in RmStore!Row
  <2>1. PICK v : v = RmStore!StaleRow(t)  OBVIOUS
  <2>2. v \in RmStore!Row  BY Zenon, <2>1 DEF RmStore!StaleRow, RmStore!Row
  <2>3. [v EXCEPT !.status = "pending", !.worker = "none", !.lease = "none"] \in RmStore!Row
    BY Zenon, <2>2 DEF RmStore!Row, RmStore!Active
  <2>4. RmStore!ReclaimedRow(v) \in RmStore!Row  BY Zenon, <2>2, <2>3 DEF RmStore!ReclaimedRow
  <2> QED  BY Zenon, <2>1, <2>4
<1> QED  BY Zenon, <1>1, <1>2, <1>3, <1>4, <1>5

(* The absent row, and a reminder's first one.                             *)
LEMMA RmFreshRow ==
    ASSUME NEW r \in RmIds
    PROVE  RmStore!NoRow \in RmStore!Row /\ RmStore!NewRow(r, 0) \in RmStore!Row
<1>1. RmStore!NoRow \in RmStore!Row
  <2>1. (CHOOSE j \in RmIds : TRUE) \in RmIds  BY Zenon
  <2>2. 0 \in Nat  OBVIOUS
  <2> QED  BY Zenon, <2>1, <2>2 DEF RmStore!NoRow, RmStore!Row, RmStore!Active, RmStore!Terminal
<1>2. (r \in RmIds) \in BOOLEAN  OBVIOUS
<1> QED  BY Zenon, <1>1, <1>2 DEF RmStore!NewRow, RmStore!Row, RmStore!Active

(* The reminders start typed, with no task. *)
LEMMA RmKindsInit == RmInit => RmKinds
<1> SUFFICES ASSUME RmInit PROVE RmKinds  OBVIOUS
<1>1. RmStore!NoRow \in RmStore!Row  BY Zenon, RmFreshRow, RmAssumption
<1>2. rmTasks = [i \in RmStore!Ids |-> RmStore!NoRow] /\ rmNext = 1
  BY Zenon DEF RmInit, RmStore!StoreInit
<1>3. rmTasks \in [RmStore!Ids -> RmStore!Row]  BY Zenon, <1>1, <1>2
<1>4. rmNext \in 1 .. RmMaxTask + 1 /\ 0 \in 0 .. RmMaxFaults  BY <1>2, RmAssumption
<1>5. rmQuiet \in [RmIds -> SUBSET Nat]  BY Zenon DEF RmInit
<1> QED  BY Zenon, <1>3, <1>4, <1>5 DEF RmInit, RmKinds

(* A fault that is still allowed leaves their number within its bound. *)
LEMMA RmFaultBounded ==
    ASSUME rmFaults \in 0 .. RmMaxFaults, RmFault
    PROVE  rmFaults' \in 0 .. RmMaxFaults
BY RmAssumption DEF RmFault

(* One row is written.                                                     *)
LEMMA RmOneRow ==
    ASSUME RmKinds, NEW i \in RmStore!Ids, NEW u \in RmStore!Row,
           rmTasks' = [rmTasks EXCEPT ![i] = u]
    PROVE  rmTasks' \in [RmStore!Ids -> RmStore!Row]
BY Zenon DEF RmKinds

(* Every step of tick, worker, tool and clock keeps the kinds. *)
LEMMA RmKindsStep == ASSUME RmIInv, RmKinds, [RmNext]_rmVars PROVE RmKinds'
<1>1. CASE UNCHANGED rmVars  BY Zenon, <1>1 DEF RmKinds, rmVars, RmStore!Ids, RmStore!Row,
                                  RmStore!Active, RmStore!Terminal
<1>2. CASE RmNext
  <2>1. rmFaults' \in 0 .. RmMaxFaults
    <3>1. rmFaults' = rmFaults \/ RmFault
      BY Zenon, <1>2 DEF RmNext, RmCreate, RmComesDue, RmCancel, RmRead, RmInsert, RmClaiming,
        RmClaim, RmStep, RmSend, RmMark, RmEnd, RmBackoffEnds, RmReclaim, RmCrash
    <3> QED  BY Zenon, <3>1, RmFaultBounded DEF RmKinds
  <2>2. rmQuiet' \in [RmIds -> SUBSET Nat]
    <3>1. ASSUME NEW r \in RmIds, RmCancel(r) PROVE rmQuiet' \in [RmIds -> SUBSET Nat]
      <4>1. {rmSent[r]} \in SUBSET Nat /\ {} \in SUBSET Nat  BY DEF RmIInv, RmTyped
      <4> QED  BY Zenon, <3>1, <4>1 DEF RmCancel, RmKinds
    <3>2. CASE ~\E r \in RmIds : RmCancel(r)
      <4>1. rmQuiet' = rmQuiet
        BY Zenon, <1>2, <3>2 DEF RmNext, RmCreate, RmComesDue, RmRead, RmInsert, RmClaiming,
          RmClaim, RmStep, RmSend, RmMark, RmEnd, RmBackoffEnds, RmReclaim, RmCrash
      <4> QED  BY Zenon, <4>1 DEF RmKinds
    <3> QED  BY Zenon, <3>1, <3>2
  <2>3. rmTasks' \in [RmStore!Ids -> RmStore!Row] /\ rmNext' \in 1 .. RmMaxTask + 1
    <3> USE DEF RmKinds
    <3>1. CASE UNCHANGED RmTable  BY Zenon, <3>1 DEF RmTable
    <3>2. ASSUME NEW r \in RmIds, RmStore!InsertTask(r, 0), RmStore!Insertable(r)
          PROVE  rmTasks' \in [RmStore!Ids -> RmStore!Row] /\ rmNext' \in 1 .. RmMaxTask + 1
      <4>1. /\ rmNext \in RmStore!Ids /\ rmNext' = rmNext + 1
            /\ rmTasks' = [rmTasks EXCEPT ![rmNext] = RmStore!NewRow(r, 0)]
        BY Zenon, <3>2 DEF RmStore!InsertTask, RmStore!Insertable
      <4>2. rmTasks' \in [RmStore!Ids -> RmStore!Row]  BY Zenon, <4>1, RmFreshRow, RmOneRow
      <4>3. rmNext' \in 1 .. RmMaxTask + 1  BY <4>1, RmAssumption DEF RmStore!Ids
      <4> QED  BY <4>2, <4>3
    <3>3. ASSUME NEW i \in RmStore!Ids, NEW u \in RmStore!Row, rmNext' = rmNext,
                 rmTasks' = [rmTasks EXCEPT ![i] = u]
          PROVE  rmTasks' \in [RmStore!Ids -> RmStore!Row] /\ rmNext' \in 1 .. RmMaxTask + 1
      BY Zenon, <3>3, RmOneRow
    <3>4. CASE \E a \in RmLoops : \E r \in RmIds : RmInsert(a, r)
      <4>1. PICK r \in RmIds : UNCHANGED RmTable \/ RmStore!InsertTask(r, 0)
        BY Zenon, <3>4 DEF RmInsert
      <4>2. CASE RmStore!InsertTask(r, 0) /\ ~RmStore!Insertable(r)
        BY Zenon, <3>1, <4>2 DEF RmStore!InsertTask, RmTable
      <4> QED  BY Zenon, <3>1, <3>2, <4>1, <4>2
    <3>5. CASE RmClaiming
      <4>1. PICK s \in RmSlots, i \in RmStore!Ids : RmClaim(s, i)  BY Zenon, <3>5 DEF RmClaiming
      <4>2. rmTasks[i] \in RmStore!Row  BY Zenon
      <4> QED  BY Zenon, <3>3, <4>1, <4>2, RmRowsStay DEF RmClaim
    <3>6. ASSUME NEW s \in RmSlots, RmEnd(s)
          PROVE  rmTasks' \in [RmStore!Ids -> RmStore!Row] /\ rmNext' \in 1 .. RmMaxTask + 1
      <4>1. PICK i : i = rmRun[s].id  OBVIOUS
      <4>2. i \in RmStore!Ids  BY <3>6, <4>1 DEF RmEnd, RmIInv, RmPlaced
      <4>3. PICK t \in RmStore!Row : t = rmTasks[i]  BY Zenon, <4>2
      <4>4. \/ rmTasks' = rmTasks
            \/ rmTasks' = [rmTasks EXCEPT ![i] =
                  IF rmRun[s].pc = "complete" THEN RmStore!CompletedRow(t)
                  ELSE RmStore!FailedRow(t, RmStore!MayRetry(t), t.attempts > 0)]
        BY Zenon, <3>6, <4>1, <4>3 DEF RmEnd
      <4>5. (IF rmRun[s].pc = "complete" THEN RmStore!CompletedRow(t)
             ELSE RmStore!FailedRow(t, RmStore!MayRetry(t), t.attempts > 0)) \in RmStore!Row
        BY Zenon, RmRowsStay
      <4>6. rmNext' = rmNext  BY Zenon, <3>6 DEF RmEnd
      <4> QED  BY Zenon, <3>1, <3>3, <4>2, <4>4, <4>5, <4>6 DEF RmTable
    <3>7. CASE \E i \in RmStore!Ids : RmBackoffEnds(i) \/ RmReclaim(i)
      <4>1. PICK i \in RmStore!Ids : RmBackoffEnds(i) \/ RmReclaim(i)  BY Zenon, <3>7
      <4>2. rmTasks[i] \in RmStore!Row  BY Zenon
      <4> QED  BY Zenon, <3>3, <4>1, <4>2, RmRowsStay DEF RmBackoffEnds, RmReclaim
    <3>8. CASE \/ \E r \in RmIds : RmCreate(r) \/ RmComesDue(r) \/ RmCancel(r)
               \/ \E a \in RmLoops : RmRead(a)
               \/ \E s \in RmSlots : RmSend(s) \/ RmMark(s)
               \/ RmCrash
      BY Zenon, <3>1, <3>8 DEF RmCreate, RmComesDue, RmCancel, RmRead, RmSend, RmMark, RmCrash
    <3> QED  BY Zenon, <1>2, <3>4, <3>5, <3>6, <3>7, <3>8 DEF RmNext, RmStep
  <2> QED  BY Zenon, <2>1, <2>2, <2>3 DEF RmKinds, RmStore!Ids, RmStore!Row, RmStore!Active,
                                       RmStore!Terminal
<1> QED  BY <1>1, <1>2

(* A reminder's row, its tasks and its goroutines have the types the model *)
(* declares, in every behaviour.                                           *)
THEOREM RmTypes == RmSpec => []RmTypeOK
<1>1. RmInit => RmIInv  BY RmInitInv
<1>2. RmIInv /\ [RmNext]_rmVars => RmIInv'  BY RmStepInv
<1>3. RmIInv /\ RmKinds /\ [RmNext]_rmVars => RmKinds'  BY RmKindsStep
<1>4. RmIInv /\ RmKinds => RmTypeOK
  <2> SUFFICES ASSUME RmIInv, RmKinds PROVE RmTypeOK  OBVIOUS
  <2>1. rmRun \in [RmSlots -> [id : 0 .. RmMaxTask,
                               pc : {"idle", "send", "mark", "complete", "fail"}]]
    <3>1. 0 \in 0 .. RmMaxTask /\ RmStore!Ids \subseteq 0 .. RmMaxTask
      BY RmAssumption DEF RmStore!Ids
    <3>2. \A s \in RmSlots : rmRun[s].id \in 0 .. RmMaxTask  BY Zenon, <3>1 DEF RmIInv, RmPlaced
    <3>3. rmRun \in [RmSlots -> [id : Nat, pc : {"idle", "send", "mark", "complete", "fail"}]]
      BY Zenon DEF RmIInv, RmTyped
    <3> QED  BY <3>2, <3>3
  <2> QED  BY Zenon, <2>1 DEF RmIInv, RmTyped, RmKinds, RmTypeOK
<1> QED  BY <1>1, <1>2, <1>3, <1>4, RmKindsInit, PTL DEF RmSpec

-----------------------------------------------------------------------------
(* The kinds of the jobs' state, which nothing above needed.               *)

AjRowType == [there : BOOLEAN, on : BOOLEAN, prompt : AjPrompts, next : 0 .. AjMaxTime + 1]

AjFirings == SUBSET (AjJobs \X AjPrompts)

AjRowKinds ==
    /\ ajRow \in [AjJobs -> AjRowType] /\ ajNow \in 0 .. AjMaxTime
    /\ ajEdit = AjNoEdit \/ (ajEdit.job \in AjJobs /\ ajEdit.row \in AjRowType)
    /\ ajLoop \in [AjLoops -> [due : AjFirings, made : AjFirings]]

AjTaskKinds ==
    /\ ajTasks \in [AjStore!Ids -> AjStore!Row] /\ ajNext \in 1 .. AjMaxTask + 1
    /\ ajPay \in [AjStore!Ids -> AjPrompts \union {"none"}]

AjKinds ==
    /\ AjRowKinds /\ AjTaskKinds
    /\ ajFloor \in 0 .. AjMaxTask /\ ajLate \subseteq AjSlots /\ ajEvents \in 0 .. AjMaxEvents

(* Every statement writes a row of the table.                              *)
LEMMA AjRowsStay ==
    ASSUME NEW t \in AjStore!Row
    PROVE  /\ AjStore!StartedRow(AjStore!ClaimedRow(t, "worker")) \in AjStore!Row
           /\ AjStore!CompletedRow(t) \in AjStore!Row
           /\ AjStore!FailedRow(t, AjStore!MayRetry(t), t.attempts > 0) \in AjStore!Row
           /\ AjStore!DueRow(t) \in AjStore!Row
           /\ AjStore!ReclaimedRow(AjStore!StaleRow(t)) \in AjStore!Row
<1>1. AjStore!StartedRow(AjStore!ClaimedRow(t, "worker")) \in AjStore!Row
  <2>1. PICK v : v = AjStore!ClaimedRow(t, "worker")  OBVIOUS
  <2>2. v \in AjStore!Row  BY <2>1 DEF AjStore!ClaimedRow, AjStore!Row, AjStore!Active
  <2>3. v.attempts + 1 \in Nat  BY <2>2 DEF AjStore!Row
  <2>4. AjStore!StartedRow(v) \in AjStore!Row
    BY Zenon, <2>2, <2>3 DEF AjStore!StartedRow, AjStore!Row, AjStore!Active
  <2> QED  BY Zenon, <2>1, <2>4
<1>2. AjStore!CompletedRow(t) \in AjStore!Row
  <2>1. PICK no : no = FALSE  OBVIOUS
  <2>2. [t EXCEPT !.status = "done", !.keyed = no, !.old = no] \in AjStore!Row
    BY <2>1 DEF AjStore!Row, AjStore!Terminal
  <2>3. AjStore!CompletedRow(t) \in {t, [t EXCEPT !.status = "done", !.keyed = no, !.old = no]}
    BY Zenon, <2>1 DEF AjStore!CompletedRow
  <2> QED  BY Zenon, <2>2, <2>3
<1>3. AjStore!FailedRow(t, AjStore!MayRetry(t), t.attempts > 0) \in AjStore!Row
  <2>1. PICK no, late : no = FALSE /\ late = ~(t.attempts > 0)  OBVIOUS
  <2>2. no \in BOOLEAN /\ late \in BOOLEAN  BY Zenon, <2>1
  <2>3. /\ [t EXCEPT !.status = "pending", !.worker = "none", !.lease = "none", !.due = late]
              \in AjStore!Row
        /\ [t EXCEPT !.status = "failed", !.keyed = no, !.old = no] \in AjStore!Row
    BY <2>2 DEF AjStore!Row, AjStore!Terminal, AjStore!Active
  <2> QED  BY Zenon, <2>1, <2>3 DEF AjStore!FailedRow
<1>4. AjStore!DueRow(t) \in AjStore!Row  BY Zenon DEF AjStore!DueRow, AjStore!Row
<1>5. AjStore!ReclaimedRow(AjStore!StaleRow(t)) \in AjStore!Row
  <2>1. PICK v : v = AjStore!StaleRow(t)  OBVIOUS
  <2>2. v \in AjStore!Row  BY Zenon, <2>1 DEF AjStore!StaleRow, AjStore!Row
  <2>3. [v EXCEPT !.status = "pending", !.worker = "none", !.lease = "none"] \in AjStore!Row
    BY Zenon, <2>2 DEF AjStore!Row, AjStore!Active
  <2>4. AjStore!ReclaimedRow(v) \in AjStore!Row  BY Zenon, <2>2, <2>3 DEF AjStore!ReclaimedRow
  <2> QED  BY Zenon, <2>1, <2>4
<1> QED  BY Zenon, <1>1, <1>2, <1>3, <1>4, <1>5

(* The absent row, and a reminder's first one.                             *)
LEMMA AjFreshRow ==
    ASSUME NEW r \in AjJobs
    PROVE  AjStore!NoRow \in AjStore!Row /\ AjStore!NewRow(r, 0) \in AjStore!Row
<1>1. AjStore!NoRow \in AjStore!Row
  <2>1. (CHOOSE j \in AjJobs : TRUE) \in AjJobs  BY Zenon
  <2>2. 0 \in Nat  OBVIOUS
  <2> QED  BY Zenon, <2>1, <2>2 DEF AjStore!NoRow, AjStore!Row, AjStore!Active, AjStore!Terminal
<1>2. (r \in AjJobs) \in BOOLEAN  OBVIOUS
<1> QED  BY Zenon, <1>1, <1>2 DEF AjStore!NewRow, AjStore!Row, AjStore!Active

(* An event that is still allowed leaves their number within its bound. *)
LEMMA AjEventBounded ==
    ASSUME ajEvents \in 0 .. AjMaxEvents, AjEvent
    PROVE  ajEvents' \in 0 .. AjMaxEvents
BY AjAssumption DEF AjEvent

(* A job's new row, and the rows an edit makes of one.                     *)
LEMMA AjRowMade ==
    /\ \A j \in AjJobs : AjNewRow(j) \in AjRowType
    /\ \A row \in AjRowType : /\ [row EXCEPT !.on = ~@] \in AjRowType
                              /\ [row EXCEPT !.prompt = "edited"] \in AjRowType
                              /\ [row EXCEPT !.there = FALSE] \in AjRowType
    /\ \A row \in AjRowType : \A n \in 0 .. AjMaxTime + 1 : [row EXCEPT !.next = n] \in AjRowType
<1>1. ASSUME NEW j \in AjJobs PROVE AjNewRow(j) \in AjRowType
  <2>1. 0 \in 0 .. AjMaxTime + 1  BY AjAssumption
  <2>2. AjPrompt[j] \in AjPrompts  BY DEF AjPrompts
  <2> QED  BY Zenon, <2>1, <2>2 DEF AjNewRow, AjRowType
<1>2. "edited" \in AjPrompts  BY DEF AjPrompts
<1>3. ASSUME NEW row \in AjRowType PROVE [row EXCEPT !.on = ~@] \in AjRowType
  <2>1. (~row.on) \in BOOLEAN  OBVIOUS
  <2> QED  BY Zenon, <2>1 DEF AjRowType
<1>4. ASSUME NEW row \in AjRowType
      PROVE  /\ [row EXCEPT !.prompt = "edited"] \in AjRowType
             /\ [row EXCEPT !.there = FALSE] \in AjRowType
  BY Zenon, <1>2 DEF AjRowType
<1>5. ASSUME NEW row \in AjRowType, NEW n \in 0 .. AjMaxTime + 1
      PROVE  [row EXCEPT !.next = n] \in AjRowType
  BY Zenon DEF AjRowType
<1> QED  BY Zenon, <1>1, <1>3, <1>4, <1>5

(* What is read of a job is a firing.                                      *)
LEMMA AjFiringsRead ==
    ASSUME ajRow \in [AjJobs -> AjRowType], NEW D, D \subseteq AjJobs
    PROVE  {<<j, ajRow[j].prompt>> : j \in D} \in AjFirings
<1>1. \A j \in AjJobs : ajRow[j].prompt \in AjPrompts  BY DEF AjRowType
<1> QED  BY <1>1 DEF AjFirings

(* The clock, the rows and their edits, and the loops that read them.      *)
LEMMA AjRowKindsStep ==
    ASSUME AjIInv, AjRowKinds, AjNext PROVE AjRowKinds'
<1> USE DEF AjRowKinds
<1>1. CASE AjTime
  <2>1. ajNow' \in 0 .. AjMaxTime  BY <1>1, AjAssumption DEF AjTime
  <2>2. UNCHANGED <<ajRow, ajEdit, ajLoop>>  BY Zenon, <1>1 DEF AjTime
  <2> QED  BY Zenon, <2>1, <2>2 DEF AjRowType
<1>2. ASSUME NEW j \in AjJobs, AjOpen(j) PROVE AjRowKinds'
  <2>1. PICK row \in {[ajRow[j] EXCEPT !.on = ~@], [ajRow[j] EXCEPT !.prompt = "edited"]} :
           ajEdit' = [job |-> j, row |-> row]
    BY Zenon, <1>2 DEF AjOpen
  <2>2. row \in AjRowType
    <3>1. PICK old : old = ajRow[j] /\ old \in AjRowType  BY Zenon
    <3>2. row = [old EXCEPT !.on = ~@] \/ row = [old EXCEPT !.prompt = "edited"]  BY Zenon, <3>1
    <3> QED  BY Zenon, <3>1, <3>2, AjRowMade
  <2>3. ajEdit'.job = j /\ ajEdit'.row = row  BY <2>1
  <2>4. UNCHANGED <<ajRow, ajNow, ajLoop>>  BY Zenon, <1>2 DEF AjOpen
  <2> QED  BY Zenon, <2>2, <2>3, <2>4 DEF AjRowType
<1>3. CASE AjSave
  <2>1. ajEdit.job \in AjJobs /\ ajEdit.row \in AjRowType  BY Zenon, <1>3 DEF AjSave
  <2>2. ajRow' = ajRow \/ ajRow' = [ajRow EXCEPT ![ajEdit.job] = ajEdit.row]
    BY Zenon, <1>3 DEF AjSave
  <2>3. ajRow' \in [AjJobs -> AjRowType]  BY Zenon, <2>1, <2>2
  <2> QED  BY Zenon, <1>3, <2>3 DEF AjSave, AjRowType
<1>4. ASSUME NEW j \in AjJobs, AjDelete(j) PROVE AjRowKinds'
  <2>1. PICK row : row = [ajRow[j] EXCEPT !.there = FALSE]  OBVIOUS
  <2>2. row \in AjRowType  BY Zenon, <2>1, AjRowMade
  <2>3. ajRow' = [ajRow EXCEPT ![j] = row]  BY Zenon, <1>4, <2>1 DEF AjDelete
  <2>4. ajRow' \in [AjJobs -> AjRowType]  BY Zenon, <2>2, <2>3
  <2>5. UNCHANGED <<ajEdit, ajNow, ajLoop>>  BY Zenon, <1>4 DEF AjDelete
  <2> QED  BY Zenon, <2>4, <2>5 DEF AjRowType
<1>5. ASSUME NEW a \in AjLoops, AjRead(a) PROVE AjRowKinds'
  <2>1. PICK F \in AjFirings : ajLoop' = [ajLoop EXCEPT ![a].due = F]
    <3>1. PICK D : D = {j \in AjJobs : AjDue(j)}  OBVIOUS
    <3>2. ajLoop' = [ajLoop EXCEPT ![a].due = {<<j, ajRow[j].prompt>> : j \in D}]
      BY Zenon, <1>5, <3>1 DEF AjRead
    <3>3. {<<j, ajRow[j].prompt>> : j \in D} \in AjFirings  BY <3>1, AjFiringsRead
    <3> QED  BY <3>2, <3>3
  <2>2. ajLoop' \in [AjLoops -> [due : AjFirings, made : AjFirings]]  BY Zenon, <2>1
  <2> QED  BY Zenon, <1>5, <2>2 DEF AjRead, AjRows, AjRowType
<1>6. ASSUME NEW a \in AjLoops, AjAdvance(a) PROVE AjRowKinds'
  <2>1. ajLoop[a].due \in AjFirings /\ ajLoop[a].made \in AjFirings  BY Zenon
  <2>2. PICK f : f = AjFirst(ajLoop[a].due)  OBVIOUS
  <2>3. \A g \in ajLoop[a].due : g[1] \in Nat  BY <2>1, AjAssumption DEF AjFirings
  <2>4. f \in ajLoop[a].due  BY <1>6, <2>2, <2>3, AjFirstIn DEF AjAdvance
  <2>5. f \in AjJobs \X AjPrompts /\ f[1] \in AjJobs  BY <2>1, <2>4 DEF AjFirings
  <2>6. PICK D, M : D = ajLoop[a].due \ {f} /\ M = ajLoop[a].made \union {f}  OBVIOUS
  <2>7. D \in AjFirings /\ M \in AjFirings  BY <2>1, <2>5, <2>6 DEF AjFirings
  <2>8. ajLoop' = [ajLoop EXCEPT ![a] = [due |-> D, made |-> M]]
    BY Zenon, <1>6, <2>2, <2>6 DEF AjAdvance
  <2>9. ajLoop' \in [AjLoops -> [due : AjFirings, made : AjFirings]]  BY Zenon, <2>7, <2>8
  <2>10. PICK row : row = [ajRow[f[1]] EXCEPT !.next = ajNow + 1]  OBVIOUS
  <2>11. ajNow + 1 \in 0 .. AjMaxTime + 1  BY AjAssumption
  <2>12. row \in AjRowType  BY Zenon, <2>5, <2>10, <2>11, AjRowMade
  <2>13. ajRow' = ajRow \/ ajRow' = [ajRow EXCEPT ![f[1]] = row]
    BY Zenon, <1>6, <2>2, <2>10 DEF AjAdvance, AjAdvanced
  <2>14. ajRow' \in [AjJobs -> AjRowType]  BY Zenon, <2>5, <2>12, <2>13
  <2>15. UNCHANGED <<ajNow, ajEdit>>  BY Zenon, <1>6 DEF AjAdvance
  <2> QED  BY Zenon, <2>9, <2>14, <2>15 DEF AjRowType
<1>7. ASSUME NEW a \in AjLoops, AjInsert(a) PROVE AjRowKinds'
  <2>1. PICK M : M = ajLoop[a].made \ {AjFirst(ajLoop[a].made)}  OBVIOUS
  <2>2. M \in AjFirings  BY <2>1 DEF AjFirings
  <2>3. ajLoop' = [ajLoop EXCEPT ![a].made = M]  BY Zenon, <1>7, <2>1 DEF AjInsert
  <2>4. ajLoop' \in [AjLoops -> [due : AjFirings, made : AjFirings]]  BY Zenon, <2>2, <2>3
  <2> QED  BY Zenon, <1>7, <2>4 DEF AjInsert, AjRows, AjRowType
<1>8. CASE AjCrash
  <2>1. {} \in AjFirings  BY DEF AjFirings
  <2>2. ajLoop' \in [AjLoops -> [due : AjFirings, made : AjFirings]]
    BY Zenon, <1>8, <2>1 DEF AjCrash
  <2> QED  BY Zenon, <1>8, <2>2 DEF AjCrash, AjRowType
<1>9. CASE \/ \E s \in AjSlots :
                 \/ AjLoopRun(s) \/ AjCheck(s) \/ AjEnter(s) \/ AjDispatch(s) \/ AjEnd(s)
                 \/ \E i \in AjStore!Ids : AjClaim(s, i)
           \/ \E i \in AjStore!Ids : AjReclaim(i)
  <2>1. UNCHANGED AjRows /\ ajLoop' = ajLoop
    BY Zenon, <1>9 DEF AjLoopRun, AjCheck, AjEnter, AjDispatch, AjEnd, AjClaim, AjReclaim
  <2> QED  BY Zenon, <2>1 DEF AjRows, AjRowType
<1> QED  BY Zenon, <1>1, <1>2, <1>3, <1>4, <1>5, <1>6, <1>7, <1>8, <1>9 DEF AjNext

(* One row is written.                                                     *)
LEMMA AjOneRow ==
    ASSUME AjTaskKinds, NEW i \in AjStore!Ids, NEW u \in AjStore!Row,
           ajTasks' = [ajTasks EXCEPT ![i] = u], UNCHANGED <<ajNext, ajPay>>
    PROVE  AjTaskKinds'
<1>1. ajTasks' \in [AjStore!Ids -> AjStore!Row]  BY Zenon DEF AjTaskKinds
<1> QED  BY Zenon, <1>1 DEF AjTaskKinds, AjStore!Ids, AjStore!Row, AjStore!Active, AjStore!Terminal

(* The table and the payloads.                                             *)
LEMMA AjTaskKindsStep ==
    ASSUME AjIInv, AjRowKinds, AjTaskKinds, AjNext PROVE AjTaskKinds'
<1>1. CASE UNCHANGED AjTable
  BY Zenon, <1>1 DEF AjTable, AjTaskKinds, AjStore!Ids, AjStore!Row, AjStore!Active, AjStore!Terminal
<1>2. ASSUME NEW a \in AjLoops, AjInsert(a), ~UNCHANGED AjTable PROVE AjTaskKinds'
  <2>1. PICK f : f = AjFirst(ajLoop[a].made)  OBVIOUS
  <2>2. f[1] \in AjJobs /\ f[2] \in AjPrompts
    <3>1. ajLoop[a].made \in AjFirings  BY Zenon DEF AjRowKinds
    <3>2. \A g \in ajLoop[a].made : g[1] \in Nat  BY <3>1, AjAssumption DEF AjFirings
    <3>3. f \in ajLoop[a].made  BY <1>2, <2>1, <3>2, AjFirstIn DEF AjInsert
    <3> QED  BY <3>1, <3>3 DEF AjFirings
  <2>3. /\ UNCHANGED <<ajTasks, ajNext>> \/ AjStore!InsertTask(f[1], 0)
        /\ ajPay' = IF ajNext' = ajNext THEN ajPay ELSE [ajPay EXCEPT ![ajNext] = f[2]]
    BY Zenon, <1>2, <2>1 DEF AjInsert
  <2>4. ~UNCHANGED <<ajTasks, ajNext>>  BY Zenon, <1>2, <2>3 DEF AjTable
  <2>5. /\ ajNext \in AjStore!Ids /\ ajNext' = ajNext + 1
        /\ ajTasks' = [ajTasks EXCEPT ![ajNext] = AjStore!NewRow(f[1], 0)]
    BY Zenon, <2>3, <2>4 DEF AjStore!InsertTask, AjStore!Insertable
  <2>6. AjStore!NewRow(f[1], 0) \in AjStore!Row  BY Zenon, <2>2, AjFreshRow
  <2>7. ajTasks' \in [AjStore!Ids -> AjStore!Row]  BY Zenon, <2>5, <2>6 DEF AjTaskKinds
  <2>8. ajNext' \in 1 .. AjMaxTask + 1  BY <2>5, AjAssumption DEF AjStore!Ids
  <2>9. ajPay' \in [AjStore!Ids -> AjPrompts \union {"none"}]
    BY Zenon, <2>2, <2>3, <2>5 DEF AjTaskKinds
  <2> QED  BY Zenon, <2>7, <2>8, <2>9 DEF AjTaskKinds, AjStore!Ids, AjStore!Row, AjStore!Active,
                                         AjStore!Terminal
<1>3. ASSUME NEW s \in AjSlots, NEW i \in AjStore!Ids, AjClaim(s, i) PROVE AjTaskKinds'
  <2>1. ajTasks[i] \in AjStore!Row  BY Zenon DEF AjTaskKinds
  <2> QED  BY Zenon, <1>3, <2>1, AjRowsStay, AjOneRow DEF AjClaim
<1>4. ASSUME NEW s \in AjSlots, AjEnd(s) PROVE AjTaskKinds'
  <2>1. PICK i : i = ajRun[s].id  OBVIOUS
  <2>2. i \in AjStore!Ids  BY <1>4, <2>1 DEF AjEnd, AjIInv, AjPlaced
  <2>3. PICK t \in AjStore!Row : t = ajTasks[i]  BY Zenon, <2>2 DEF AjTaskKinds
  <2>4. ajTasks' = [ajTasks EXCEPT ![i] =
           IF ajRun[s].pc = "complete" THEN AjStore!CompletedRow(t)
           ELSE AjStore!FailedRow(t, AjStore!MayRetry(t), t.attempts > 0)]
    BY Zenon, <1>4, <2>1, <2>3 DEF AjEnd
  <2>5. (IF ajRun[s].pc = "complete" THEN AjStore!CompletedRow(t)
         ELSE AjStore!FailedRow(t, AjStore!MayRetry(t), t.attempts > 0)) \in AjStore!Row
    BY Zenon, AjRowsStay
  <2>6. UNCHANGED <<ajNext, ajPay>>  BY Zenon, <1>4 DEF AjEnd
  <2> QED  BY Zenon, <2>2, <2>4, <2>5, <2>6, AjOneRow
<1>5. ASSUME NEW i \in AjStore!Ids, AjReclaim(i) PROVE AjTaskKinds'
  <2>1. ajTasks[i] \in AjStore!Row  BY Zenon DEF AjTaskKinds
  <2> QED  BY Zenon, <1>5, <2>1, AjRowsStay, AjOneRow DEF AjReclaim
<1>6. CASE \/ AjTime \/ AjSave \/ AjCrash
           \/ \E j \in AjJobs : AjOpen(j) \/ AjDelete(j)
           \/ \E a \in AjLoops : AjRead(a) \/ AjAdvance(a)
           \/ \E s \in AjSlots : AjLoopRun(s) \/ AjCheck(s) \/ AjEnter(s) \/ AjDispatch(s)
  <2>1. UNCHANGED AjTable
    BY Zenon, <1>6 DEF AjTime, AjSave, AjCrash, AjOpen, AjDelete, AjRead, AjAdvance, AjLoopRun,
      AjCheck, AjEnter, AjDispatch
  <2> QED  BY Zenon, <1>1, <2>1
<1> QED  BY Zenon, <1>1, <1>2, <1>3, <1>4, <1>5, <1>6 DEF AjNext

(* The jobs, loops and the ledger start typed, with no task. *)
LEMMA AjKindsInit == AjInit => AjKinds
<1> SUFFICES ASSUME AjInit PROVE AjKinds  OBVIOUS
<1>1. AjStore!NoRow \in AjStore!Row  BY Zenon, AjFreshRow, AjAssumption
<1>2. ajTasks = [i \in AjStore!Ids |-> AjStore!NoRow] /\ ajNext = 1
  BY Zenon DEF AjInit, AjStore!StoreInit
<1>3. ajTasks \in [AjStore!Ids -> AjStore!Row]  BY Zenon, <1>1, <1>2
<1>4. /\ ajNext \in 1 .. AjMaxTask + 1 /\ 0 \in 0 .. AjMaxTask /\ 0 \in 0 .. AjMaxTime
      /\ 0 \in 0 .. AjMaxEvents
  BY <1>2, AjAssumption
<1>5. AjTaskKinds  BY Zenon, <1>3, <1>4 DEF AjInit, AjTaskKinds
<1>6. ajRow \in [AjJobs -> AjRowType]  BY Zenon, AjRowMade DEF AjInit
<1>7. {} \in AjFirings /\ {} \subseteq AjSlots  BY DEF AjFirings
<1>8. ajLoop \in [AjLoops -> [due : AjFirings, made : AjFirings]]  BY Zenon, <1>7 DEF AjInit
<1>9. AjRowKinds  BY Zenon, <1>4, <1>6, <1>8 DEF AjInit, AjRowKinds
<1> QED  BY Zenon, <1>4, <1>5, <1>7, <1>9 DEF AjInit, AjKinds

(* The floor is the id of a task.                                          *)
LEMMA AjRaisedIn ==
    ASSUME ajLedger \subseteq AjStore!Ids, ajFloor \in 0 .. AjMaxTask
    PROVE  AjRaised \in 0 .. AjMaxTask
<1>1. CASE ~AjFull  BY Zenon, <1>1 DEF AjRaised
<1>2. CASE AjFull
  <2>1. PICK c : c = AjCutoff  OBVIOUS
  <2>2. c \in 0 .. AjMaxTask
    <3>1. c \in AjStore!Ids  BY <1>2, <2>1, AjCutoffIn
    <3> QED  BY <3>1, AjAssumption DEF AjStore!Ids
  <2>3. PICK m : m = Max({ajFloor, c})  OBVIOUS
  <2>4. AjRaised = m  BY Zenon, <1>2, <2>1, <2>3 DEF AjRaised
  <2>5. m \in {ajFloor, c}
    <3>1. \E x \in {ajFloor, c} : \A y \in {ajFloor, c} : x >= y  BY <2>2, AjAssumption
    <3>2. m = CHOOSE x \in {ajFloor, c} : \A y \in {ajFloor, c} : x >= y  BY Zenon, <2>3 DEF Max
    <3> QED  BY <3>1, <3>2
  <2> QED  BY Zenon, <2>2, <2>4, <2>5
<1> QED  BY <1>1, <1>2

(* Every step of tick, worker, event loop and clock keeps the kinds. *)
LEMMA AjKindsStep == ASSUME AjIInv, AjKinds, [AjNext]_ajVars PROVE AjKinds'
<1>1. CASE UNCHANGED ajVars
  BY Zenon, <1>1 DEF AjKinds, AjRowKinds, AjTaskKinds, ajVars, AjRowType, AjStore!Ids, AjStore!Row,
                     AjStore!Active, AjStore!Terminal
<1>2. CASE AjNext
  <2>1. AjRowKinds' /\ AjTaskKinds'  BY <1>2, AjRowKindsStep, AjTaskKindsStep DEF AjKinds
  <2>2. ajFloor' \in 0 .. AjMaxTask
    <3>1. ajFloor' = ajFloor \/ ajFloor' = AjRaised
      BY Zenon, <1>2 DEF AjNext, AjTime, AjSave, AjCrash, AjOpen, AjDelete, AjRead, AjAdvance,
        AjInsert, AjLoopRun, AjCheck, AjEnter, AjDispatch, AjEnd, AjClaim, AjReclaim, AjClaims
    <3>2. AjRaised \in 0 .. AjMaxTask  BY AjRaisedIn DEF AjIInv, AjTyped, AjKinds
    <3> QED  BY Zenon, <3>1, <3>2 DEF AjKinds
  <2>3. ajLate' \subseteq AjSlots
    <3>1. \/ ajLate' \in {ajLate, {}}
          \/ \E j : ajLate' = ajLate \union AjChecked(j)
          \/ \E s \in AjSlots : ajLate' = ajLate \ {s}
      BY Zenon, <1>2 DEF AjNext, AjTime, AjSave, AjCrash, AjOpen, AjDelete, AjRead, AjAdvance,
        AjInsert, AjLoopRun, AjCheck, AjEnter, AjDispatch, AjEnd, AjClaim, AjReclaim, AjRecords
    <3>2. \A j : AjChecked(j) \subseteq AjSlots  BY DEF AjChecked
    <3>3. ajLate \subseteq AjSlots  BY Zenon DEF AjKinds
    <3> QED  BY <3>1, <3>2, <3>3
  <2>4. ajEvents' \in 0 .. AjMaxEvents
    <3>1. ajEvents' = ajEvents \/ AjEvent
      BY Zenon, <1>2 DEF AjNext, AjTime, AjSave, AjCrash, AjOpen, AjDelete, AjRead, AjAdvance,
        AjInsert, AjLoopRun, AjCheck, AjEnter, AjDispatch, AjEnd, AjClaim, AjReclaim
    <3> QED  BY Zenon, <3>1, AjEventBounded DEF AjKinds
  <2> QED  BY Zenon, <2>1, <2>2, <2>3, <2>4 DEF AjKinds
<1> QED  BY <1>1, <1>2

(* The kinds and the inductive invariant give the types of the agent jobs. *)
LEMMA AjTypedOK == AjIInv /\ AjKinds => AjTypeOK
<1> SUFFICES ASSUME AjIInv, AjKinds PROVE AjTypeOK  OBVIOUS
<1>1. ajRun \in [AjSlots -> [id : 0 .. AjMaxTask,
                    pc : {"idle", "handle", "claim", "dispatch", "complete", "fail"}]]
  <2>1. 0 \in 0 .. AjMaxTask /\ AjStore!Ids \subseteq 0 .. AjMaxTask
    BY AjAssumption DEF AjStore!Ids
  <2>2. \A s \in AjSlots : ajRun[s].id \in 0 .. AjMaxTask  BY Zenon, <2>1 DEF AjIInv, AjPlaced
  <2>3. ajRun \in [AjSlots -> [id : Nat, pc : AjPcs]]  BY Zenon DEF AjIInv, AjTyped
  <2> QED  BY <2>2, <2>3 DEF AjPcs
<1>2. /\ \A i \in AjStore!Ids : ajDone[i] \in Nat
      /\ \A j \in AjJobs : ajFired[j] \in Nat /\ ajExcuse[j] \in Nat
  BY Zenon DEF AjIInv, AjTyped
<1>3. ajWrong \subseteq AjStore!Ids  BY DEF AjIInv, AjHeeded
<1>4. ajLedger \subseteq AjStore!Ids  BY Zenon DEF AjIInv, AjTyped
<1> QED  BY Zenon, <1>1, <1>2, <1>3, <1>4
         DEF AjKinds, AjRowKinds, AjTaskKinds, AjRowType, AjFirings, AjTypeOK

(* A job's row, its firings, its tasks and the ledger have the types the   *)
(* model declares, in every behaviour.                                     *)
THEOREM AjTypes == AjSpec => []AjTypeOK
<1>1. AjInit => AjIInv  BY AjInitInv
<1>2. AjIInv /\ [AjNext]_ajVars => AjIInv'  BY AjStepInv
<1>3. AjIInv /\ AjKinds /\ [AjNext]_ajVars => AjKinds'  BY AjKindsStep
<1> QED  BY <1>1, <1>2, <1>3, AjKindsInit, AjTypedOK, PTL DEF AjSpec
=============================================================================
