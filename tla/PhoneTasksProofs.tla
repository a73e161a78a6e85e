-------------------------- MODULE PhoneTasksProofs --------------------------
(***************************************************************************)
(* Proofs about PhoneTasks, for any number of tasks, sessions, steps,      *)
(* epochs and generations.                                                 *)
(***************************************************************************)
EXTENDS PhoneTasks, TLAPS

Pending == {"queued"} \cup InDoubt

(***************************************************************************)
(* Rows.                                                                   *)
(***************************************************************************)
LEMMA IndicesFact == 1 \in Indices /\ Indices \subseteq Nat
  BY PhoneAssumption DEF Indices

(* TaskTo gives a task another state; a closed row loses its times.        *)
LEMMA TaskToRow ==
    ASSUME TypeOK, NEW t \in Tasks, NEW state \in TaskStates
    PROVE  LET r == TaskTo(t, state) IN
           /\ r \in TaskRow
           /\ r.state = state
           /\ r.cancelled = task[t].cancelled
           /\ r.session = task[t].session /\ r.gen = task[t].gen /\ r.step = task[t].step
           /\ state \in Active => r.due = task[t].due /\ r.lease = task[t].lease
  <1>1. task[t] \in TaskRow
    BY DEF TypeOK
  <1>2. CASE state \in Active
    BY <1>1, <1>2 DEF TaskRow, TaskTo
  <1>3. CASE state \notin Active
    <2>1. TaskTo(t, state) =
            [task[t] EXCEPT !.state = state, !.lease = 0, !.due = FALSE, !.snap = "none",
                            !.content = FALSE, !.origin = FALSE]
      BY <1>3 DEF TaskTo
    <2> DEFINE r == TaskTo(t, state)
    <2>2. /\ r.state = state /\ r.cancelled = task[t].cancelled
          /\ r.session = task[t].session /\ r.gen = task[t].gen /\ r.step = task[t].step
      BY <1>1, <2>1 DEF TaskRow
    <2>3. 0 \in 0 .. 2
      OBVIOUS
    <2>4. r \in TaskRow
      BY <1>1, <2>1, <2>3, Zenon DEF TaskRow
    <2> QED  BY <1>3, <2>2, <2>4
  <1> QED  BY <1>2, <1>3

(* CmdTo gives a command another state; only one in doubt keeps its time.  *)
LEMMA CmdToRow ==
    ASSUME NEW c \in CmdRow, NEW state \in CmdStates
    PROVE  LET r == CmdTo(c, state) IN
           /\ r \in CmdRow
           /\ r.state = state
           /\ r.due = (state \in InDoubt /\ c.due)
  BY PhoneAssumption DEF CmdRow, CmdTo

(* Ended closes a task: unknown_outcome when a command is in doubt.        *)
LEMMA EndedRow ==
    ASSUME TypeOK, NEW t \in Tasks, NEW states, NEW idle \in {"cancelled", "expired"}
    PROVE  LET r == Ended(t, states, idle) IN
           /\ r \in TaskRow
           /\ r.state = IF Uncertain(t, states) THEN "unknown_outcome" ELSE idle
           /\ r.session = task[t].session /\ r.gen = task[t].gen /\ r.step = task[t].step
           /\ r.cancelled = TRUE
  <1> DEFINE s == IF Uncertain(t, states) THEN "unknown_outcome" ELSE idle
             r == TaskTo(t, s)
  <1>1. s \in TaskStates
    BY DEF TaskStates, Settled
  <1>2. /\ r \in TaskRow /\ r.state = s
        /\ r.session = task[t].session /\ r.gen = task[t].gen /\ r.step = task[t].step
    BY <1>1, TaskToRow
  <1>3. Ended(t, states, idle) = [r EXCEPT !.cancelled = TRUE]
    BY DEF Ended
  <1> HIDE DEF r
  <1> QED  BY <1>2, <1>3 DEF TaskRow

(* EndCmd closes a pending command and leaves a settled one.               *)
LEMMA EndCmdRow ==
    ASSUME NEW c \in CmdRow, NEW idle \in {"cancelled", "expired"}
    PROVE  LET r == EndCmd(c, idle) IN
           /\ r \in CmdRow
           /\ c.state \in InDoubt => r.state = "unknown_outcome"
           /\ c.state = "queued" => r.state = idle
           /\ c.state \notin Pending => r = c
  <1>1. idle \in CmdStates /\ "unknown_outcome" \in CmdStates
    BY DEF CmdStates, Settled
  <1> QED  BY <1>1, CmdToRow DEF EndCmd, InDoubt, Pending

(* EndTasks keeps the rows of the task table.                              *)
LEMMA EndTasksRows ==
    ASSUME TypeOK, NEW D, NEW states
    PROVE  EndTasks(D, states) \in [Tasks -> TaskRow]
  BY EndedRow DEF EndTasks, TypeOK

(* EndTasks, row by row: the open ones of D end, the others stay.          *)
LEMMA EndTasksRow ==
    ASSUME TypeOK, NEW D, NEW states, NEW t \in Tasks
    PROVE  LET r == EndTasks(D, states)[t] IN
           /\ r.session = task[t].session /\ r.gen = task[t].gen /\ r.step = task[t].step
           /\ ~(t \in D /\ Open(t)) => r = task[t]
           /\ t \in D /\ Open(t) =>
                /\ r.state = IF Uncertain(t, states) THEN "unknown_outcome" ELSE "cancelled"
                /\ r.cancelled = TRUE
  BY EndedRow DEF EndTasks

(* EndCmds keeps the rows of the command table; those of D end.            *)
LEMMA EndCmdsRows ==
    ASSUME TypeOK, NEW D
    PROVE  /\ EndCmds(D) \in [Tasks -> [Indices -> CmdRow]]
           /\ \A t \in Tasks, k \in Indices :
                 EndCmds(D)[t][k] = IF t \in D THEN EndCmd(cmd[t][k], "cancelled") ELSE cmd[t][k]
  BY EndCmdRow DEF EndCmds, TypeOK

(* The rows that an insertion writes are rows of the tables.               *)
LEMMA NewRows ==
    ASSUME TypeOK, NEW s \in Sessions
    PROVE  NewTask(s) \in TaskRow /\ NewCmd \in CmdRow
  BY PhoneAssumption
     DEF TypeOK, StreamRow, NewTask, NewCmd, TaskRow, CmdRow, SessionRow, TaskStates, CmdStates, Active

(* The absent rows are rows of the tables.                                 *)
LEMMA NoRows == NoTask \in TaskRow /\ NoCmd \in CmdRow /\ NoSession \in SessionRow
  BY PhoneAssumption
     DEF NoTask, NoCmd, NoSession, TaskRow, CmdRow, SessionRow, TaskStates, CmdStates

(***************************************************************************)
(* Types.                                                                  *)
(***************************************************************************)
LEMMA EndSessionsType ==
    ASSUME TypeOK, NEW D, NEW gen \in [Sessions -> 0 .. MaxGen], EndSessions(D, gen)
    PROVE  /\ session' \in [Sessions -> SessionRow]
           /\ task' \in [Tasks -> TaskRow]
           /\ cmd' \in [Tasks -> [Indices -> CmdRow]]
  <1>1. \A s \in Sessions : [session[s] EXCEPT !.state = "revoked", !.gen = gen[s],
                                               !.due = TRUE, !.stopped = TRUE] \in SessionRow
    BY Zenon DEF TypeOK, SessionRow
  <1>2. session' \in [Sessions -> SessionRow]
    BY <1>1, Zenon DEF EndSessions, TypeOK
  <1> QED  BY <1>2, EndTasksRows, EndCmdsRows, Zenon DEF EndSessions

(* A receipt moves a command to one of its states.                         *)
LEMMA CommandAfterType ==
    ASSUME NEW state \in CmdStates, NEW r \in Receipts, NEW started \in BOOLEAN, NEW late \in BOOLEAN
    PROVE  CommandAfter(state, r, started, late) \in CmdStates
  BY DEF CommandAfter, Receipts, CmdStates, InDoubt, Settled

(* A receipt moves a task to one of its states.                            *)
LEMMA TaskAfterType ==
    ASSUME NEW t, NEW r \in Receipts, NEW c
    PROVE  TaskAfter(t, r, c) \in TaskStates
  BY DEF TaskAfter, Receipts, TaskStates, Active, Settled

(* A command or a task that is given a row keeps the tables typed. *)
LEMMA RowUpdate ==
    ASSUME TypeOK, NEW t \in Tasks, NEW k \in Indices
    PROVE  /\ \A c \in CmdRow : [cmd EXCEPT ![t][k] = c] \in [Tasks -> [Indices -> CmdRow]]
           /\ \A r \in TaskRow : [task EXCEPT ![t] = r] \in [Tasks -> TaskRow]
           /\ cmd[t][k] \in CmdRow /\ task[t] \in TaskRow
  BY DEF TypeOK

(* The states that the methods write are states of the tables.             *)
LEMMA States ==
    /\ {"queued", "running", "expired", "unknown_outcome", "succeeded"} \subseteq TaskStates
    /\ {"queued", "dispatched", "expired", "unknown_outcome"} \subseteq CmdStates
  BY DEF TaskStates, CmdStates, Active, InDoubt, Settled

(* A row whose flags change stays a row. *)
LEMMA TaskFlagRows ==
    ASSUME NEW r \in TaskRow
    PROVE  /\ \A x \in {"none", "new", "used"} : [r EXCEPT !.snap = x] \in TaskRow
           /\ \A n \in 0 .. 2 : [r EXCEPT !.lease = n] \in TaskRow
           /\ \A n \in 0 .. 2 : [r EXCEPT !.due = TRUE, !.lease = n, !.content = FALSE] \in TaskRow
           /\ [r EXCEPT !.content = FALSE, !.snap = "none"] \in TaskRow
  <1>1. \A x \in {"none", "new", "used"} : [r EXCEPT !.snap = x] \in TaskRow
    BY DEF TaskRow
  <1>2. \A n \in 0 .. 2 : [r EXCEPT !.lease = n] \in TaskRow
    BY DEF TaskRow
  <1>3. \A n \in 0 .. 2 : [r EXCEPT !.due = TRUE, !.lease = n, !.content = FALSE] \in TaskRow
    BY Zenon DEF TaskRow
  <1>4. [r EXCEPT !.content = FALSE, !.snap = "none"] \in TaskRow
    BY Zenon DEF TaskRow
  <1> QED  BY <1>1, <1>2, <1>3, <1>4

(* A UI task that goes on to another step.                                 *)
LEMMA StepRow ==
    ASSUME NEW r \in TaskRow, NEW n \in 0 .. Steps
    PROVE  [r EXCEPT !.step = n, !.snap = "used"] \in TaskRow
  BY Zenon DEF TaskRow

(* A session that is revoked or has expired.                               *)
LEMMA SessionFlagRows ==
    ASSUME NEW r \in SessionRow
    PROVE  /\ [r EXCEPT !.state = "revoked"] \in SessionRow
           /\ [r EXCEPT !.state = "expired"] \in SessionRow
           /\ [r EXCEPT !.state = "revoked", !.due = TRUE] \in SessionRow
  BY DEF SessionRow

(* The control stream after each of its updates.                           *)
LEMMA StreamRows ==
    ASSUME TypeOK
    PROVE  /\ [stream EXCEPT !.seq = @ + 1] \in StreamRow
           /\ [stream EXCEPT !.live = FALSE] \in StreamRow
           /\ \A caps \in SUBSET Kinds : [stream EXCEPT !.caps = caps] \in StreamRow
           /\ stream.epoch < MaxEpoch => \A live \in BOOLEAN :
                 [stream EXCEPT !.epoch = @ + 1, !.live = live, !.caps = {}] \in StreamRow
  <1>1. stream \in StreamRow /\ stream.seq + 1 \in Nat
    BY DEF TypeOK, StreamRow
  <1>2. stream.epoch < MaxEpoch => stream.epoch + 1 \in 0 .. MaxEpoch
    BY <1>1, PhoneAssumption DEF StreamRow
  <1> QED  BY <1>1, <1>2, Zenon DEF StreamRow

(* The methods of the control stream keep the types.                       *)
LEMMA ControlType == ASSUME TypeOK, Control PROVE TypeOK'
  <1> USE PhoneAssumption
  <1>1. CASE OpenControl
    <2>1. session' \in [Sessions -> SessionRow]
      BY <1>1, SessionFlagRows, Zenon DEF TypeOK, OpenControl
    <2>2. task' \in [Tasks -> TaskRow] /\ cmd' \in [Tasks -> [Indices -> CmdRow]]
      BY <1>1, EndTasksRows, EndCmdsRows DEF OpenControl
    <2> QED  BY <1>1, <2>1, <2>2, StreamRows, Zenon DEF TypeOK, OpenControl
  <1>2. CASE CloseControl
    BY <1>2, StreamRows, Zenon DEF TypeOK, CloseControl
  <1>3. ASSUME NEW caps \in Reports, Capabilities(caps) PROVE TypeOK'
    <2>1. [s \in Sessions |-> session[s].gen] \in [Sessions -> 0 .. MaxGen]
      BY DEF TypeOK, SessionRow
    <2>2. /\ session' \in [Sessions -> SessionRow]
          /\ task' \in [Tasks -> TaskRow]
          /\ cmd' \in [Tasks -> [Indices -> CmdRow]]
      BY <1>3, <2>1, EndSessionsType DEF Capabilities
    <2> QED  BY <1>3, <2>2, StreamRows, Zenon DEF TypeOK, Capabilities
  <1>4. ASSUME NEW s \in Sessions, NEW g \in 1 .. MaxGen, StopSession(s, g) PROVE TypeOK'
    <2>1. [x \in Sessions |-> g] \in [Sessions -> 0 .. MaxGen]
      OBVIOUS
    <2>2. /\ session' \in [Sessions -> SessionRow]
          /\ task' \in [Tasks -> TaskRow]
          /\ cmd' \in [Tasks -> [Indices -> CmdRow]]
      BY <1>4, <2>1, EndSessionsType DEF StopSession
    <2> QED  BY <1>4, <2>2 DEF TypeOK, StopSession
  <1>5. ASSUME NEW s \in Sessions, NEW g \in 1 .. MaxGen, NEW grants \in Grants,
               Session(s, g, grants)
        PROVE  TypeOK'
    <2>1. ActiveMirror(g, grants) \in SessionRow
      BY DEF TypeOK, StreamRow, ActiveMirror, SessionRow
    <2>2. \A x \in Sessions : Superseded(x) \in SessionRow
      BY SessionFlagRows, Zenon DEF TypeOK, Superseded
    <2> QED  BY <1>5, <2>1, <2>2 DEF TypeOK, Session
  <1>6. ASSUME NEW D \in SUBSET Tasks, ReconcileParents(D) PROVE TypeOK'
    <2>1. session' \in [Sessions -> SessionRow]
      BY <1>6, SessionFlagRows, Zenon DEF TypeOK, ReconcileParents
    <2> QED  BY <1>6, <2>1, EndTasksRows, EndCmdsRows DEF TypeOK, ReconcileParents
  <1> QED  BY <1>1, <1>2, <1>3, <1>4, <1>5, <1>6 DEF Control

(* Creating, sending, receipts and UI steps keep the types.                *)
LEMMA DispatchType == ASSUME TypeOK, Dispatch PROVE TypeOK'
  <1> USE PhoneAssumption
  <1>1. ASSUME NEW t \in Tasks, NEW s \in Sessions, Create(t, s) \/ CreateUI(t, s) PROVE TypeOK'
    <2>1. Insert(t, s)
      BY <1>1 DEF Create, CreateUI
    <2>2. task' \in [Tasks -> TaskRow] /\ cmd' \in [Tasks -> [Indices -> CmdRow]]
      BY <2>1, NewRows, RowUpdate, IndicesFact DEF Insert
    <2>3. stream' = [stream EXCEPT !.seq = @ + 1] /\ UNCHANGED <<session, sending, reconciled>>
      BY <2>1 DEF Insert
    <2> QED  BY <2>2, <2>3, StreamRows, Zenon DEF TypeOK
  <1>2. ASSUME NEW t \in Tasks, NEW k \in Indices, Next_(t, k) PROVE TypeOK'
    <2>1. task' \in [Tasks -> TaskRow] /\ cmd' \in [Tasks -> [Indices -> CmdRow]]
      BY <1>2, TaskToRow, CmdToRow, RowUpdate, States DEF Next_
    <2> QED  BY <1>2, <2>1 DEF TypeOK, Next_
  <1>3. ASSUME NEW t \in Tasks, NEW k \in Indices, NextExpired(t, k) PROVE TypeOK'
    <2>1. task' \in [Tasks -> TaskRow] /\ cmd' \in [Tasks -> [Indices -> CmdRow]]
      BY <1>3, TaskToRow, CmdToRow, RowUpdate, States DEF NextExpired
    <2> QED  BY <1>3, <2>1 DEF TypeOK, NextExpired
  <1>4. ASSUME NEW t \in Tasks, NEW k \in Indices, Sent(t, k) PROVE TypeOK'
    BY <1>4 DEF TypeOK, Sent
  <1>5. ASSUME NEW t \in Tasks, NEW k \in Indices, DispatchLost(t, k) PROVE TypeOK'
    <2>1. CASE cmd[t][k].state \in InDoubt
      <3>1. /\ task' = [task EXCEPT ![t] = TaskTo(t, "unknown_outcome")]
            /\ cmd' = [cmd EXCEPT ![t][k] = CmdTo(cmd[t][k], "unknown_outcome")]
        BY <1>5, <2>1 DEF DispatchLost
      <3>2. task' \in [Tasks -> TaskRow] /\ cmd' \in [Tasks -> [Indices -> CmdRow]]
        BY <3>1, TaskToRow, CmdToRow, RowUpdate, States
      <3> QED  BY <1>5, <3>2 DEF TypeOK, DispatchLost
    <2>2. CASE cmd[t][k].state \notin InDoubt
      BY <1>5, <2>2 DEF TypeOK, DispatchLost
    <2> QED  BY <2>1, <2>2
  <1>6. ASSUME NEW t \in Tasks, NEW k \in Indices, NEW r \in Receipts, NEW started \in BOOLEAN,
               NEW late \in BOOLEAN, Receipt(t, k, r, started, late)
        PROVE  TypeOK'
    <2> DEFINE c == CommandAfter(cmd[t][k].state, r, started, late)
    <2>1. c \in CmdStates
      BY CommandAfterType, RowUpdate DEF CmdRow
    <2>2. cmd' \in [Tasks -> [Indices -> CmdRow]]
      BY <1>6, <2>1, CmdToRow, RowUpdate DEF Receipt
    <2>3. task' \in [Tasks -> TaskRow]
      <3>1. CASE MayUpdate(t)
        BY <1>6, <3>1, TaskAfterType, TaskToRow, RowUpdate DEF Receipt
      <3>2. CASE ~MayUpdate(t)
        BY <1>6, <3>2 DEF Receipt, TypeOK
      <3> QED  BY <3>1, <3>2
    <2> QED  BY <1>6, <2>2, <2>3 DEF TypeOK, Receipt
  <1>7. ASSUME NEW t \in Tasks, Sync(t) PROVE TypeOK'
    <2>1. [task[t] EXCEPT !.snap = "new"] \in TaskRow
      BY TaskFlagRows, Zenon DEF TypeOK
    <2>2. task' \in [Tasks -> TaskRow]
      BY <1>7, <2>1 DEF TypeOK, Sync
    <2> QED  BY <1>7, <2>2 DEF TypeOK, Sync
  <1>8. ASSUME NEW t \in Tasks, RenewUI(t) PROVE TypeOK'
    <2>1. [task[t] EXCEPT !.lease = 2] \in TaskRow
      <3>1. 2 \in 0 .. 2
        OBVIOUS
      <3> QED  BY <3>1, TaskFlagRows, Zenon DEF TypeOK
    <2> QED  BY <1>8, <2>1 DEF TypeOK, RenewUI
  <1>9. ASSUME NEW t \in Tasks, AdvanceUI(t) PROVE TypeOK'
    <2>1. CASE task[t].step = Steps
      <3>1. task' \in [Tasks -> TaskRow]
        BY <1>9, <2>1, TaskToRow, RowUpdate, IndicesFact, States DEF AdvanceUI
      <3> QED  BY <1>9, <2>1, <3>1 DEF TypeOK, AdvanceUI
    <2>2. CASE task[t].step # Steps
      <3>1. task[t].step \in 0 .. Steps - 1 /\ task[t].step + 2 \in Indices
        BY <2>2 DEF TypeOK, TaskRow, Indices
      <3>2. cmd' \in [Tasks -> [Indices -> CmdRow]]
        <4>1. NewCmd \in CmdRow
          BY NewRows
        <4>2. cmd' = [cmd EXCEPT ![t][task[t].step + 2] = NewCmd]
          BY <1>9, <2>2 DEF AdvanceUI
        <4> QED  BY <3>1, <4>1, <4>2, RowUpdate
      <3>3. task' \in [Tasks -> TaskRow]
        <4>1. task[t].step + 1 \in 0 .. Steps
          BY <3>1
        <4>2. [task[t] EXCEPT !.step = task[t].step + 1, !.snap = "used"] \in TaskRow
          BY <4>1, StepRow DEF TypeOK
        <4>3. task' = [task EXCEPT ![t] =
                         [task[t] EXCEPT !.step = task[t].step + 1, !.snap = "used"]]
          BY <1>9, <2>2 DEF AdvanceUI, TypeOK, TaskRow
        <4> QED  BY <4>2, <4>3 DEF TypeOK
      <3>4. stream' = [stream EXCEPT !.seq = @ + 1] /\ UNCHANGED <<session, sending, reconciled>>
        BY <1>9, <2>2 DEF AdvanceUI
      <3> QED  BY <3>2, <3>3, <3>4, StreamRows, Zenon DEF TypeOK
    <2> QED  BY <2>1, <2>2
  <1> QED  BY <1>1, <1>2, <1>3, <1>4, <1>5, <1>6, <1>7, <1>8, <1>9 DEF Dispatch

(* The sweep keeps the types.                                              *)
LEMMA SweepType == ASSUME TypeOK, Sweep PROVE TypeOK'
  <1>1. \A t \in Tasks : SweptTask(t) \in TaskRow
    <2> TAKE t \in Tasks
    <2> DEFINE r == Ended(t, Doubtful, "expired")
    <2>1. r \in TaskRow
      BY EndedRow
    <2>2. [r EXCEPT !.cancelled = task[t].cancelled] \in TaskRow
      <3> HIDE DEF r
      <3> QED  BY <2>1 DEF TypeOK, TaskRow
    <2> QED  BY <2>1, <2>2 DEF SweptTask, TypeOK
  <1>2. \A t \in Tasks, k \in Indices : SweptCmd(cmd[t][k]) \in CmdRow
    BY EndCmdRow, RowUpdate DEF SweptCmd
  <1>3. \A s \in Sessions : SweptSession(s) \in SessionRow
    BY DEF TypeOK, SweptSession, SessionRow
  <1> QED  BY <1>1, <1>2, <1>3 DEF TypeOK, Sweep

(* The passing of time keeps the types.                                    *)
LEMMA TimeType == ASSUME TypeOK, TimePasses PROVE TypeOK'
  <1>1. ASSUME NEW t \in Tasks, NEW k \in Indices, CommandDue(t, k) PROVE TypeOK'
    <2>1. [cmd[t][k] EXCEPT !.due = TRUE] \in CmdRow
      BY RowUpdate DEF CmdRow
    <2>2. [task[t] EXCEPT !.due = TRUE] \in TaskRow
      BY RowUpdate DEF TaskRow
    <2>3. cmd' \in [Tasks -> [Indices -> CmdRow]]
      BY <1>1, <2>1 DEF CommandDue, TypeOK
    <2>4. task' \in [Tasks -> TaskRow]
      BY <1>1, <2>2 DEF CommandDue, TypeOK
    <2> QED  BY <1>1, <2>3, <2>4 DEF TypeOK, CommandDue
  <1>2. ASSUME NEW t \in Tasks, LeasePasses(t) PROVE TypeOK'
    <2>1. task[t].lease - 1 \in 0 .. 2
      <3>1. task[t].lease \in 0 .. 2
        BY DEF TypeOK, TaskRow
      <3>2. task[t].lease > 0
        BY <1>2 DEF LeasePasses
      <3> QED  BY <3>1, <3>2
    <2>2. [task[t] EXCEPT !.lease = task[t].lease - 1] \in TaskRow
      BY <2>1, TaskFlagRows, Zenon DEF TypeOK
    <2> QED  BY <1>2, <2>2 DEF TypeOK, LeasePasses
  <1>3. ASSUME NEW t \in Tasks, TaskDue(t) PROVE TypeOK'
    <2>1. [task[t] EXCEPT !.due = TRUE, !.lease = 0, !.content = FALSE] \in TaskRow
      <3>1. 0 \in 0 .. 2
        OBVIOUS
      <3> QED  BY <3>1, TaskFlagRows, Zenon DEF TypeOK
    <2>2. \A k \in Indices :
            [cmd[t][k] EXCEPT !.due = @ \/ cmd[t][k].state \in {"queued"} \cup InDoubt] \in CmdRow
      BY RowUpdate, Zenon DEF CmdRow
    <2>3. task' \in [Tasks -> TaskRow]
      BY <1>3, <2>1 DEF TaskDue, TypeOK
    <2>4. cmd' \in [Tasks -> [Indices -> CmdRow]]
      BY <1>3, <2>2 DEF TaskDue, TypeOK
    <2> QED  BY <1>3, <2>3, <2>4, Zenon DEF TypeOK, TaskDue
  <1>4. ASSUME NEW t \in Tasks, SnapshotStale(t) PROVE TypeOK'
    BY <1>4, TaskFlagRows, Zenon DEF TypeOK, SnapshotStale
  <1>5. ASSUME NEW s \in Sessions, SessionDue(s) PROVE TypeOK'
    <2>1. [session[s] EXCEPT !.due = TRUE] \in SessionRow
      BY Zenon DEF TypeOK, SessionRow
    <2>2. session' \in [Sessions -> SessionRow]
      BY <1>5, <2>1 DEF TypeOK, SessionDue
    <2> QED  BY <1>5, <2>2 DEF TypeOK, SessionDue
  <1> QED  BY <1>1, <1>2, <1>3, <1>4, <1>5 DEF TimePasses

(* Invalidation, restarts and ended origins keep the types.                *)
LEMMA FailureType == ASSUME TypeOK, Failures PROVE TypeOK'
  <1>1. CASE InvalidateDeviceState
    <2>1. session' \in [Sessions -> SessionRow]
      BY <1>1, SessionFlagRows, Zenon DEF TypeOK, InvalidateDeviceState
    <2>2. task' \in [Tasks -> TaskRow] /\ cmd' \in [Tasks -> [Indices -> CmdRow]]
      <3>1. task' = EndTasks(Tasks, Doubtful) /\ cmd' = EndCmds(Tasks)
        BY <1>1, Zenon DEF InvalidateDeviceState
      <3> QED  BY <3>1, EndTasksRows, EndCmdsRows
    <2> QED  BY <1>1, <2>1, <2>2, StreamRows, Zenon DEF TypeOK, InvalidateDeviceState
  <1>2. CASE Restart
    BY <1>2, TaskFlagRows, Zenon DEF TypeOK, Restart
  <1>3. ASSUME NEW t \in Tasks, OriginEnds(t) PROVE TypeOK'
    <2>1. [task[t] EXCEPT !.origin = FALSE] \in TaskRow
      BY Zenon DEF TypeOK, TaskRow
    <2>2. task' \in [Tasks -> TaskRow]
      BY <1>3, <2>1 DEF TypeOK, OriginEnds
    <2> QED  BY <1>3, <2>2 DEF TypeOK, OriginEnds
  <1> QED  BY <1>1, <1>2, <1>3 DEF Failures

(* Every step keeps the types.                                             *)
LEMMA TypeStep == TypeOK /\ [Next]_vars => TypeOK'
  <1>1. CASE UNCHANGED vars
    BY <1>1 DEF TypeOK, vars
  <1> QED
    BY <1>1, ControlType, DispatchType, SweepType, TimeType, FailureType DEF Next

(* Every row keeps the shape of its table, whatever the phone reports. *)
THEOREM TypeCorrect == Spec => []TypeOK
  <1>1. Init => TypeOK
    BY NoRows, PhoneAssumption DEF Init, TypeOK, StreamRow
  <1> QED  BY <1>1, TypeStep, PTL DEF Spec

(***************************************************************************)
(* The inductive invariant: the commands of a task, in the order of its    *)
(* steps, against its state.  No property is inductive by itself: that a   *)
(* dispatch is not repeated needs Ordered for the rows it overwrites, that *)
(* nothing queued outlives its task needs Deadlines when the task is swept.*)
(***************************************************************************)
Ordered ==
    \A t \in Tasks, k \in Indices :
        /\ cmd[t][k].state # "none" <=> task[t].state # "none" /\ k <= task[t].step + 1
        /\ cmd[t][k].state # "none" => \A i \in 1 .. k - 1 : cmd[t][i].state = "succeeded"

PendingOpen == \A t \in Tasks, k \in Indices : cmd[t][k].state \in Pending => Open(t)

Blank ==
    \A t \in Tasks :
        /\ task[t].state = "none" => task[t].cancelled = FALSE
        /\ ~UI(t) => task[t].step = 0

Core ==
    /\ Ordered
    /\ PendingOpen
    /\ Blank
    /\ QueuedFenced
    /\ SystemTruthful
    /\ ExclusiveUI
    /\ UISuccessComplete

(* A deadline passes for a task only after it has passed for what waits. *)
Deadlines ==
    \A t \in Tasks : Open(t) =>
        /\ task[t].due \/ (UI(t) /\ task[t].lease = 0) => AllDue(t)
        /\ UI(t) /\ task[t].due => task[t].lease = 0
        /\ ~UI(t) => task[t].due = cmd[t][1].due

(* What one step does to a command and to a task. *)
CmdStep ==
    \A t \in Tasks, k \in Indices :
        /\ cmd[t][k].state \notin {"none", "queued"} => cmd'[t][k].state # "queued"
        /\ cmd[t][k].state \in Settled => cmd'[t][k].state = cmd[t][k].state

TaskStep ==
    \A t \in Tasks :
        /\ task[t].state \in Settled => task'[t].state = task[t].state
        /\ task[t].state = "unknown_outcome" => task'[t].state \notin Active
        /\ task[t].cancelled => task'[t].cancelled

Step == Core' /\ Deadlines' /\ CmdStep /\ TaskStep

(* A task with an unsettled command has no other one to be sent. *)
LEMMA OnlyOne ==
    ASSUME TypeOK, Ordered, NEW t \in Tasks, NEW k \in Indices,
           cmd[t][k].state \notin {"none", "succeeded"}
    PROVE  /\ \A i \in Indices : i < k => cmd[t][i].state = "succeeded"
           /\ \A i \in Indices : i > k => cmd[t][i].state = "none"
           /\ task[t].state # "none" /\ k <= task[t].step + 1
  <1>1. \A i \in Indices : i < k => cmd[t][i].state = "succeeded"
    BY DEF Ordered, Indices
  <1>2. \A i \in Indices : i > k => cmd[t][i].state = "none"
    BY DEF Ordered, Indices
  <1> QED  BY <1>1, <1>2 DEF Ordered

(* A read or a system task has one command.                                *)
LEMMA SystemOne ==
    ASSUME TypeOK, Core, NEW t \in Tasks, ~UI(t), NEW k \in Indices, cmd[t][k].state # "none"
    PROVE  k = 1
  BY IndicesFact DEF Core, Ordered, Blank, Indices

(***************************************************************************)
(* Steps that end a set of tasks.                                          *)
(***************************************************************************)
LEMMA EndStep ==
    ASSUME TypeOK, Core, Deadlines, NEW D, NEW states \in {InDoubt, Doubtful},
           task' = EndTasks(D, states), cmd' = EndCmds(D),
           stream'.epoch = stream.epoch \/ Tasks \subseteq D
    PROVE  Step
  <1> USE IndicesFact
  <1>1. \A t \in Tasks :
           /\ task'[t].session = task[t].session /\ task'[t].gen = task[t].gen
           /\ task'[t].step = task[t].step
           /\ ~(t \in D /\ Open(t)) => task'[t] = task[t]
           /\ t \in D /\ Open(t) =>
                /\ task'[t].state = IF Uncertain(t, states) THEN "unknown_outcome" ELSE "cancelled"
                /\ task'[t].cancelled = TRUE
    <2> TAKE t \in Tasks
    <2> DEFINE r == EndTasks(D, states)[t]
    <2>1. /\ r.session = task[t].session /\ r.gen = task[t].gen /\ r.step = task[t].step
          /\ ~(t \in D /\ Open(t)) => r = task[t]
          /\ t \in D /\ Open(t) =>
                /\ r.state = IF Uncertain(t, states) THEN "unknown_outcome" ELSE "cancelled"
                /\ r.cancelled = TRUE
      BY EndTasksRow
    <2>2. task'[t] = r
      OBVIOUS
    <2> QED  BY <2>1, <2>2, Zenon
  <1>2. \A t \in Tasks, k \in Indices :
           /\ t \notin D => cmd'[t][k] = cmd[t][k]
           /\ t \in D /\ cmd[t][k].state \in InDoubt => cmd'[t][k].state = "unknown_outcome"
           /\ t \in D /\ cmd[t][k].state = "queued" => cmd'[t][k].state = "cancelled"
           /\ cmd[t][k].state \notin Pending => cmd'[t][k] = cmd[t][k]
    BY EndCmdsRows, EndCmdRow, RowUpdate
  <1>3. \A t \in Tasks : ~Open(t) => ~Open(t)'
    BY <1>1 DEF Open
  <1>4. \A t \in Tasks : t \in D => ~Open(t)'
    BY <1>1 DEF Open, Active
  <1>5. Ordered'
    <2>1. \A t \in Tasks : task'[t].state # "none" <=> task[t].state # "none"
      BY <1>1 DEF Open, Active
    <2>2. \A t \in Tasks, k \in Indices :
             /\ cmd'[t][k].state # "none" <=> cmd[t][k].state # "none"
             /\ cmd[t][k].state = "succeeded" => cmd'[t][k].state = "succeeded"
      BY <1>2 DEF Pending, InDoubt
    <2> QED  BY <1>1, <2>1, <2>2, PhoneAssumption DEF Core, Ordered, Indices
  <1>6. PendingOpen'
    BY <1>1, <1>2 DEF Core, PendingOpen, Pending, InDoubt, Open
  <1>7. Blank'
    BY <1>1 DEF Core, Blank, Open, Active, UI
  <1>8. QueuedFenced'
    BY <1>1, <1>2 DEF Core, QueuedFenced, Pending, InDoubt
  <1>9. SystemTruthful'
    <2> SUFFICES ASSUME NEW t \in Tasks, ~UI(t), t \in D
                 PROVE  /\ cmd'[t][1].state \in {"none", "queued", "unknown_outcome"} \cup Settled
                              => task'[t].state = cmd'[t][1].state
                        /\ cmd'[t][1].state \in InDoubt => task'[t].state \in {"running", "awaiting"}
      BY <1>1, <1>2 DEF Core, SystemTruthful, UI
    <2>1. /\ cmd[t][1].state \in {"none", "queued", "unknown_outcome"} \cup Settled
                => task[t].state = cmd[t][1].state
          /\ cmd[t][1].state \in InDoubt => task[t].state \in {"running", "awaiting"}
          /\ cmd[t][1].state \in CmdStates
      BY RowUpdate DEF Core, SystemTruthful, CmdRow
    <2>2. CASE cmd[t][1].state \in InDoubt
      <3>1. Open(t) /\ Uncertain(t, states)
        BY <2>1, <2>2 DEF Open, Active, Uncertain, Doubtful
      <3> QED  BY <1>1, <1>2, <2>2, <3>1 DEF InDoubt
    <2>3. CASE cmd[t][1].state = "queued"
      <3>1. \A k \in Indices : k # 1 => cmd[t][k].state = "none"
        BY SystemOne
      <3>2. Open(t) /\ ~Uncertain(t, states)
        BY <2>1, <2>3, <3>1 DEF Open, Active, Uncertain, Doubtful, InDoubt
      <3> QED  BY <1>1, <1>2, <2>3, <3>2 DEF InDoubt
    <2>4. CASE cmd[t][1].state \notin Pending
      <3>1. ~Open(t)
        BY <2>1, <2>4 DEF Open, Active, Pending, InDoubt, CmdStates, Settled
      <3> QED  BY <1>1, <1>2, <2>1, <2>4, <3>1
    <2> QED  BY <2>2, <2>3, <2>4 DEF Pending
  <1>10. ExclusiveUI'
    BY <1>1 DEF Core, ExclusiveUI, SameMirror, Open, UI
  <1>11. UISuccessComplete'
    BY <1>1, <1>2 DEF Core, UISuccessComplete, UI, Pending, InDoubt
  <1>12. Deadlines'
    BY <1>1, <1>2, <1>3, <1>4 DEF Deadlines, Open, AllDue, UI
  <1>13. CmdStep
    BY <1>2 DEF CmdStep, Pending, InDoubt, Settled
  <1>14. TaskStep
    BY <1>1 DEF TaskStep, Open, Active, Settled
  <1> QED
    BY <1>5, <1>6, <1>7, <1>8, <1>9, <1>10, <1>11, <1>12, <1>13, <1>14 DEF Step, Core

(***************************************************************************)
(* Steps that move one command that is not settled, and with it its task.  *)
(***************************************************************************)
LEMMA CommandStep ==
    ASSUME TypeOK, Core, Deadlines, NEW t \in Tasks, NEW k \in Indices,
           NEW c \in CmdRow, NEW r \in TaskRow,
           cmd' = [cmd EXCEPT ![t][k] = c], task' = [task EXCEPT ![t] = r],
           stream'.epoch = stream.epoch,
           cmd[t][k].state \in Pending \cup {"unknown_outcome"},
           c.state \in InDoubt \cup {"unknown_outcome"} \cup Settled,
           cmd[t][k].state = "unknown_outcome" => c.state \in Settled,
           c.state \in InDoubt => r.state \in Active /\ c.due = cmd[t][k].due,
           r.state # "none",
           r.session = task[t].session, r.gen = task[t].gen, r.step = task[t].step,
           r.cancelled = task[t].cancelled,
           r.state \in Active => r.due = task[t].due /\ r.lease = task[t].lease,
           UI(t) => (Open(t) /\ r.state # "succeeded") \/ r = task[t],
           ~UI(t) => /\ c.state \in InDoubt => r.state \in {"running", "awaiting"}
                     /\ c.state \notin InDoubt => r.state = c.state
    PROVE  Step
  <1> USE IndicesFact
  <1>1. \A u \in Tasks : task'[u] = IF u = t THEN r ELSE task[u]
    BY DEF TypeOK
  <1>2. \A u \in Tasks, i \in Indices : cmd'[u][i] = IF u = t /\ i = k THEN c ELSE cmd[u][i]
    BY DEF TypeOK
  <1>3. cmd[t][k].state \notin {"none", "succeeded", "queued"} \cup Settled \/ cmd[t][k].state = "queued"
    BY DEF Pending, InDoubt, Settled
  <1>4. /\ \A i \in Indices : i < k => cmd[t][i].state = "succeeded"
        /\ \A i \in Indices : i > k => cmd[t][i].state = "none"
        /\ task[t].state # "none" /\ k <= task[t].step + 1
    BY <1>3, OnlyOne DEF Core
  <1>5. c.state # "none" /\ c.state # "queued"
    BY DEF InDoubt, Settled
  <1>6. \A i \in Indices : i # k => cmd[t][i].state \in {"none", "succeeded"}
    BY <1>4 DEF Indices
  <1>7. Ordered'
    <2>1. \A u \in Tasks : /\ task'[u].state # "none" <=> task[u].state # "none"
                           /\ task'[u].step = task[u].step
      BY <1>1, <1>4
    <2>2. \A u \in Tasks, i \in Indices : cmd'[u][i].state # "none" <=> cmd[u][i].state # "none"
      BY <1>2, <1>3, <1>5
    <2>3. \A u \in Tasks, i \in Indices : cmd[u][i].state = "succeeded" => cmd'[u][i].state = "succeeded"
      BY <1>2, <1>3
    <2> QED  BY <2>1, <2>2, <2>3, PhoneAssumption DEF Core, Ordered, Indices
  <1>8. PendingOpen'
    BY <1>1, <1>2, <1>5, <1>6 DEF Core, PendingOpen, Pending, InDoubt, Open
  <1>9. Blank'
    BY <1>1 DEF Core, Blank, UI
  <1>10. QueuedFenced'
    BY <1>1, <1>2, <1>5, <1>6 DEF Core, QueuedFenced
  <1>11. SystemTruthful'
    <2>1. CASE UI(t)
      BY <1>1, <1>2, <2>1 DEF Core, SystemTruthful, UI
    <2>2. CASE ~UI(t)
      <3>1. k = 1
        BY <1>3, <2>2, SystemOne
      <3>2. /\ c.state \in {"none", "queued", "unknown_outcome"} \cup Settled => r.state = c.state
            /\ c.state \in InDoubt => r.state \in {"running", "awaiting"}
        BY <1>5, <2>2 DEF InDoubt, Settled
      <3>3. cmd'[t][1] = c /\ task'[t] = r
        BY <1>1, <1>2, <3>1
      <3>4. \A u \in Tasks : u # t => cmd'[u][1] = cmd[u][1] /\ task'[u] = task[u]
        BY <1>1, <1>2
      <3> QED  BY <3>2, <3>3, <3>4 DEF Core, SystemTruthful, UI
    <2> QED  BY <2>1, <2>2
  <1>12. ExclusiveUI'
    BY <1>1 DEF Core, ExclusiveUI, SameMirror, Open, UI
  <1>13. UISuccessComplete'
    BY <1>1, <1>2, <1>3 DEF Core, UISuccessComplete, UI, Open, Active, Settled
  <1>14. CmdStep
    BY <1>2, <1>3, <1>5 DEF CmdStep, Settled, Pending, InDoubt
  <1>15. TaskStep
    <2>1. CASE UI(t)
      BY <1>1, <2>1 DEF TaskStep, Open, Active, Settled
    <2>2. CASE ~UI(t)
      <3>1. k = 1
        BY <1>3, <2>2, SystemOne
      <3>2. cmd[t][1].state = task[t].state \/ Open(t)
        BY <2>2, <3>1 DEF Core, SystemTruthful, Pending, InDoubt, Open, Active
      <3>3. task[t].state \notin Settled
        BY <1>3, <3>1, <3>2 DEF Open, Active, Settled
      <3>4. task[t].state = "unknown_outcome" => r.state \notin Active
        BY <2>2, <3>1, <3>2 DEF Open, Active, Settled, InDoubt
      <3> QED  BY <1>1, <3>3, <3>4 DEF TaskStep, Active
    <2> QED  BY <2>1, <2>2
  <1>16. Deadlines'
    <2> SUFFICES ASSUME r.state \in Active
                 PROVE  /\ r.due \/ (UI(t) /\ r.lease = 0) => AllDue(t)'
                        /\ UI(t) /\ r.due => r.lease = 0
                        /\ ~UI(t) => r.due = cmd'[t][1].due
      BY <1>1, <1>2 DEF Deadlines, Open, AllDue, UI
    <2>1. Open(t)
      <3>1. CASE UI(t)
        BY <3>1 DEF Open
      <3>2. CASE ~UI(t)
        <4>1. k = 1 /\ cmd[t][k].state \in Pending
          BY <1>3, <3>2, SystemOne DEF Active, Settled, InDoubt
        <4> QED  BY <4>1 DEF Core, PendingOpen
      <3> QED  BY <3>1, <3>2
    <2>2. AllDue(t) => AllDue(t)'
      <3>1. c.state \in InDoubt => cmd[t][k].state \in Pending
        BY DEF InDoubt, Settled
      <3> QED  BY <1>2, <1>5, <3>1 DEF AllDue, Pending
    <2>3. ~UI(t) => c.due = cmd[t][k].due /\ k = 1
      BY <1>3, SystemOne DEF Active, Settled, InDoubt
    <2> QED  BY <1>2, <2>1, <2>2, <2>3 DEF Deadlines
  <1> QED
    BY <1>7, <1>8, <1>9, <1>10, <1>11, <1>12, <1>13, <1>14, <1>15, <1>16 DEF Step, Core

(* Steps that change flags: states, sessions and steps stay as they are. *)
SameStates ==
    /\ stream'.epoch = stream.epoch
    /\ \A t \in Tasks :
          /\ task'[t].state = task[t].state /\ task'[t].cancelled = task[t].cancelled
          /\ task'[t].session = task[t].session /\ task'[t].gen = task[t].gen
          /\ task'[t].step = task[t].step
    /\ \A t \in Tasks, k \in Indices :
          cmd'[t][k].state = cmd[t][k].state /\ cmd'[t][k].epoch = cmd[t][k].epoch

(* A step that changes no state keeps the core, and no command moves.      *)
LEMMA FlagStep ==
    ASSUME TypeOK, Core, SameStates
    PROVE  Core' /\ CmdStep /\ TaskStep
  <1> USE IndicesFact DEF SameStates
  <1>1. Ordered'
    BY PhoneAssumption DEF Core, Ordered, Indices
  <1>2. PendingOpen' /\ Blank' /\ QueuedFenced'
    BY DEF Core, PendingOpen, Blank, QueuedFenced, Open, UI
  <1>3. SystemTruthful'
    BY DEF Core, SystemTruthful, UI
  <1>4. ExclusiveUI' /\ UISuccessComplete'
    BY DEF Core, ExclusiveUI, SameMirror, UISuccessComplete, UI
  <1>5. CmdStep /\ TaskStep
    BY DEF CmdStep, TaskStep, Settled, Active
  <1> QED  BY <1>1, <1>2, <1>3, <1>4, <1>5 DEF Core

(* Steps that leave the tasks and their commands alone. *)
LEMMA IdleStep ==
    ASSUME TypeOK, Core, Deadlines, UNCHANGED <<task, cmd>>, stream'.epoch = stream.epoch
    PROVE  Step
  <1>1. SameStates
    BY DEF SameStates
  <1>2. Deadlines'
    BY DEF Deadlines, Open, AllDue, UI
  <1> QED  BY <1>1, <1>2, FlagStep DEF Step

(***************************************************************************)
(* The actions.                                                            *)
(***************************************************************************)
LEMMA ControlStep == ASSUME TypeOK, Core, Deadlines, Control PROVE Step
  <1>1. CASE OpenControl
    <2>1. task' = EndTasks(Tasks, InDoubt) /\ cmd' = EndCmds(Tasks)
      BY <1>1 DEF OpenControl
    <2> QED  BY <2>1, EndStep
  <1>2. CASE CloseControl
    BY <1>2, IdleStep DEF CloseControl, TypeOK, StreamRow
  <1>3. ASSUME NEW caps \in Reports, Capabilities(caps) PROVE Step
    <2> DEFINE T == OfSession(Reduced(caps))
    <2>1. task' = EndTasks(T, Doubtful) /\ cmd' = EndCmds(T)
      BY <1>3, Zenon DEF Capabilities, EndSessions
    <2>2. stream'.epoch = stream.epoch
      BY <1>3 DEF Capabilities, TypeOK, StreamRow
    <2> HIDE DEF T
    <2> QED  BY <2>1, <2>2, EndStep
  <1>4. ASSUME NEW s \in Sessions, NEW g \in 1 .. MaxGen, StopSession(s, g) PROVE Step
    <2> DEFINE T == OfSession({s})
    <2>1. task' = EndTasks(T, Doubtful) /\ cmd' = EndCmds(T)
      BY <1>4, Zenon DEF StopSession, EndSessions
    <2>2. stream'.epoch = stream.epoch
      BY <1>4 DEF StopSession
    <2> HIDE DEF T
    <2> QED  BY <2>1, <2>2, EndStep
  <1>5. ASSUME NEW s \in Sessions, NEW g \in 1 .. MaxGen, NEW grants \in Grants,
               Session(s, g, grants)
        PROVE  Step
    BY <1>5, IdleStep DEF Session
  <1>6. ASSUME NEW D \in SUBSET Tasks, ReconcileParents(D) PROVE Step
    <2>1. task' = EndTasks(D, Doubtful) /\ cmd' = EndCmds(D) /\ stream'.epoch = stream.epoch
      BY <1>6 DEF ReconcileParents
    <2> QED  BY <2>1, EndStep
  <1> QED  BY <1>1, <1>2, <1>3, <1>4, <1>5, <1>6 DEF Control

(* A task is created: no UI task shares its session generation.            *)
LEMMA InsertStep ==
    ASSUME TypeOK, Core, Deadlines, NEW t \in Tasks, NEW s \in Sessions, Insert(t, s),
           UI(t) => ~\E u \in Tasks : HoldsUI(u, s, session[s].gen)
    PROVE  Step
  <1> USE IndicesFact
  <1>1. /\ task[t].state = "none" /\ \A k \in Indices : cmd[t][k].state = "none"
        /\ task[t].cancelled = FALSE
    BY DEF Insert, Core, Ordered, Blank
  <1>2. \A u \in Tasks : task'[u] = IF u = t THEN NewTask(s) ELSE task[u]
    BY DEF Insert, TypeOK
  <1>3. \A u \in Tasks, i \in Indices : cmd'[u][i] = IF u = t /\ i = 1 THEN NewCmd ELSE cmd[u][i]
    BY DEF Insert, TypeOK
  <1>4. /\ NewTask(s).state = "queued" /\ NewTask(s).cancelled = FALSE /\ NewTask(s).step = 0
        /\ NewTask(s).due = FALSE /\ NewTask(s).lease = 2
        /\ NewTask(s).session = s /\ NewTask(s).gen = session[s].gen
    BY DEF NewTask
  <1>5. NewCmd.state = "queued" /\ NewCmd.epoch = stream.epoch /\ NewCmd.due = FALSE
    BY DEF NewCmd
  <1>6. stream'.epoch = stream.epoch
    BY DEF Insert, TypeOK, StreamRow
  <1>7. Ordered'
    BY <1>1, <1>2, <1>3, <1>4, <1>5, PhoneAssumption DEF Core, Ordered, Indices
  <1>8. PendingOpen' /\ Blank' /\ QueuedFenced'
    BY <1>1, <1>2, <1>3, <1>4, <1>5, <1>6
       DEF Core, PendingOpen, Blank, QueuedFenced, Open, Active, UI, Pending, InDoubt
  <1>9. SystemTruthful'
    BY <1>2, <1>3, <1>4, <1>5 DEF Core, SystemTruthful, UI, InDoubt
  <1>10. ExclusiveUI'
    BY <1>2, <1>4 DEF Core, ExclusiveUI, SameMirror, HoldsUI, UI
  <1>11. UISuccessComplete'
    BY <1>2, <1>3, <1>4 DEF Core, UISuccessComplete, UI
  <1>12. Deadlines'
    <2>1. \A u \in Tasks : u # t => task'[u] = task[u] /\ \A i \in Indices : cmd'[u][i] = cmd[u][i]
      BY <1>2, <1>3
    <2>2. task'[t].due = FALSE /\ task'[t].lease # 0 /\ cmd'[t][1].due = FALSE
      BY <1>2, <1>3, <1>4, <1>5
    <2> SUFFICES ASSUME NEW u \in Tasks, Open(u)'
                 PROVE  /\ task'[u].due \/ (UI(u) /\ task'[u].lease = 0) => AllDue(u)'
                        /\ UI(u) /\ task'[u].due => task'[u].lease = 0
                        /\ ~UI(u) => task'[u].due = cmd'[u][1].due
      BY DEF Deadlines, UI
    <2>3. CASE u = t
      BY <2>2, <2>3, Zenon
    <2>4. CASE u # t
      <3>1. task'[u] = task[u] /\ cmd'[u][1] = cmd[u][1]
        BY <2>1, <2>4
      <3>2. Open(u) /\ (AllDue(u) => AllDue(u)')
        BY <2>1, <2>4, <3>1 DEF Open, AllDue
      <3>3. /\ task[u].due \/ (UI(u) /\ task[u].lease = 0) => AllDue(u)
            /\ UI(u) /\ task[u].due => task[u].lease = 0
            /\ ~UI(u) => task[u].due = cmd[u][1].due
        BY <3>2 DEF Deadlines
      <3> QED  BY <3>1, <3>2, <3>3, Zenon
    <2> QED  BY <2>3, <2>4
  <1>13. CmdStep /\ TaskStep
    BY <1>1, <1>2, <1>3 DEF CmdStep, TaskStep, Settled, Active
  <1> QED
    BY <1>7, <1>8, <1>9, <1>10, <1>11, <1>12, <1>13 DEF Step, Core

(* A UI task goes on after its command succeeded, or ends with the last.   *)
LEMMA AdvanceStep ==
    ASSUME TypeOK, Core, Deadlines, NEW t \in Tasks, AdvanceUI(t)
    PROVE  Step
  <1> USE IndicesFact
  <1>1. UI(t) /\ Open(t) /\ task[t].state = "running" /\ task[t].cancelled = FALSE
    BY DEF AdvanceUI, Open, Active, TypeOK, TaskRow
  <1>2. task[t].lease # 0 /\ task[t].due = FALSE
    BY <1>1 DEF AdvanceUI, ParentsLive, UILeaseLive, TypeOK, TaskRow, Deadlines
  <1>3. \A k \in Indices : k <= task[t].step + 1 => cmd[t][k].state = "succeeded"
    BY <1>1 DEF AdvanceUI, NoPending, Core, Ordered
  <1>4. CASE task[t].step = Steps
    <2> DEFINE r == TaskTo(t, "succeeded")
    <2>1. /\ r.state = "succeeded" /\ r.cancelled = task[t].cancelled
          /\ r.session = task[t].session /\ r.gen = task[t].gen /\ r.step = task[t].step
      BY TaskToRow, States
    <2>2. \A u \in Tasks : task'[u] = IF u = t THEN r ELSE task[u]
      BY <1>4 DEF AdvanceUI, TypeOK
    <2>3. cmd' = cmd /\ stream'.epoch = stream.epoch
      BY <1>4 DEF AdvanceUI
    <2>4. \A k \in Indices : cmd[t][k].state = "succeeded"
      BY <1>3, <1>4, PhoneAssumption DEF Indices
    <2> HIDE DEF r
    <2>5. Ordered'
      BY <1>1, <2>1, <2>2, <2>3 DEF Core, Ordered
    <2>6. PendingOpen' /\ Blank' /\ QueuedFenced'
      BY <1>1, <2>1, <2>2, <2>3, <2>4
         DEF Core, PendingOpen, Blank, QueuedFenced, Open, UI, Pending, InDoubt
    <2>7. SystemTruthful'
      BY <1>1, <2>2, <2>3 DEF Core, SystemTruthful, UI
    <2>8. ExclusiveUI'
      BY <2>1, <2>2 DEF Core, ExclusiveUI, SameMirror, UI, Active
    <2>9. UISuccessComplete'
      BY <2>2, <2>3, <2>4 DEF Core, UISuccessComplete, UI
    <2>10. Deadlines'
      BY <2>1, <2>2, <2>3 DEF Deadlines, Open, Active, AllDue, UI
    <2>11. CmdStep /\ TaskStep
      BY <1>1, <2>1, <2>2, <2>3 DEF CmdStep, TaskStep, Settled, Active
    <2> QED  BY <2>5, <2>6, <2>7, <2>8, <2>9, <2>10, <2>11 DEF Step, Core
  <1>5. CASE task[t].step # Steps
    <2> DEFINE n == task[t].step + 2
    <2>1. n \in Indices /\ n # 1 /\ task[t].step \in Nat
      BY <1>5, PhoneAssumption DEF TypeOK, TaskRow, Indices
    <2>2. \A u \in Tasks : u # t => task'[u] = task[u]
      BY <1>5 DEF AdvanceUI, TypeOK
    <2>3. /\ task'[t].state = "running" /\ task'[t].cancelled = FALSE
          /\ task'[t].session = task[t].session /\ task'[t].gen = task[t].gen
          /\ task'[t].step = task[t].step + 1
          /\ task'[t].lease = task[t].lease /\ task'[t].due = FALSE
      BY <1>1, <1>2, <1>5 DEF AdvanceUI, TypeOK, TaskRow
    <2>4. \A u \in Tasks, i \in Indices : cmd'[u][i] = IF u = t /\ i = n THEN NewCmd ELSE cmd[u][i]
      BY <1>5, <2>1 DEF AdvanceUI, TypeOK
    <2>5. stream'.epoch = stream.epoch
      BY <1>5 DEF AdvanceUI, TypeOK, StreamRow
    <2>6. NewCmd.state = "queued" /\ NewCmd.epoch = stream.epoch
      BY DEF NewCmd
    <2>7. cmd[t][n].state = "none" /\ \A i \in Indices : i < n => cmd[t][i].state = "succeeded"
      BY <1>3, <2>1 DEF Core, Ordered, Indices
    <2>8. Ordered'
      <3> SUFFICES ASSUME NEW u \in Tasks, NEW k \in Indices
                   PROVE  /\ cmd'[u][k].state # "none" <=> task'[u].state # "none" /\ k <= task'[u].step + 1
                          /\ cmd'[u][k].state # "none" => \A i \in 1 .. k - 1 : cmd'[u][i].state = "succeeded"
        BY DEF Ordered
      <3>1. CASE u # t
        BY <2>2, <2>4, <3>1, PhoneAssumption DEF Core, Ordered, Indices
      <3>2. CASE u = t
        <4>1. cmd[t][k].state # "none" <=> k < n
          BY <1>1, <2>1 DEF Core, Ordered, Indices
        <4>2. cmd'[t][k].state # "none" <=> k <= n
          BY <2>1, <2>4, <2>6, <4>1 DEF Indices
        <4>3. \A i \in Indices : i < n => cmd'[t][i].state = "succeeded"
          BY <2>4, <2>7, <2>1 DEF Indices
        <4> QED  BY <2>1, <2>3, <3>2, <4>2, <4>3, PhoneAssumption DEF Indices
      <3> QED  BY <3>1, <3>2
    <2>9. PendingOpen' /\ Blank' /\ QueuedFenced'
      BY <1>1, <2>2, <2>3, <2>4, <2>5, <2>6
         DEF Core, PendingOpen, Blank, QueuedFenced, Open, Active, UI, Pending, InDoubt
    <2>10. SystemTruthful'
      BY <1>1, <2>1, <2>2, <2>4 DEF Core, SystemTruthful, UI
    <2>11. ExclusiveUI'
      BY <1>1, <2>2, <2>3 DEF Core, ExclusiveUI, SameMirror, UI, Active
    <2>12. UISuccessComplete'
      BY <2>2, <2>3, <2>4 DEF Core, UISuccessComplete, UI
    <2>13. Deadlines'
      BY <1>1, <1>2, <2>1, <2>2, <2>3, <2>4 DEF Deadlines, Open, AllDue, UI
    <2>14. CmdStep /\ TaskStep
      BY <1>1, <2>2, <2>3, <2>4, <2>7 DEF CmdStep, TaskStep, Settled, Active
    <2> QED  BY <2>8, <2>9, <2>10, <2>11, <2>12, <2>13, <2>14 DEF Step, Core
  <1> QED  BY <1>4, <1>5

(* A receipt settles a command and what it says of its task.               *)
LEMMA ReceiptStep ==
    ASSUME TypeOK, Core, Deadlines, NEW t \in Tasks, NEW k \in Indices, NEW e \in Receipts,
           NEW started \in BOOLEAN, NEW late \in BOOLEAN, Receipt(t, k, e, started, late)
    PROVE  Step
  <1> USE IndicesFact
  <1> DEFINE old == cmd[t][k].state
             s == CommandAfter(old, e, started, late)
             c == CmdTo(cmd[t][k], s)
             x == TaskAfter(t, e, s)
             r == IF MayUpdate(t) THEN TaskTo(t, x) ELSE task[t]
  <1>1. s \in CmdStates /\ x \in TaskStates /\ old \in CmdStates
    BY CommandAfterType, TaskAfterType, RowUpdate DEF CmdRow
  <1>2. c \in CmdRow /\ c.state = s /\ c.due = (s \in InDoubt /\ cmd[t][k].due)
    BY <1>1, RowUpdate, CmdToRow
  <1>3. /\ r \in TaskRow /\ r.session = task[t].session /\ r.gen = task[t].gen
        /\ r.step = task[t].step /\ r.cancelled = task[t].cancelled
        /\ r.state \in Active => r.due = task[t].due /\ r.lease = task[t].lease
        /\ r.state = IF MayUpdate(t) THEN x ELSE task[t].state
    <2>1. CASE MayUpdate(t)
      BY <1>1, <2>1, TaskToRow
    <2>2. CASE ~MayUpdate(t)
      BY <2>2, RowUpdate
    <2> QED  BY <2>1, <2>2
  <1>4. cmd' = [cmd EXCEPT ![t][k] = c] /\ task' = [task EXCEPT ![t] = r]
    <2>1. cmd' = [cmd EXCEPT ![t][k] = c]
      BY DEF Receipt
    <2>2. CASE MayUpdate(t)
      BY <2>1, <2>2 DEF Receipt
    <2>3. CASE ~MayUpdate(t)
      <3>1. task' = task
        BY <2>3 DEF Receipt
      <3> QED  BY <2>1, <2>3, <3>1 DEF TypeOK
    <2> QED  BY <2>2, <2>3
  <1>5. /\ old \in Pending \cup {"unknown_outcome"} /\ old # "queued"
        /\ old = "unknown_outcome" => s \notin {"unknown_outcome", "started"}
    BY <1>1 DEF Receipt, Applies, CmdStates, Pending
  <1>6. s \in InDoubt \cup {"unknown_outcome"} \cup Settled
    BY <1>5 DEF CommandAfter, Receipts, Pending, InDoubt, Settled
  <1>7. old = "unknown_outcome" => s \in Settled
    BY <1>5, <1>6 DEF CommandAfter, Receipts, InDoubt, Settled
  <1>8. /\ s \in InDoubt => x \in {"running", "awaiting"}
        /\ UI(t) => x # "succeeded"
        /\ ~UI(t) /\ s \notin InDoubt => x = s
        /\ x # "none"
    <2>1. CASE e \in {"delivered", "awaiting"}
      <3>1. s \in InDoubt \cup {"unknown_outcome"}
        BY <1>5, <2>1 DEF CommandAfter, Pending, InDoubt
      <3>2. x = IF s = "unknown_outcome" THEN s ELSE IF e = "awaiting" THEN e ELSE "running"
        BY <2>1, <3>1 DEF TaskAfter, InDoubt
      <3> QED  BY <3>1, <3>2 DEF InDoubt
    <2>2. CASE e \notin {"delivered", "awaiting"}
      <3>1. s \in {e, "unknown_outcome"} /\ e \in {"started"} \cup {"unknown_outcome"} \cup Settled
        BY <2>2 DEF CommandAfter, Receipts, Settled
      <3>2. x = IF s = "unknown_outcome" THEN s ELSE
                IF e = "started" \/ (e = "succeeded" /\ UI(t)) THEN "running" ELSE e
        BY <2>2 DEF TaskAfter
      <3> QED  BY <3>1, <3>2 DEF InDoubt, Settled
    <2> QED  BY <2>1, <2>2
  <1>9. task[t].state # "none"
    BY <1>5, OnlyOne DEF Core, Pending, InDoubt
  <1>10. s \in InDoubt => Open(t)
    BY <1>5, <1>7 DEF Core, PendingOpen, InDoubt, Settled
  <1>11. ~UI(t) => MayUpdate(t)
    BY DEF MayUpdate
  <1>12. UI(t) => (Open(t) /\ r.state # "succeeded") \/ r = task[t]
    BY <1>3, <1>8 DEF MayUpdate
  <1>13. stream'.epoch = stream.epoch
    BY DEF Receipt
  <1>14. c.state \in InDoubt => r.state \in Active /\ c.due = cmd[t][k].due
    BY <1>2, <1>3, <1>8, <1>10, RowUpdate DEF Open, Active, CmdRow
  <1>15. ~UI(t) => /\ c.state \in InDoubt => r.state \in {"running", "awaiting"}
                   /\ c.state \notin InDoubt => r.state = c.state
    BY <1>2, <1>3, <1>8, <1>11
  <1>16. r.state # "none"
    BY <1>3, <1>8, <1>9
  <1> HIDE DEF old, s, c, x, r
  <1> QED
    BY <1>2, <1>3, <1>4, <1>5, <1>6, <1>7, <1>12, <1>13, <1>14, <1>15, <1>16, CommandStep DEF old

(* Creating, sending, receipts and UI steps keep the core.                 *)
LEMMA DispatchStep == ASSUME TypeOK, Core, Deadlines, Dispatch PROVE Step
  <1> USE IndicesFact
  <1>1. ASSUME NEW t \in Tasks, NEW s \in Sessions, Create(t, s) \/ CreateUI(t, s) PROVE Step
    BY <1>1, InsertStep DEF Create, CreateUI
  <1>2. ASSUME NEW t \in Tasks, NEW k \in Indices, Next_(t, k) PROVE Step
    <2> DEFINE c == CmdTo(cmd[t][k], "dispatched")
               r == TaskTo(t, "running")
    <2>1. cmd[t][k].state = "queued" /\ Open(t)
      BY <1>2 DEF Next_, First, Queued, Core, PendingOpen, Pending
    <2>2. c \in CmdRow /\ c.state = "dispatched" /\ c.due = (cmd[t][k].due = TRUE)
      BY RowUpdate, CmdToRow, States DEF InDoubt, CmdRow
    <2>3. /\ r \in TaskRow /\ r.state = "running" /\ r.session = task[t].session
          /\ r.gen = task[t].gen /\ r.step = task[t].step /\ r.cancelled = task[t].cancelled
          /\ r.due = task[t].due /\ r.lease = task[t].lease
      BY TaskToRow, States DEF Active
    <2>4. /\ cmd' = [cmd EXCEPT ![t][k] = c] /\ task' = [task EXCEPT ![t] = r]
          /\ stream'.epoch = stream.epoch
      BY <1>2 DEF Next_
    <2>5. c.due = cmd[t][k].due
      BY <2>2, RowUpdate DEF CmdRow
    <2> HIDE DEF c, r
    <2> QED  BY <2>1, <2>2, <2>3, <2>4, <2>5, CommandStep DEF Pending, InDoubt, Active
  <1>3. ASSUME NEW t \in Tasks, NEW k \in Indices, NextExpired(t, k) PROVE Step
    <2> DEFINE c == CmdTo(cmd[t][k], "expired")
               r == TaskTo(t, "expired")
    <2>1. cmd[t][k].state = "queued" /\ Open(t)
      BY <1>3 DEF NextExpired, First, Queued, Core, PendingOpen, Pending
    <2>2. c \in CmdRow /\ c.state = "expired"
      BY RowUpdate, CmdToRow, States
    <2>3. /\ r \in TaskRow /\ r.state = "expired" /\ r.session = task[t].session
          /\ r.gen = task[t].gen /\ r.step = task[t].step /\ r.cancelled = task[t].cancelled
      BY TaskToRow, States
    <2>4. /\ cmd' = [cmd EXCEPT ![t][k] = c] /\ task' = [task EXCEPT ![t] = r]
          /\ stream'.epoch = stream.epoch
      BY <1>3 DEF NextExpired
    <2> HIDE DEF c, r
    <2> QED  BY <2>1, <2>2, <2>3, <2>4, CommandStep DEF Pending, InDoubt, Active, Settled
  <1>4. ASSUME NEW t \in Tasks, NEW k \in Indices, Sent(t, k) PROVE Step
    BY <1>4, IdleStep DEF Sent
  <1>5. ASSUME NEW t \in Tasks, NEW k \in Indices, DispatchLost(t, k) PROVE Step
    <2>1. CASE cmd[t][k].state \notin InDoubt
      BY <1>5, <2>1, IdleStep DEF DispatchLost
    <2>2. CASE cmd[t][k].state \in InDoubt
      <3> DEFINE c == CmdTo(cmd[t][k], "unknown_outcome")
                 r == TaskTo(t, "unknown_outcome")
      <3>1. Open(t) /\ cmd[t][k].state # "unknown_outcome"
        BY <2>2 DEF Core, PendingOpen, Pending, InDoubt
      <3>2. c \in CmdRow /\ c.state = "unknown_outcome"
        BY RowUpdate, CmdToRow, States
      <3>3. /\ r \in TaskRow /\ r.state = "unknown_outcome" /\ r.session = task[t].session
            /\ r.gen = task[t].gen /\ r.step = task[t].step /\ r.cancelled = task[t].cancelled
        BY TaskToRow, States
      <3>4. /\ cmd' = [cmd EXCEPT ![t][k] = c] /\ task' = [task EXCEPT ![t] = r]
            /\ stream'.epoch = stream.epoch
        BY <1>5, <2>2 DEF DispatchLost
      <3> HIDE DEF c, r
      <3> QED  BY <2>2, <3>1, <3>2, <3>3, <3>4, CommandStep DEF Pending, InDoubt, Active
    <2> QED  BY <2>1, <2>2
  <1>6. ASSUME NEW t \in Tasks, NEW k \in Indices, NEW e \in Receipts, NEW started \in BOOLEAN,
               NEW late \in BOOLEAN, Receipt(t, k, e, started, late)
        PROVE  Step
    BY <1>6, ReceiptStep
  <1>7. ASSUME NEW t \in Tasks, Sync(t) PROVE Step
    <2>1. SameStates
      BY <1>7 DEF SameStates, Sync, TypeOK, TaskRow
    <2>2. Deadlines'
      BY <1>7 DEF Sync, TypeOK, TaskRow, Deadlines, Open, AllDue, UI
    <2> QED  BY <2>1, <2>2, FlagStep DEF Step
  <1>8. ASSUME NEW t \in Tasks, RenewUI(t) PROVE Step
    <2>1. SameStates
      BY <1>8 DEF SameStates, RenewUI, TypeOK, TaskRow
    <2>2. task[t].due = FALSE
      BY <1>8 DEF RenewUI, Deadlines, Open, Active, TypeOK, TaskRow
    <2>3. Deadlines'
      BY <1>8, <2>2 DEF RenewUI, TypeOK, TaskRow, Deadlines, Open, AllDue, UI
    <2> QED  BY <2>1, <2>3, FlagStep DEF Step
  <1>9. ASSUME NEW t \in Tasks, AdvanceUI(t) PROVE Step
    BY <1>9, AdvanceStep
  <1> QED  BY <1>1, <1>2, <1>3, <1>4, <1>5, <1>6, <1>7, <1>8, <1>9 DEF Dispatch

(* The sweep ends what is due, and its commands with it.                   *)
LEMMA SweepStep == ASSUME TypeOK, Core, Deadlines, Sweep PROVE Step
  <1> USE IndicesFact
  <1> DEFINE Swept(t) == LeaseLost(t) \/ (Open(t) /\ task[t].due)
  <1>1. \A t \in Tasks :
           /\ ~Swept(t) => task'[t] = task[t]
           /\ Swept(t) => /\ Open(t) /\ AllDue(t)
                          /\ task'[t].state = IF Uncertain(t, Doubtful) THEN "unknown_outcome" ELSE "expired"
                          /\ task'[t].session = task[t].session /\ task'[t].gen = task[t].gen
                          /\ task'[t].step = task[t].step
                          /\ task[t].cancelled => task'[t].cancelled
    <2> TAKE t \in Tasks
    <2> DEFINE r == Ended(t, Doubtful, "expired")
    <2>1. /\ r \in TaskRow
          /\ r.state = IF Uncertain(t, Doubtful) THEN "unknown_outcome" ELSE "expired"
          /\ r.session = task[t].session /\ r.gen = task[t].gen /\ r.step = task[t].step
          /\ r.cancelled = TRUE
      BY EndedRow
    <2>2. task'[t] = IF LeaseLost(t) THEN r
                     ELSE IF Open(t) /\ task[t].due THEN [r EXCEPT !.cancelled = task[t].cancelled]
                     ELSE task[t]
      BY DEF Sweep, SweptTask
    <2>3. Swept(t) => Open(t) /\ AllDue(t)
      BY DEF LeaseLost, Deadlines
    <2> HIDE DEF r
    <2> QED  BY <2>1, <2>2, <2>3 DEF TaskRow
  <1>2. \A t \in Tasks, k \in Indices :
           /\ ~cmd[t][k].due => cmd'[t][k] = cmd[t][k]
           /\ cmd[t][k].due /\ cmd[t][k].state \in InDoubt => cmd'[t][k].state = "unknown_outcome"
           /\ cmd[t][k].due /\ cmd[t][k].state = "queued" => cmd'[t][k].state = "expired"
           /\ cmd[t][k].state \notin Pending => cmd'[t][k] = cmd[t][k]
    BY EndCmdRow, RowUpdate DEF Sweep, SweptCmd
  <1>3. stream' = stream
    BY DEF Sweep
  <1>4. \A t \in Tasks, k \in Indices : cmd'[t][k].state \in Pending =>
           cmd'[t][k] = cmd[t][k] /\ ~cmd[t][k].due /\ task'[t] = task[t]
    <2> SUFFICES ASSUME NEW t \in Tasks, NEW k \in Indices, cmd'[t][k].state \in Pending
                 PROVE  cmd'[t][k] = cmd[t][k] /\ ~cmd[t][k].due /\ task'[t] = task[t]
      OBVIOUS
    <2>1. cmd[t][k].state \in Pending /\ ~cmd[t][k].due /\ cmd'[t][k] = cmd[t][k]
      BY <1>2 DEF Pending, InDoubt
    <2>2. ~Swept(t)
      BY <1>1, <2>1 DEF AllDue, Pending
    <2> QED  BY <1>1, <2>1, <2>2
  <1> HIDE DEF Swept
  <1>5. Ordered'
    <2>1. \A t \in Tasks : /\ task'[t].state # "none" <=> task[t].state # "none"
                           /\ task'[t].step = task[t].step
      BY <1>1 DEF Open, Active
    <2>2. \A t \in Tasks, k \in Indices :
             /\ cmd'[t][k].state # "none" <=> cmd[t][k].state # "none"
             /\ cmd[t][k].state = "succeeded" => cmd'[t][k].state = "succeeded"
      BY <1>2 DEF Pending, InDoubt
    <2> QED  BY <2>1, <2>2, PhoneAssumption DEF Core, Ordered, Indices
  <1>6. PendingOpen' /\ QueuedFenced'
    BY <1>3, <1>4 DEF Core, PendingOpen, QueuedFenced, Pending, Open
  <1>7. Blank'
    BY <1>1 DEF Core, Blank, Open, Active, UI
  <1>8. SystemTruthful'
    <2> SUFFICES ASSUME NEW t \in Tasks, ~UI(t)
                 PROVE  /\ cmd'[t][1].state \in {"none", "queued", "unknown_outcome"} \cup Settled
                              => task'[t].state = cmd'[t][1].state
                        /\ cmd'[t][1].state \in InDoubt => task'[t].state \in {"running", "awaiting"}
      BY DEF SystemTruthful, UI
    <2>1. /\ cmd[t][1].state \in {"none", "queued", "unknown_outcome"} \cup Settled
                => task[t].state = cmd[t][1].state
          /\ cmd[t][1].state \in InDoubt => task[t].state \in {"running", "awaiting"}
          /\ cmd[t][1].state \in CmdStates
      BY RowUpdate DEF Core, SystemTruthful, CmdRow
    <2>2. CASE ~Open(t)
      <3>1. cmd[t][1].state \notin Pending
        BY <2>2 DEF Core, PendingOpen
      <3>2. ~Swept(t)
        BY <1>1, <2>2
      <3> QED  BY <1>1, <1>2, <2>1, <3>1, <3>2
    <2>3. CASE Open(t) /\ ~task[t].due
      <3>1. ~cmd[t][1].due /\ ~Swept(t)
        BY <2>3 DEF Deadlines, Swept, LeaseLost
      <3> QED  BY <1>1, <1>2, <2>1, <3>1
    <2>4. CASE Open(t) /\ task[t].due
      <3>1. cmd[t][1].due /\ Swept(t)
        BY <2>4 DEF Deadlines, Swept
      <3>2. CASE cmd[t][1].state \in InDoubt
        <4>1. Uncertain(t, Doubtful)
          BY <3>2 DEF Uncertain, Doubtful
        <4> QED  BY <1>1, <1>2, <3>1, <3>2, <4>1 DEF InDoubt
      <3>3. CASE cmd[t][1].state = "queued"
        <4>1. \A k \in Indices : k # 1 => cmd[t][k].state = "none"
          BY SystemOne
        <4>2. ~Uncertain(t, Doubtful)
          BY <3>3, <4>1 DEF Uncertain, Doubtful, InDoubt
        <4> QED  BY <1>1, <1>2, <3>1, <3>3, <4>2 DEF InDoubt
      <3>4. cmd[t][1].state \in Pending
        BY <2>1, <2>4 DEF Open, Active, Pending, InDoubt, CmdStates, Settled
      <3> QED  BY <3>2, <3>3, <3>4 DEF Pending
    <2> QED  BY <2>2, <2>3, <2>4
  <1>9. ExclusiveUI'
    BY <1>1 DEF Core, ExclusiveUI, SameMirror, Open, UI
  <1>10. UISuccessComplete'
    BY <1>1, <1>2 DEF Core, UISuccessComplete, UI, Pending, InDoubt
  <1>11. Deadlines'
    <2> SUFFICES ASSUME NEW t \in Tasks, Open(t)'
                 PROVE  /\ task'[t].due \/ (UI(t) /\ task'[t].lease = 0) => AllDue(t)'
                        /\ UI(t) /\ task'[t].due => task'[t].lease = 0
                        /\ ~UI(t) => task'[t].due = cmd'[t][1].due
      BY DEF Deadlines, UI
    <2>1. ~Swept(t) /\ task'[t] = task[t] /\ Open(t)
      BY <1>1 DEF Open, Active
    <2>2. ~task[t].due /\ ~(UI(t) /\ task[t].lease = 0)
      BY <2>1 DEF Swept, LeaseLost
    <2>3. ~UI(t) => ~cmd[t][1].due
      BY <2>1, <2>2 DEF Deadlines
    <2>4. ~UI(t) => task[t].due = cmd'[t][1].due
      BY <1>2, <2>1, <2>3 DEF Deadlines
    <2> QED  BY <2>1, <2>2, <2>4
  <1>12. CmdStep
    BY <1>2 DEF CmdStep, Pending, InDoubt, Settled
  <1>13. TaskStep
    BY <1>1 DEF TaskStep, Open, Active, Settled
  <1> QED
    BY <1>5, <1>6, <1>7, <1>8, <1>9, <1>10, <1>11, <1>12, <1>13 DEF Step, Core

(* Deadlines pass in order: a command before its lease, a lease before its *)
(* task.                                                                   *)
LEMMA TimeStep == ASSUME TypeOK, Core, Deadlines, TimePasses PROVE Step
  <1> USE IndicesFact
  <1>1. ASSUME NEW t \in Tasks, NEW k \in Indices, CommandDue(t, k) PROVE Step
    <2>1. \A u \in Tasks, i \in Indices :
             /\ cmd'[u][i].state = cmd[u][i].state /\ cmd'[u][i].epoch = cmd[u][i].epoch
             /\ cmd[u][i].due => cmd'[u][i].due
             /\ ~(u = t /\ i = k) => cmd'[u][i] = cmd[u][i]
      BY <1>1 DEF CommandDue, TypeOK, CmdRow
    <2>2. cmd'[t][k].due = TRUE /\ cmd[t][k].state \in Pending
      BY <1>1 DEF CommandDue, TypeOK, CmdRow, Pending
    <2>3. \A u \in Tasks :
             /\ u # t \/ UI(t) => task'[u] = task[u]
             /\ ~UI(t) => task'[t].due = TRUE
             /\ task'[u].state = task[u].state /\ task'[u].cancelled = task[u].cancelled
             /\ task'[u].session = task[u].session /\ task'[u].gen = task[u].gen
             /\ task'[u].step = task[u].step
      BY <1>1 DEF CommandDue, TypeOK, TaskRow
    <2>4. SameStates
      BY <1>1, <2>1, <2>3 DEF SameStates, CommandDue
    <2>5. Deadlines'
      <3>1. CASE UI(t)
        BY <2>1, <2>3, <3>1 DEF Deadlines, Open, AllDue, UI
      <3>2. CASE ~UI(t)
        <4>1. k = 1 /\ \A i \in Indices : i # 1 => cmd[t][i].state = "none"
          BY <2>2, <3>2, SystemOne DEF Pending, InDoubt
        <4>2. AllDue(t)'
          BY <2>1, <2>2, <4>1 DEF AllDue, InDoubt
        <4>3. task'[t].due = cmd'[t][1].due
          BY <2>2, <2>3, <3>2, <4>1
        <4> QED  BY <2>1, <2>3, <3>2, <4>2, <4>3 DEF Deadlines, Open, AllDue, UI
      <3> QED  BY <3>1, <3>2
    <2> QED  BY <2>4, <2>5, FlagStep DEF Step
  <1>2. ASSUME NEW t \in Tasks, LeasePasses(t) PROVE Step
    <2>1. SameStates
      BY <1>2 DEF SameStates, LeasePasses, TypeOK, TaskRow
    <2>2. /\ \A u \in Tasks : u # t => task'[u] = task[u]
          /\ task'[t].due = task[t].due /\ task'[t].lease = task[t].lease - 1
          /\ UI(t) /\ Open(t) /\ task[t].lease \in {1, 2} /\ (task[t].lease = 1 => AllDue(t))
          /\ cmd' = cmd
      BY <1>2 DEF LeasePasses, TypeOK, TaskRow
    <2>3. task[t].due = FALSE
      BY <2>2 DEF Deadlines, TypeOK, TaskRow
    <2>4. Deadlines'
      BY <2>1, <2>2, <2>3 DEF SameStates, Deadlines, Open, AllDue, UI
    <2> QED  BY <2>1, <2>4, FlagStep DEF Step
  <1>3. ASSUME NEW t \in Tasks, TaskDue(t) PROVE Step
    <2>1. \A u \in Tasks, i \in Indices :
             /\ cmd'[u][i].state = cmd[u][i].state /\ cmd'[u][i].epoch = cmd[u][i].epoch
             /\ u # t => cmd'[u][i] = cmd[u][i]
      BY <1>3 DEF TaskDue, TypeOK, CmdRow
    <2>2. AllDue(t)'
      <3>1. \A i \in Indices : cmd'[t][i] =
               [cmd[t][i] EXCEPT !.due = @ \/ cmd[t][i].state \in {"queued"} \cup InDoubt]
        BY <1>3 DEF TaskDue, TypeOK
      <3>2. \A i \in Indices : cmd[t][i].state \in {"queued"} \cup InDoubt => cmd'[t][i].due = TRUE
        <4> SUFFICES ASSUME NEW i \in Indices, cmd[t][i].state \in {"queued"} \cup InDoubt
                     PROVE  cmd'[t][i].due = TRUE
          OBVIOUS
        <4>1. (cmd[t][i].due \/ cmd[t][i].state \in {"queued"} \cup InDoubt) = TRUE
          BY Zenon
        <4>2. cmd'[t][i] = [cmd[t][i] EXCEPT !.due = TRUE]
          BY <3>1, <4>1, Zenon
        <4> QED  BY <4>2, RowUpdate DEF CmdRow
      <3> QED  BY <2>1, <3>2 DEF AllDue
    <2>3. \A u \in Tasks :
             /\ u # t => task'[u] = task[u]
             /\ task'[u].state = task[u].state /\ task'[u].cancelled = task[u].cancelled
             /\ task'[u].session = task[u].session /\ task'[u].gen = task[u].gen
             /\ task'[u].step = task[u].step
      BY <1>3 DEF TaskDue, TypeOK, TaskRow
    <2>4. UI(t) /\ task'[t].lease = 0
      BY <1>3 DEF TaskDue, TypeOK, TaskRow
    <2>5. SameStates
      BY <1>3, <2>1, <2>3 DEF SameStates, TaskDue
    <2>6. Deadlines'
      BY <2>1, <2>2, <2>3, <2>4 DEF Deadlines, Open, AllDue, UI
    <2> QED  BY <2>5, <2>6, FlagStep DEF Step
  <1>4. ASSUME NEW t \in Tasks, SnapshotStale(t) PROVE Step
    <2>1. SameStates
      BY <1>4 DEF SameStates, SnapshotStale, TypeOK, TaskRow
    <2>2. Deadlines'
      BY <1>4 DEF SnapshotStale, TypeOK, TaskRow, Deadlines, Open, AllDue, UI
    <2> QED  BY <2>1, <2>2, FlagStep DEF Step
  <1>5. ASSUME NEW s \in Sessions, SessionDue(s) PROVE Step
    BY <1>5, IdleStep DEF SessionDue
  <1> QED  BY <1>1, <1>2, <1>3, <1>4, <1>5 DEF TimePasses

(* Invalidation, restarts and ended origins keep the core.                 *)
LEMMA FailureStep == ASSUME TypeOK, Core, Deadlines, Failures PROVE Step
  <1>1. CASE InvalidateDeviceState
    <2>1. task' = EndTasks(Tasks, Doubtful) /\ cmd' = EndCmds(Tasks)
      BY <1>1, Zenon DEF InvalidateDeviceState
    <2> QED  BY <2>1, EndStep
  <1>2. CASE Restart
    <2>1. \A t \in Tasks : task'[t].due = task[t].due /\ task'[t].lease = task[t].lease
      BY <1>2, Zenon DEF Restart, TypeOK, TaskRow
    <2>2. SameStates
      BY <1>2, Zenon DEF SameStates, Restart, TypeOK, TaskRow
    <2>3. Deadlines'
      <3>1. cmd' = cmd
        BY <1>2, Zenon DEF Restart
      <3>2. \A t \in Tasks : Open(t)' <=> Open(t)
        BY <2>2 DEF SameStates, Open
      <3> QED  BY <2>1, <3>1, <3>2 DEF Deadlines, AllDue, UI
    <2> QED  BY <2>2, <2>3, FlagStep DEF Step
  <1>3. ASSUME NEW t \in Tasks, OriginEnds(t) PROVE Step
    <2>1. SameStates
      BY <1>3 DEF SameStates, OriginEnds, TypeOK, TaskRow
    <2>2. Deadlines'
      BY <1>3 DEF OriginEnds, TypeOK, TaskRow, Deadlines, Open, AllDue, UI
    <2> QED  BY <2>1, <2>2, FlagStep DEF Step
  <1> QED  BY <1>1, <1>2, <1>3 DEF Failures

(***************************************************************************)
(* The theorems.                                                           *)
(***************************************************************************)
IInv == TypeOK /\ Core /\ Deadlines

(* Every step keeps the invariant and the two action properties.           *)
LEMMA EveryStep == ASSUME IInv, [Next]_vars PROVE Step
  <1>1. CASE UNCHANGED vars
    BY <1>1, IdleStep DEF IInv, vars
  <1> QED
    BY <1>1, ControlStep, DispatchStep, SweepStep, TimeStep, FailureStep DEF IInv, Next

(* Types, core and deadlines hold in every reachable state.                *)
LEMMA InductiveInvariant == Spec => []IInv
  <1>1. Init => IInv
    <2> SUFFICES ASSUME Init PROVE IInv
      OBVIOUS
    <2>1. TypeOK
      BY NoRows, PhoneAssumption DEF Init, TypeOK, StreamRow
    <2>2. \A t \in Tasks : /\ task[t].state = "none" /\ task[t].cancelled = FALSE /\ task[t].step = 0
                           /\ \A k \in Indices : cmd[t][k].state = "none"
      BY DEF Init, NoTask, NoCmd
    <2>3. Core
      BY <2>2, IndicesFact
         DEF Core, Ordered, PendingOpen, Blank, QueuedFenced, SystemTruthful, ExclusiveUI,
             UISuccessComplete, Pending, InDoubt, Active
    <2>4. Deadlines
      BY <2>2 DEF Deadlines, Open, Active
    <2> QED  BY <2>1, <2>3, <2>4 DEF IInv
  <1>2. IInv /\ [Next]_vars => IInv'
    <2> SUFFICES ASSUME IInv, [Next]_vars PROVE IInv'
      OBVIOUS
    <2>1. Core' /\ Deadlines'
      BY EveryStep DEF Step
    <2>2. TypeOK'
      BY TypeStep DEF IInv
    <2> QED  BY <2>1, <2>2 DEF IInv
  <1> QED  BY <1>1, <1>2, PTL DEF Spec

(* No command waits for a stream that was replaced, or for a task that has *)
(* ended (OpenControl, endSessionIn, ReconcileParents, Sweep).             *)
THEOREM QueueIsFenced == Spec => []QueuedFenced
  <1>1. IInv => QueuedFenced
    BY DEF IInv, Core
  <1> QED  BY <1>1, InductiveInvariant, PTL

(* What a conversation is told of a read or a system action is what is     *)
(* known of its command, through lost sends, late receipts and sweeps.     *)
THEOREM SystemIsTruthful == Spec => []SystemTruthful
  <1>1. IInv => SystemTruthful
    BY DEF IInv, Core
  <1> QED  BY <1>1, InductiveInvariant, PTL

(* The steps of a UI scenario go out one after the other (advanceUI). *)
THEOREM StepsAreOrdered == Spec => []StepsInOrder
  <1>1. IInv => StepsInOrder
    BY DEF IInv, Core, Ordered, StepsInOrder
  <1> QED  BY <1>1, InductiveInvariant, PTL

(* Two unresolved UI tasks never share a session generation (CreateUI). *)
THEOREM UIIsExclusive == Spec => []ExclusiveUI
  <1>1. IInv => ExclusiveUI
    BY DEF IInv, Core
  <1> QED  BY <1>1, InductiveInvariant, PTL

(* A UI task is reported as succeeded only after all of its steps. *)
THEOREM UISuccessIsComplete == Spec => []UISuccessComplete
  <1>1. IInv => UISuccessComplete
    BY DEF IInv, Core
  <1> QED  BY <1>1, InductiveInvariant, PTL

(* No step sends a command twice or changes a settled one. *)
THEOREM CommandsNeverReplayed == Spec => NeverReplayed
  <1>1. IInv /\ [Next]_vars => [CmdStep]_vars
    BY EveryStep DEF Step
  <1> QED  BY <1>1, InductiveInvariant, PTL DEF Spec, NeverReplayed, CmdStep

(* No receipt, however late, makes an ended task active again. *)
THEOREM TasksEndForGood == Spec => EndedForGood
  <1>1. IInv /\ [Next]_vars => [TaskStep]_vars
    BY EveryStep DEF Step
  <1> QED  BY <1>1, InductiveInvariant, PTL DEF Spec, EndedForGood, TaskStep

(***************************************************************************)
(* Sessions.                                                               *)
(***************************************************************************)
(* A step that does not accept a mirror activates nothing. *)
Retiring ==
    /\ \A s \in Sessions : session'[s].state = "active" =>
          session[s].state = "active" /\ session'[s].epoch = session[s].epoch
    /\ stream'.epoch = stream.epoch \/ \A s \in Sessions : session'[s].state # "active"

Revival ==
    \A s \in Sessions :
        session[s].state \in {"revoked", "expired"} /\ session'[s].state = "active"
           => session'[s].gen > session[s].gen

(* A step that only retires sessions activates none.                       *)
LEMMA RetiringStep ==
    ASSUME TypeOK, OneActiveSession, Retiring
    PROVE  OneActiveSession' /\ Revival
  BY DEF OneActiveSession, Retiring, Revival

(* EndSessions only retires sessions.                                      *)
LEMMA EndSessionsRetire ==
    ASSUME TypeOK, NEW D, NEW gen, EndSessions(D, gen), stream'.epoch = stream.epoch
    PROVE  Retiring
  <1>1. \A s \in Sessions : s \in D => session'[s].state = "revoked"
    BY Zenon DEF EndSessions, TypeOK, SessionRow
  <1>2. \A s \in Sessions : s \notin D => session'[s] = session[s]
    BY Zenon DEF EndSessions
  <1> QED  BY <1>1, <1>2 DEF Retiring

(* Every step keeps one active session, and revives none of its generation.*)
LEMMA SessionStep ==
    ASSUME TypeOK, OneActiveSession, [Next]_vars
    PROVE  OneActiveSession' /\ Revival
  <1>1. ASSUME NEW s \in Sessions, NEW g \in 1 .. MaxGen, NEW grants \in Grants,
               Session(s, g, grants)
        PROVE  OneActiveSession' /\ Revival
    <2>1. session'[s] = ActiveMirror(g, grants)
      BY <1>1 DEF Session
    <2>2. \A x \in Sessions : x # s => session'[x].state # "active"
      BY <1>1 DEF Session, Superseded, TypeOK, SessionRow
    <2>3. session[s].state \in {"revoked", "expired"} => g > session[s].gen
      <3>1. g \in Nat /\ session[s].gen \in Nat
        BY PhoneAssumption DEF TypeOK, SessionRow
      <3> QED  BY <1>1, <3>1 DEF Session, Acceptable
    <2>4. session'[s].state = "active" /\ session'[s].epoch = stream.epoch /\ session'[s].gen = g
      BY <2>1 DEF ActiveMirror
    <2>5. stream' = stream
      BY <1>1 DEF Session
    <2> QED  BY <2>2, <2>3, <2>4, <2>5 DEF OneActiveSession, Revival
  <1>2. CASE OpenControl
    <2>1. Retiring
      BY <1>2 DEF OpenControl, Retiring, TypeOK, SessionRow
    <2> QED  BY <2>1, RetiringStep
  <1>3. CASE InvalidateDeviceState
    <2>1. Retiring
      BY <1>3, Zenon DEF InvalidateDeviceState, Retiring, TypeOK, SessionRow
    <2> QED  BY <2>1, RetiringStep
  <1>4. ASSUME NEW caps \in Reports, Capabilities(caps) PROVE OneActiveSession' /\ Revival
    <2> DEFINE D == Reduced(caps)
               gen == [s \in Sessions |-> session[s].gen]
    <2>1. EndSessions(D, gen) /\ stream'.epoch = stream.epoch
      BY <1>4 DEF Capabilities, TypeOK, StreamRow
    <2> HIDE DEF D, gen
    <2> QED  BY <2>1, EndSessionsRetire, RetiringStep
  <1>5. ASSUME NEW s \in Sessions, NEW g \in 1 .. MaxGen, StopSession(s, g)
        PROVE  OneActiveSession' /\ Revival
    <2> DEFINE gen == [x \in Sessions |-> g]
    <2>1. EndSessions({s}, gen) /\ stream'.epoch = stream.epoch
      BY <1>5 DEF StopSession
    <2> HIDE DEF gen
    <2> QED  BY <2>1, EndSessionsRetire, RetiringStep
  <1>6. ASSUME NEW D \in SUBSET Tasks, ReconcileParents(D) PROVE OneActiveSession' /\ Revival
    <2>1. \A s \in Sessions : session'[s].state = "revoked" \/ session'[s] = session[s]
      BY <1>6 DEF ReconcileParents, TypeOK, SessionRow
    <2>2. stream' = stream
      BY <1>6 DEF ReconcileParents
    <2> QED  BY <2>1, <2>2, RetiringStep DEF Retiring
  <1>7. CASE Sweep
    <2>1. \A s \in Sessions : session'[s].state = "expired" \/ session'[s] = session[s]
      BY <1>7 DEF Sweep, SweptSession, TypeOK, SessionRow
    <2>2. stream' = stream
      BY <1>7 DEF Sweep
    <2> QED  BY <2>1, <2>2, RetiringStep DEF Retiring
  <1>8. ASSUME NEW s \in Sessions, SessionDue(s) PROVE OneActiveSession' /\ Revival
    <2>1. \A x \in Sessions : session'[x].state = session[x].state /\ session'[x].epoch = session[x].epoch
      BY <1>8 DEF SessionDue, TypeOK, SessionRow
    <2> QED  BY <1>8, <2>1, RetiringStep DEF Retiring, SessionDue
  <1>9. ASSUME session' = session, stream'.epoch = stream.epoch PROVE OneActiveSession' /\ Revival
    BY <1>9, RetiringStep DEF Retiring
  <1>10. CASE UNCHANGED vars
    BY <1>9, <1>10 DEF vars
  <1>11. CASE CloseControl
    BY <1>9, <1>11 DEF CloseControl, TypeOK, StreamRow
  <1>12. CASE Dispatch
    <2>1. ASSUME NEW t \in Tasks, NEW s \in Sessions, Create(t, s) \/ CreateUI(t, s)
          PROVE  session' = session /\ stream'.epoch = stream.epoch
      BY <2>1 DEF Create, CreateUI, Insert, TypeOK, StreamRow
    <2>2. ASSUME NEW t \in Tasks, AdvanceUI(t)
          PROVE  session' = session /\ stream'.epoch = stream.epoch
      BY <2>2 DEF AdvanceUI, TypeOK, StreamRow
    <2>3. ASSUME NEW t \in Tasks, NEW k \in Indices,
                 Next_(t, k) \/ NextExpired(t, k) \/ Sent(t, k) \/ DispatchLost(t, k)
          PROVE  session' = session /\ stream'.epoch = stream.epoch
      BY <2>3 DEF Next_, NextExpired, Sent, DispatchLost
    <2>4. ASSUME NEW t \in Tasks, NEW k \in Indices, NEW e \in Receipts, NEW started \in BOOLEAN,
                 NEW late \in BOOLEAN, Receipt(t, k, e, started, late)
          PROVE  session' = session /\ stream'.epoch = stream.epoch
      BY <2>4 DEF Receipt
    <2>5. ASSUME NEW t \in Tasks, Sync(t) \/ RenewUI(t)
          PROVE  session' = session /\ stream'.epoch = stream.epoch
      BY <2>5, Zenon DEF Sync, RenewUI
    <2> QED  BY <1>9, <1>12, <2>1, <2>2, <2>3, <2>4, <2>5 DEF Dispatch
  <1>13. ASSUME TimePasses, \A s \in Sessions : ~SessionDue(s) PROVE OneActiveSession' /\ Revival
    BY <1>9, <1>13, Zenon DEF TimePasses, CommandDue, LeasePasses, TaskDue, SnapshotStale
  <1>14. ASSUME Failures, ~InvalidateDeviceState PROVE OneActiveSession' /\ Revival
    BY <1>9, <1>14, Zenon DEF Failures, Restart, OriginEnds
  <1> QED
    BY <1>1, <1>2, <1>3, <1>4, <1>5, <1>6, <1>7, <1>8, <1>10, <1>11, <1>12, <1>13, <1>14
       DEF Next, Control, TimePasses

(* One session of the device is active at most, and on the current stream. *)
THEOREM OneSession == Spec => []OneActiveSession
  <1>1. Init => OneActiveSession
    BY DEF Init, NoSession, OneActiveSession
  <1>2. TypeOK /\ OneActiveSession /\ [Next]_vars => OneActiveSession'
    BY SessionStep
  <1> QED  BY <1>1, <1>2, TypeCorrect, PTL DEF Spec

(* A session that was stopped, replaced or revoked comes back only under a *)
(* higher generation (Session, passiveContinuation).                       *)
THEOREM SessionsNotRevived == Spec => NoRevival
  <1>1. TypeOK /\ OneActiveSession /\ [Next]_vars => [Revival]_vars
    BY SessionStep
  <1> QED  BY <1>1, TypeCorrect, OneSession, PTL DEF Spec, NoRevival, Revival
=============================================================================
