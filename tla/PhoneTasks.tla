----------------------------- MODULE PhoneTasks -----------------------------
(***************************************************************************)
(* internal/mobile/devices: the phone tasks of one device.  A conversation *)
(* creates a task, the control stream of the phone takes its commands one  *)
(* at a time (Next), and the phone answers with receipts.  The authority   *)
(* behind a task can end at any moment: the stream is replaced, the native *)
(* session is stopped, the origin is fenced, a lease or a deadline passes. *)
(*                                                                         *)
(* Every method of Store runs in one SQLite transaction behind the account *)
(* reservation (store.go, with), so one method is one action.  The places  *)
(* where others come in between are those the code leaves open: between    *)
(* Next and the Send of its command, between a Send and its receipts, and  *)
(* between a change of authority and the next poll.                        *)
(*                                                                         *)
(* A method that returns an error rolls back, and the control handler that *)
(* called it ends the stream: CloseControl, at any time, covers it.        *)
(* Deadlines are flags that the passing of time sets, on rows still open.  *)
(***************************************************************************)
EXTENDS Naturals, FiniteSets

CONSTANTS
    Tasks,      \* task ids
    Sessions,   \* native session ids
    Kind,       \* Kind[t]: "read" (telemetry), "system" (torch, navigation) or "ui"
    Reports,    \* capability reports: the sets of kinds the phone may permit
    Grants,     \* the sets of kinds a session mirror may allow
    Steps,      \* len(manifest.Steps) of the UI scenario
    MaxBusy,    \* active tasks Create admits on one device (8 in the code)
    MaxEpoch,   \* bound: stream epochs
    MaxGen,     \* bound: session generations
    Faults      \* bound: the faults that may happen, of "invalidate", "restart", "origin"

Kinds == {"read", "system", "ui"}

ASSUME PhoneAssumption ==
    /\ Kind \in [Tasks -> Kinds]
    /\ Sessions # {}
    /\ Reports \subseteq SUBSET Kinds
    /\ Grants \subseteq SUBSET Kinds
    /\ Steps \in Nat \ {0}
    /\ MaxBusy \in Nat
    /\ MaxEpoch \in Nat
    /\ MaxGen \in Nat
    /\ Faults \subseteq {"invalidate", "restart", "origin"}

VARIABLES
    stream,      \* mobile_device_streams
    session,     \* mobile_native_sessions
    task,        \* mobile_phone_tasks with mobile_ui_tasks
    cmd,         \* mobile_phone_commands, by task and step
    sending,     \* commands between Next and the end of their Send
    reconciled   \* history: UI tasks whose uncertain command was settled by a receipt

vars == <<stream, session, task, cmd, sending, reconciled>>

UI(t) == Kind[t] = "ui"

(* A UI task has the first observation and one command for each step. *)
Indices == 1 .. Steps + 1

Active == {"queued", "running", "awaiting"}   \* awaiting: confirmation or user action

InDoubt == {"dispatched", "started"}

Settled == {"succeeded", "failed", "cancelled", "expired"}

Open(t) == task[t].state \in Active

(***************************************************************************)
(* Rows.                                                                   *)
(***************************************************************************)
NoTask == [ state     |-> "none",
            cancelled |-> FALSE,   \* cancellation_requested
            session   |-> CHOOSE s \in Sessions : TRUE,
            gen       |-> 0,       \* session_generation
            step      |-> 0,       \* mobile_ui_tasks.step
            lease     |-> 0,       \* lease_until: 2 fresh, 1 renewable, 0 passed
            due       |-> FALSE,   \* expires_at has passed
            snap      |-> "none",  \* snapshot_ref: none (or stale), new, used by a command
            content   |-> FALSE,   \* its payloads are in the ephemeral store
            origin    |-> FALSE ]  \* originFamilyLive, OriginAllowed and externalLive

NoCmd == [state |-> "none", epoch |-> 0, seq |-> 0, due |-> FALSE]

(* A row that changes state.  The columns that nothing reads once a task has *)
(* ended, or a command has left the queue or been answered, are reset.       *)
TaskTo(t, state) ==
    IF state \in Active THEN [task[t] EXCEPT !.state = state]
    ELSE [task[t] EXCEPT !.state = state, !.lease = 0, !.due = FALSE, !.snap = "none",
                         !.content = FALSE, !.origin = FALSE]

CmdTo(c, state) ==
    [state |-> state, epoch |-> 0, seq |-> 0, due |-> state \in InDoubt /\ c.due]

NoSession == [state |-> "none", gen |-> 0, epoch |-> 0, due |-> FALSE,
              grants |-> {}, stopped |-> FALSE]

Init ==
    /\ stream = [epoch |-> 0, live |-> FALSE, caps |-> {}, seq |-> 0]
    /\ session = [s \in Sessions |-> NoSession]
    /\ task = [t \in Tasks |-> NoTask]
    /\ cmd = [t \in Tasks |-> [k \in Indices |-> NoCmd]]
    /\ sending = {}
    /\ reconciled = {}

(***************************************************************************)
(* Authority.                                                              *)
(***************************************************************************)
NativeSessionLive(s, g, kind) ==
    /\ session[s].state = "active"
    /\ session[s].gen = g
    /\ ~session[s].due
    /\ session[s].epoch = stream.epoch
    /\ stream.live
    /\ kind \in stream.caps

TaskSessionLive(t) == NativeSessionLive(task[t].session, task[t].gen, Kind[t])

UILeaseLive(t) == UI(t) => task[t].lease > 0

ParentsLive(t) == TaskSessionLive(t) /\ task[t].origin /\ UILeaseLive(t)

(* The states a task or a command is left in when its authority ends: an   *)
(* effect that may have happened is uncertain, anything else did not run.  *)
Uncertain(t, states) == \E k \in Indices : cmd[t][k].state \in states

Doubtful == InDoubt \cup {"unknown_outcome"}

(* Mutant: the commands are not looked at. *)
EndedCertain(t, states, idle) == [TaskTo(t, idle) EXCEPT !.cancelled = TRUE]

Ended(t, states, idle) ==
    [TaskTo(t, IF Uncertain(t, states) THEN "unknown_outcome" ELSE idle) EXCEPT !.cancelled = TRUE]

EndTasks(D, states) ==
    [t \in Tasks |-> IF t \in D /\ Open(t) THEN Ended(t, states, "cancelled") ELSE task[t]]

(* Mutant: a queued command survives. *)
EndCmdKeepsQueued(c, idle) == IF c.state \in InDoubt THEN CmdTo(c, "unknown_outcome") ELSE c

EndCmd(c, idle) ==
    CASE c.state \in InDoubt -> CmdTo(c, "unknown_outcome")
      [] c.state = "queued"  -> CmdTo(c, idle)
      [] OTHER               -> c

EndCmds(D) ==
    [t \in Tasks |-> IF t \in D THEN [k \in Indices |-> EndCmd(cmd[t][k], "cancelled")] ELSE cmd[t]]

(***************************************************************************)
(* The control stream.                                                     *)
(***************************************************************************)
(* OpenControl tests for commands in doubt but, unlike the other paths,    *)
(* not for commands that are already unknown_outcome.                      *)
OpenControl ==
    /\ stream.epoch < MaxEpoch
    /\ stream' = [stream EXCEPT !.epoch = @ + 1, !.live = TRUE, !.caps = {}]
    /\ session' = [s \in Sessions |-> IF session[s].state = "none" THEN session[s]
                                      ELSE [session[s] EXCEPT !.state = "revoked"]]
    /\ task' = EndTasks(Tasks, InDoubt)
    /\ cmd' = EndCmds(Tasks)
    /\ UNCHANGED <<sending, reconciled>>

(* The handler's deferred CloseControl, or a stream lease that TouchControl *)
(* did not renew in time.                                                   *)
CloseControl ==
    /\ stream.live
    /\ stream' = [stream EXCEPT !.live = FALSE]
    /\ UNCHANGED <<session, task, cmd, sending, reconciled>>

OfSession(D) == {t \in Tasks : task[t].state # "none" /\ task[t].session \in D}

(* endSessionIn for the sessions D, each with generation gen[s]. *)
EndSessions(D, gen) ==
    LET T == OfSession(D) IN
    /\ session' = [s \in Sessions |->
                     IF s \in D THEN [session[s] EXCEPT !.state = "revoked", !.gen = gen[s],
                                                        !.due = TRUE, !.stopped = TRUE]
                     ELSE session[s]]
    /\ task' = EndTasks(T, Doubtful)
    /\ cmd' = EndCmds(T)

Reduced(caps) == {s \in Sessions : session[s].state = "active" /\ ~(session[s].grants \subseteq caps)}

Capabilities(caps) ==
    /\ stream.live
    /\ stream' = [stream EXCEPT !.caps = caps]
    /\ EndSessions(Reduced(caps), [s \in Sessions |-> session[s].gen])
    /\ UNCHANGED <<sending, reconciled>>

(* A mirror that says revoked or expired. *)
StopSession(s, g) ==
    /\ stream.live
    /\ session[s].state # "none"
    /\ session[s].epoch = stream.epoch
    /\ g >= session[s].gen
    /\ EndSessions({s}, [x \in Sessions |-> g])
    /\ UNCHANGED <<stream, sending, reconciled>>

(* Telemetry only may continue on a new stream, under a higher generation,  *)
(* unless the phone stopped it.                                             *)
PassiveContinuation(s, g, grants) ==
    /\ ~session[s].stopped
    /\ g > session[s].gen
    /\ session[s].grants # {}
    /\ session[s].grants \subseteq {"read"}
    /\ grants = session[s].grants

(* Mutant: the state of the old row is not compared. *)
AcceptableAgain(s, g, grants) ==
    \/ session[s].state = "none"
    \/ session[s].epoch # stream.epoch => PassiveContinuation(s, g, grants)

Acceptable(s, g, grants) ==
    \/ session[s].state = "none"
    \/ /\ g >= session[s].gen
       /\ g = session[s].gen => /\ session[s].state = "active"
                                /\ grants = session[s].grants
                                /\ ~session[s].due
       /\ session[s].epoch # stream.epoch => PassiveContinuation(s, g, grants)

(* Mutant: the other sessions are left alone. *)
SupersededKept(s) == session[s]

Superseded(s) ==
    IF session[s].state = "active" THEN [session[s] EXCEPT !.state = "revoked"] ELSE session[s]

ActiveMirror(g, grants) ==
    [state |-> "active", gen |-> g, epoch |-> stream.epoch, due |-> FALSE,
     grants |-> grants, stopped |-> FALSE]

Session(s, g, grants) ==
    /\ stream.live
    /\ grants \subseteq stream.caps
    /\ Acceptable(s, g, grants)
    /\ session' = [x \in Sessions |-> IF x = s THEN ActiveMirror(g, grants) ELSE Superseded(x)]
    /\ UNCHANGED <<stream, task, cmd, sending, reconciled>>

(***************************************************************************)
(* Creating tasks.                                                         *)
(***************************************************************************)
NewTask(s) == [ state |-> "queued", cancelled |-> FALSE, session |-> s, gen |-> session[s].gen,
                step |-> 0, lease |-> 2, due |-> FALSE, snap |-> "none",
                content |-> TRUE, origin |-> TRUE ]

NewCmd == [state |-> "queued", epoch |-> stream.epoch, seq |-> stream.seq + 1, due |-> FALSE]

Insert(t, s) ==
    /\ task[t].state = "none"
    /\ NativeSessionLive(s, session[s].gen, Kind[t])
    /\ Kind[t] \in session[s].grants
    /\ task' = [task EXCEPT ![t] = NewTask(s)]
    /\ cmd' = [cmd EXCEPT ![t][1] = NewCmd]
    /\ stream' = [stream EXCEPT !.seq = @ + 1]
    /\ UNCHANGED <<session, sending, reconciled>>

Create(t, s) ==
    /\ ~UI(t)
    /\ Cardinality({u \in Tasks : Open(u) /\ ~task[u].due}) < MaxBusy
    /\ Insert(t, s)

(* Mutant: an uncertain task does not count as busy. *)
HoldsUIActive(t, s, g) ==
    UI(t) /\ task[t].session = s /\ task[t].gen = g /\ Open(t)

(* A UI task that is unresolved, not only one that is active, keeps its    *)
(* session generation for itself.                                          *)
HoldsUI(t, s, g) ==
    /\ UI(t)
    /\ task[t].session = s
    /\ task[t].gen = g
    /\ task[t].state \in Active \cup {"unknown_outcome"}

CreateUI(t, s) ==
    /\ UI(t)
    /\ ~\E u \in Tasks : HoldsUI(u, s, session[s].gen)
    /\ Insert(t, s)

(***************************************************************************)
(* Next, the Send of its command, and DispatchLost.                        *)
(***************************************************************************)
Queued(t, k) == cmd[t][k].state = "queued" /\ cmd[t][k].epoch = stream.epoch

(* ORDER BY server_seq LIMIT 1. *)
First(t, k) ==
    /\ Queued(t, k)
    /\ \A u \in Tasks, i \in Indices : Queued(u, i) => cmd[t][k].seq <= cmd[u][i].seq

Dispatchable(t, k) ==
    /\ ~task[t].cancelled
    /\ ~task[t].due
    /\ TaskSessionLive(t)
    /\ task[t].origin
    /\ task[t].content
    /\ ~cmd[t][k].due

(* Every UI command but the first observation is bound to the snapshot it  *)
(* was chosen from, which must still be the current one.                   *)
UIDispatch(t, k) ==
    UI(t) => /\ task[t].lease > 0
             /\ k > 1 => task[t].snap = "used"

Next_(t, k) ==
    /\ stream.live
    /\ First(t, k)
    /\ Dispatchable(t, k)
    /\ UIDispatch(t, k)
    /\ cmd' = [cmd EXCEPT ![t][k] = CmdTo(@, "dispatched")]
    /\ task' = [task EXCEPT ![t] = TaskTo(t, "running")]
    /\ sending' = sending \cup {<<t, k>>}
    /\ UNCHANGED <<stream, session, reconciled>>

NextExpired(t, k) ==
    /\ stream.live
    /\ First(t, k)
    /\ ~Dispatchable(t, k)
    /\ cmd' = [cmd EXCEPT ![t][k] = CmdTo(@, "expired")]
    /\ task' = [task EXCEPT ![t] = TaskTo(t, "expired")]
    /\ UNCHANGED <<stream, session, sending, reconciled>>

(* Send returned nil. *)
Sent(t, k) ==
    /\ <<t, k>> \in sending
    /\ sending' = sending \ {<<t, k>>}
    /\ UNCHANGED <<stream, session, task, cmd, reconciled>>

(* Mutant: the lost command is queued again. *)
DispatchLostRetries(t, k) ==
    /\ <<t, k>> \in sending
    /\ sending' = sending \ {<<t, k>>}
    /\ cmd[t][k].state \in InDoubt
    /\ cmd' = [cmd EXCEPT ![t][k] = NewCmd]
    /\ UNCHANGED <<stream, session, task, reconciled>>

(* Send, or the UILease before it, returned an error; whether the phone has *)
(* the command is not known.  The handler may belong to a stream that has   *)
(* been replaced since.                                                     *)
DispatchLost(t, k) ==
    /\ <<t, k>> \in sending
    /\ sending' = sending \ {<<t, k>>}
    /\ IF cmd[t][k].state \in InDoubt
       THEN /\ task' = [task EXCEPT ![t] = TaskTo(t, "unknown_outcome")]
            /\ cmd' = [cmd EXCEPT ![t][k] = CmdTo(@, "unknown_outcome")]
       ELSE UNCHANGED <<task, cmd>>
    /\ UNCHANGED <<stream, session, reconciled>>

(***************************************************************************)
(* Receipts.  The phone may answer late, more than once and out of order.  *)
(***************************************************************************)
Receipts == {"delivered", "started", "succeeded", "failed", "cancelled", "expired",
             "unknown_outcome", "awaiting"}

(* Mutant: the receipt's own state is stored. *)
CommandAfterRaw(state, r, dispatchStarted, late) == r

(* The command state a receipt stands for: dispatchStarted says that the   *)
(* effect was begun, late that it occurred after the command had expired.  *)
CommandAfter(state, r, dispatchStarted, late) ==
    LET c == IF r \in {"delivered", "awaiting"} THEN state ELSE r IN
    IF \/ dispatchStarted /\ c \in {"cancelled", "expired"}
       \/ late /\ c \in InDoubt
    THEN "unknown_outcome" ELSE c

(* Mutant: a UI task succeeds with its first command. *)
TaskAfterFirst(t, r, c) ==
    IF c = "unknown_outcome" THEN c
    ELSE CASE r = "awaiting"                 -> "awaiting"
           [] r \in {"delivered", "started"} -> "running"
           [] OTHER                          -> r

TaskAfter(t, r, c) ==
    IF c = "unknown_outcome" THEN c
    ELSE CASE r = "awaiting"                 -> "awaiting"
           [] r \in {"delivered", "started"} -> "running"
           [] r = "succeeded" /\ UI(t)       -> "running"
           [] OTHER                          -> r

(* Mutant: an uncertain command may start. *)
AppliesLate(state, c) == state \notin Settled

(* Late evidence may settle an uncertain command, never reopen it. *)
Applies(state, c) ==
    /\ state \notin Settled
    /\ state = "unknown_outcome" => c \notin {"unknown_outcome", "started"}

MayUpdate(t) == UI(t) => ~task[t].cancelled /\ Open(t)

Receipt(t, k, r, dispatchStarted, late) ==
    LET state == cmd[t][k].state
        c     == CommandAfter(state, r, dispatchStarted, late)
    IN
    /\ stream.live
    /\ state \notin {"none", "queued"}
    /\ r = "started" => dispatchStarted
    /\ late => cmd[t][k].due
    /\ Applies(state, c)
    /\ cmd' = [cmd EXCEPT ![t][k] = CmdTo(@, c)]
    /\ task' = IF MayUpdate(t) THEN [task EXCEPT ![t] = TaskTo(t, TaskAfter(t, r, c))] ELSE task
    /\ reconciled' = IF UI(t) /\ state = "unknown_outcome" THEN reconciled \cup {t} ELSE reconciled
    /\ UNCHANGED <<stream, session, sending>>

(***************************************************************************)
(* UI tasks: a fresh snapshot, then one step chosen from it.               *)
(***************************************************************************)
(* Sync of a UI tree (an observation of another kind changes no task). *)
Sync(t) ==
    /\ UI(t)
    /\ task[t].state = "running"      \* or succeeded, when no step reads the tree
    /\ ~task[t].cancelled
    /\ task[t].content
    /\ ParentsLive(t)
    /\ task' = [task EXCEPT ![t].snap = "new"]
    /\ UNCHANGED <<stream, session, cmd, sending, reconciled>>

RenewUI(t) ==
    /\ UI(t)
    /\ task[t].state \in {"queued", "running"}
    /\ ~task[t].cancelled
    /\ ParentsLive(t)
    /\ task[t].lease = 1
    /\ task' = [task EXCEPT ![t].lease = 2]
    /\ UNCHANGED <<stream, session, cmd, sending, reconciled>>

(* Mutant: an uncertain command is not waited for. *)
NoPendingInDoubt(t) == \A k \in Indices : cmd[t][k].state \notin {"queued"} \cup InDoubt

NoPending(t) == \A k \in Indices : cmd[t][k].state \in {"none", "succeeded"}

(* advanceUI, from a poll with nothing queued or from an approved plan. *)
AdvanceUI(t) ==
    /\ UI(t)
    /\ task[t].state = "running"
    /\ ~task[t].cancelled
    /\ ParentsLive(t)
    /\ NoPending(t)
    /\ task[t].content
    /\ task[t].snap = "new"
    /\ IF task[t].step = Steps
       THEN /\ task' = [task EXCEPT ![t] = TaskTo(t, "succeeded")]
            /\ UNCHANGED <<stream, cmd>>
       ELSE /\ task' = [task EXCEPT ![t].step = @ + 1, ![t].snap = "used"]
            /\ cmd' = [cmd EXCEPT ![t][task[t].step + 2] = NewCmd]
            /\ stream' = [stream EXCEPT !.seq = @ + 1]
    /\ UNCHANGED <<session, sending, reconciled>>

(***************************************************************************)
(* The poll of the stream and the sweep of the store.                      *)
(***************************************************************************)
Orphans == {t \in Tasks : Open(t) /\ ~task[t].cancelled /\ ~ParentsLive(t)}

SameMirror(t, u) == task[t].session = task[u].session /\ task[t].gen = task[u].gen

(* ReconcileParents ends the orphans one after the other and revokes the   *)
(* session of each, so a later task of the same session is an orphan too.  *)
ReconcileParents(D) ==
    /\ stream.live
    /\ D # {}
    /\ Orphans \subseteq D
    /\ \A t \in D : Open(t) /\ ~task[t].cancelled /\ \E u \in Orphans : SameMirror(t, u)
    /\ task' = EndTasks(D, Doubtful)
    /\ cmd' = EndCmds(D)
    /\ session' = [s \in Sessions |->
                     IF \E t \in D : task[t].session = s /\ task[t].gen = session[s].gen
                     THEN [session[s] EXCEPT !.state = "revoked"] ELSE session[s]]
    /\ UNCHANGED <<stream, sending, reconciled>>

LeaseLost(t) == UI(t) /\ Open(t) /\ task[t].lease = 0

(* Mutant: only a running task is swept. *)
SweptTaskRunning(t) ==
    IF LeaseLost(t) /\ task[t].state = "running" THEN Ended(t, Doubtful, "expired") ELSE task[t]

SweptTask(t) ==
    IF LeaseLost(t) THEN Ended(t, Doubtful, "expired")
    ELSE IF Open(t) /\ task[t].due
         THEN [Ended(t, Doubtful, "expired") EXCEPT !.cancelled = task[t].cancelled]
         ELSE task[t]

SweptCmd(c) == IF c.due THEN EndCmd(c, "expired") ELSE c

SweptSession(s) ==
    IF session[s].due /\ session[s].state = "active"
    THEN [session[s] EXCEPT !.state = "expired"] ELSE session[s]

Sweep ==
    /\ task' = [t \in Tasks |-> SweptTask(t)]
    /\ cmd' = [t \in Tasks |-> [k \in Indices |-> SweptCmd(cmd[t][k])]]
    /\ session' = [s \in Sessions |-> SweptSession(s)]
    /\ UNCHANGED <<stream, sending, reconciled>>

(* Device revocation or recovery (oauthstore). *)
InvalidateDeviceState ==
    /\ "invalidate" \in Faults
    /\ stream.epoch < MaxEpoch
    /\ stream' = [stream EXCEPT !.epoch = @ + 1, !.live = FALSE, !.caps = {}]
    /\ session' = [s \in Sessions |-> IF session[s].state = "none" THEN session[s]
                                      ELSE [session[s] EXCEPT !.state = "revoked", !.due = TRUE]]
    /\ task' = EndTasks(Tasks, Doubtful)
    /\ cmd' = EndCmds(Tasks)
    /\ UNCHANGED <<sending, reconciled>>

(***************************************************************************)
(* What the store does not decide.                                         *)
(***************************************************************************)
(* The turn is cancelled, the conversation cleared, the family revoked,    *)
(* the approval grows old or the external binding ends.                    *)
OriginEnds(t) ==
    /\ "origin" \in Faults
    /\ Open(t)
    /\ task[t].origin
    /\ task' = [task EXCEPT ![t].origin = FALSE]
    /\ UNCHANGED <<stream, session, cmd, sending, reconciled>>

(* A restart of the process: the ephemeral store is in memory, and a Send  *)
(* in progress leaves no DispatchLost behind.                              *)
Restart ==
    /\ "restart" \in Faults
    /\ sending' = {}
    /\ task' = [t \in Tasks |-> IF Open(t) THEN [task[t] EXCEPT !.content = FALSE, !.snap = "none"]
                                ELSE task[t]]
    /\ UNCHANGED <<stream, session, cmd, reconciled>>

(* A command expires before the lease it was issued under, that before the *)
(* task, and a task before its session (the expiryBound of each).          *)
CommandDue(t, k) ==
    /\ cmd[t][k].state \in {"queued"} \cup InDoubt
    /\ ~cmd[t][k].due
    /\ IF UI(t)
       THEN task' = task
       ELSE task' = [task EXCEPT ![t].due = TRUE]
    /\ cmd' = [cmd EXCEPT ![t][k].due = TRUE]
    /\ UNCHANGED <<stream, session, sending, reconciled>>

AllDue(t) == \A k \in Indices : cmd[t][k].state \in {"queued"} \cup InDoubt => cmd[t][k].due

LeasePasses(t) ==
    /\ UI(t) /\ Open(t)
    /\ task[t].lease > 0
    /\ task[t].lease = 1 => AllDue(t)
    /\ task' = [task EXCEPT ![t].lease = @ - 1]
    /\ UNCHANGED <<stream, session, cmd, sending, reconciled>>

TaskDue(t) ==
    /\ UI(t) /\ Open(t)
    /\ ~task[t].due
    /\ task' = [task EXCEPT ![t].due = TRUE, ![t].lease = 0, ![t].content = FALSE]
    /\ cmd' = [cmd EXCEPT ![t] = [k \in Indices |->
                  [cmd[t][k] EXCEPT !.due = @ \/ cmd[t][k].state \in {"queued"} \cup InDoubt]]]
    /\ UNCHANGED <<stream, session, sending, reconciled>>

SnapshotStale(t) ==
    /\ Open(t)
    /\ task[t].snap # "none"
    /\ task' = [task EXCEPT ![t].snap = "none"]
    /\ UNCHANGED <<stream, session, cmd, sending, reconciled>>

SessionDue(s) ==
    /\ session[s].state = "active"
    /\ ~session[s].due
    /\ \A t \in Tasks : Open(t) /\ task[t].session = s /\ task[t].gen = session[s].gen => task[t].due
    /\ session' = [session EXCEPT ![s].due = TRUE]
    /\ UNCHANGED <<stream, task, cmd, sending, reconciled>>

(***************************************************************************)
(* The specification.                                                      *)
(***************************************************************************)
Control ==
    \/ OpenControl
    \/ CloseControl
    \/ \E caps \in Reports : Capabilities(caps)
    \/ \E s \in Sessions, g \in 1 .. MaxGen : StopSession(s, g)
    \/ \E s \in Sessions, g \in 1 .. MaxGen, grants \in Grants : Session(s, g, grants)
    \/ \E D \in SUBSET Tasks : ReconcileParents(D)

Dispatch ==
    \/ \E t \in Tasks, s \in Sessions : Create(t, s) \/ CreateUI(t, s)
    \/ \E t \in Tasks, k \in Indices :
          Next_(t, k) \/ NextExpired(t, k) \/ Sent(t, k) \/ DispatchLost(t, k)
    \/ \E t \in Tasks, k \in Indices, r \in Receipts, started \in BOOLEAN, late \in BOOLEAN :
          Receipt(t, k, r, started, late)
    \/ \E t \in Tasks : Sync(t) \/ RenewUI(t) \/ AdvanceUI(t)

TimePasses ==
    \/ \E t \in Tasks, k \in Indices : CommandDue(t, k)
    \/ \E t \in Tasks : LeasePasses(t) \/ TaskDue(t) \/ SnapshotStale(t)
    \/ \E s \in Sessions : SessionDue(s)

Failures ==
    \/ InvalidateDeviceState
    \/ Restart
    \/ \E t \in Tasks : OriginEnds(t)

Next == Control \/ Dispatch \/ Sweep \/ TimePasses \/ Failures

Spec == Init /\ [][Next]_vars

(* Run sweeps every second while the process is up, and time passes. *)
Fairness ==
    /\ WF_vars(Sweep)
    /\ \A t \in Tasks : WF_vars(TaskDue(t)) /\ \A k \in Indices : WF_vars(CommandDue(t, k))

FairSpec == Spec /\ Fairness

(***************************************************************************)
(* Properties.                                                             *)
(***************************************************************************)
CmdStates == {"none", "queued", "unknown_outcome"} \cup InDoubt \cup Settled

TaskStates == {"none", "unknown_outcome"} \cup Active \cup Settled

StreamRow == [epoch : 0 .. MaxEpoch, live : BOOLEAN, caps : SUBSET Kinds, seq : Nat]

SessionRow == [state : {"none", "active", "revoked", "expired"}, gen : 0 .. MaxGen,
               epoch : 0 .. MaxEpoch, due : BOOLEAN, grants : SUBSET Kinds, stopped : BOOLEAN]

TaskRow == [state : TaskStates, cancelled : BOOLEAN, session : Sessions, gen : 0 .. MaxGen,
            step : 0 .. Steps, lease : 0 .. 2, due : BOOLEAN, snap : {"none", "new", "used"},
            content : BOOLEAN, origin : BOOLEAN]

CmdRow == [state : CmdStates, epoch : 0 .. MaxEpoch, seq : Nat, due : BOOLEAN]

(* The rows have the shapes the schema gives them. *)
TypeOK ==
    /\ stream \in StreamRow
    /\ session \in [Sessions -> SessionRow]
    /\ task \in [Tasks -> TaskRow]
    /\ cmd \in [Tasks -> [Indices -> CmdRow]]
    /\ sending \subseteq Tasks \X Indices
    /\ reconciled \subseteq Tasks

(* "Break before make: no queued command, old session or lease is          *)
(* inherited": what waits in the queue belongs to the current stream and   *)
(* to a task that nothing has ended (control.go, OpenControl).             *)
QueuedFenced ==
    \A t \in Tasks, k \in Indices :
        cmd[t][k].state = "queued" =>
            /\ cmd[t][k].epoch = stream.epoch
            /\ task[t].state \in {"queued", "running"}
            /\ ~task[t].cancelled

(* An active session belongs to the current stream and is the only one     *)
(* (CreateUI takes the active session of the device with no order).        *)
OneActiveSession ==
    \A s \in Sessions : session[s].state = "active" =>
        /\ session[s].epoch = stream.epoch
        /\ \A r \in Sessions \ {s} : session[r].state # "active"

(* The state a conversation is shown for a read or a system action is that *)
(* of its one command: cancelled or expired means that nothing was sent or *)
(* that the phone said so, and an effect in doubt is unknown_outcome.      *)
SystemTruthful ==
    \A t \in Tasks : ~UI(t) =>
        LET c == cmd[t][1].state IN
        /\ c \in {"none", "queued", "unknown_outcome"} \cup Settled => task[t].state = c
        /\ c \in InDoubt => task[t].state \in {"running", "awaiting"}

(* UI steps go out in order, and none before the one before it succeeded   *)
(* (advanceUI, pending).                                                   *)
StepsInOrder ==
    \A t \in Tasks, k \in Indices :
        /\ cmd[t][k].state # "none" => \A i \in 1 .. k - 1 : cmd[t][i].state = "succeeded"
        /\ task[t].state # "none" => (cmd[t][k].state # "none" <=> k <= task[t].step + 1)

(* One unresolved UI task at most holds a session generation (CreateUI,    *)
(* busy).                                                                  *)
ExclusiveUI ==
    \A t, u \in {x \in Tasks : UI(x) /\ task[x].state \in Active \cup {"unknown_outcome"}} :
        t # u => ~SameMirror(t, u)

(* A succeeded UI task ran every step of its scenario. *)
UISuccessComplete ==
    \A t \in Tasks : UI(t) /\ task[t].state = "succeeded" =>
        \A k \in Indices : cmd[t][k].state = "succeeded"

(* "Sweep never replays a dispatch", and nothing else does: a command that *)
(* left the queue never returns to it, and a settled one never changes.    *)
NeverReplayed ==
    [][\A t \in Tasks, k \in Indices :
         /\ cmd[t][k].state \notin {"none", "queued"} => cmd'[t][k].state # "queued"
         /\ cmd[t][k].state \in Settled => cmd'[t][k].state = cmd[t][k].state]_vars

(* A task that has ended never becomes active again, whatever receipts     *)
(* still arrive, and a cancellation stays requested.                       *)
EndedForGood ==
    [][\A t \in Tasks :
         /\ task[t].state \in Settled => task'[t].state = task[t].state
         /\ task[t].state = "unknown_outcome" => task'[t].state \notin Active
         /\ task[t].cancelled => task'[t].cancelled]_vars

(* "A later regrant must establish new native authority, not revive an old *)
(* session": a session generation that is no longer active stays so.       *)
NoRevival ==
    [][\A s \in Sessions :
         session[s].state \in {"revoked", "expired"} /\ session'[s].state = "active"
            => session'[s].gen > session[s].gen]_vars

(* Whatever the phone does, every task ends: its deadline passes and the   *)
(* sweep settles it.                                                       *)
Settles == \A t \in Tasks : Open(t) ~> ~Open(t)
=============================================================================
