----------------------------- MODULE ChatEvents -----------------------------
(***************************************************************************)
(* How a change reaches the phone's screen: the phone task's own database  *)
(* keeps an outbox, a publisher copies it into the conversation database,  *)
(* every change there appends an event, and a client that holds a snapshot *)
(* follows the events with a cursor.                                       *)
(* Code: internal/mobile/devices/events.go, internal/mobile/conversations  *)
(* (task_events.go, events.go) and WatchEvents of the transport.           *)
(*                                                                         *)
(* A version of the task stands for its state; a resource of the           *)
(* conversation database is identified by the event of its last change.    *)
(***************************************************************************)
EXTENDS Naturals, Sequences, FiniteSets

CONSTANTS Keep,          \* events retained per owner, 10000 in the code
          Batch,         \* events read at once, 100 in the code
          MaxVersion,    \* bound: transitions of the phone task
          MaxEdits,      \* bound: other changes of the conversation
          MaxCrashes     \* bound: publisher crashes and broken streams

ASSUME EventAssumption == Keep \in Nat \ {0} /\ Batch \in Nat \ {0} /\ MaxVersion \in Nat

VARIABLES
    version,    \* state of the phone task
    outbox,     \* mobile_phone_events, in order of seq
    batch,      \* PublishEvents: rows read and not yet marked
    sent,       \* PublishEvents: the head of batch has been applied
    inbox,      \* mobile_task_event_inbox
    taskRef,    \* mobile_task_references
    log,        \* mobile_events: last sequence and oldest one retained
    changed,    \* event of the last change of each resource
    snapshot,   \* is the client's snapshot still stored
    client,     \* what the client knows
    stream,     \* WatchEvents
    edits, crashes, announced

eventVars == <<version, outbox, batch, sent, inbox, taskRef, log, changed,
               snapshot, client, stream, edits, crashes, announced>>
sourceVars == <<version, outbox, batch, sent, inbox, taskRef>>
clientVars == <<snapshot, client, stream>>

Resources == {"task", "turn"}

EventInit ==
    /\ version = 0 /\ outbox = <<>> /\ batch = <<>> /\ sent = FALSE
    /\ inbox = {} /\ taskRef = [version |-> 0, seq |-> 0]
    /\ log = [first |-> 1, last |-> 0]
    /\ changed = [r \in Resources |-> 0]
    /\ snapshot = FALSE
    /\ client = [cursor |-> 0, seen |-> [r \in Resources |-> 0], follows |-> FALSE]
    /\ stream = [open |-> FALSE, at |-> 0, queue |-> <<>>]
    /\ edits = 0 /\ crashes = 0
    /\ announced = [i \in 1 .. MaxVersion |-> 0]

-----------------------------------------------------------------------------
(* Repository.event: the change and its event are one transaction, which   *)
(* also deletes events beyond the last Keep and those of a week ago.       *)
Oldest == IF log.last + 1 > Keep /\ log.first <= log.last + 1 - Keep
          THEN log.last + 2 - Keep ELSE log.first

Event(r) ==
    /\ \E first \in Oldest .. log.last + 1 : log' = [last |-> log.last + 1, first |-> first]
    /\ changed' = [changed EXCEPT ![r] = log.last + 1]

(* Any other write of the conversation: a turn, a prompt, a title. *)
Edit ==
    /\ edits < MaxEdits /\ edits' = edits + 1
    /\ Event("turn")
    /\ UNCHANGED <<sourceVars, clientVars, crashes, announced>>

(* A transition of the phone task, with its outbox row (taskEvent). *)
TaskTransition ==
    /\ version < MaxVersion /\ version' = version + 1
    /\ outbox' = Append(outbox, [published |-> FALSE, old |-> FALSE])
    /\ UNCHANGED <<batch, sent, inbox, taskRef, log, changed, clientVars, edits, crashes, announced>>

(* PublishEvents reads the unpublished rows with the task's present state. *)
ReadOutbox ==
    /\ batch = <<>>
    /\ LET due == {i \in DOMAIN outbox : ~outbox[i].published}
           low == {i \in due : Cardinality({j \in due : j < i}) < Batch} IN
       /\ due # {}
       /\ batch' = [k \in 1 .. Cardinality(low) |->
             [seq |-> CHOOSE i \in low : Cardinality({j \in low : j < i}) = k - 1,
              version |-> version]]
    /\ sent' = FALSE
    /\ UNCHANGED <<version, outbox, inbox, taskRef, log, changed, clientVars, edits, crashes, announced>>

(* The inbox takes every row once and ignores a week-old one. *)
Ignored(seq) == outbox[seq].old \/ seq \in inbox

(* PublishTask.  The conversation exists: nothing deletes one. *)
PublishTask ==
    /\ batch # <<>> /\ ~sent
    /\ sent' = TRUE
    /\ LET e == Head(batch) IN
       \/ /\ Ignored(e.seq)
          /\ UNCHANGED <<inbox, taskRef, log, changed, announced>>
       \/ /\ ~Ignored(e.seq)
          /\ inbox' = (inbox \union {e.seq}) \ {i \in DOMAIN outbox : outbox[i].old}
          /\ taskRef' = IF e.seq >= taskRef.seq THEN e ELSE taskRef
          /\ Event("task")
          /\ announced' = [announced EXCEPT ![e.seq] = @ + 1]
    /\ UNCHANGED <<version, outbox, batch, clientVars, edits, crashes>>

(* The acknowledgement is a write of its own, in the other database. *)
MarkPublished ==
    /\ batch # <<>> /\ sent
    /\ outbox' = [outbox EXCEPT ![Head(batch).seq].published = TRUE]
    /\ batch' = Tail(batch) /\ sent' = FALSE
    /\ UNCHANGED <<version, inbox, taskRef, log, changed, clientVars, edits, crashes, announced>>

(* The process dies, or a write fails: what was read is read again. *)
PublisherFails ==
    /\ batch # <<>> /\ crashes < MaxCrashes
    /\ batch' = <<>> /\ sent' = FALSE
    /\ crashes' = crashes + 1
    /\ UNCHANGED <<version, outbox, inbox, taskRef, log, changed, clientVars, edits, announced>>

(* A row is a week old. *)
OutboxAges(i) ==
    /\ i \in DOMAIN outbox /\ ~outbox[i].old
    /\ \A j \in 1 .. i - 1 : outbox[j].old
    /\ outbox' = [outbox EXCEPT ![i].old = TRUE]
    /\ UNCHANGED <<version, batch, sent, inbox, taskRef, log, changed, clientVars, edits, crashes, announced>>

-----------------------------------------------------------------------------
(* Mutant: the watermark is read after the rows. *)
SnapshotTorn == [cursor |-> log.last, seen |-> client.seen, follows |-> TRUE]

(* Snapshot: the state and the watermark of one transaction. *)
SnapshotNow == [cursor |-> log.last, seen |-> changed, follows |-> TRUE]

TakeSnapshot ==
    /\ ~client.follows
    /\ snapshot' = TRUE
    /\ client' = SnapshotNow
    /\ stream' = [open |-> FALSE, at |-> 0, queue |-> <<>>]
    /\ UNCHANGED <<sourceVars, log, changed, edits, crashes, announced>>

(* Expiry, the limit of 32 snapshots, or a cleared history. *)
RetireSnapshot ==
    /\ snapshot /\ snapshot' = FALSE
    /\ UNCHANGED <<sourceVars, log, changed, client, stream, edits, crashes, announced>>

(* The cursors Events accepts. *)
Resumable(c) == snapshot /\ ~(log.last > 0 /\ c < log.first - 1)

(* Mutant: a new stream begins with the present. *)
WatchFromNow ==
    /\ client.follows /\ ~stream.open
    /\ stream' = [open |-> TRUE, at |-> log.last, queue |-> <<>>]
    /\ UNCHANGED <<sourceVars, log, changed, snapshot, client, edits, crashes, announced>>

(* WatchEvents with the client's cursor. *)
Watch ==
    /\ client.follows /\ ~stream.open
    /\ stream' = [open |-> TRUE, at |-> client.cursor, queue |-> <<>>]
    /\ UNCHANGED <<sourceVars, log, changed, snapshot, client, edits, crashes, announced>>

(* One round of WatchEvents: the next events, or ErrResync. *)
PollEvents ==
    /\ stream.open /\ stream.queue = <<>>
    /\ \/ /\ Resumable(stream.at) /\ log.last > stream.at
          /\ LET n == IF log.last - stream.at < Batch THEN log.last - stream.at ELSE Batch IN
             stream' = [stream EXCEPT !.queue = [k \in 1 .. n |-> stream.at + k],
                                      !.at = stream.at + n]
          /\ UNCHANGED client
       \/ /\ ~Resumable(stream.at)
          /\ stream' = [stream EXCEPT !.open = FALSE]
          /\ client' = [client EXCEPT !.follows = FALSE]
    /\ UNCHANGED <<sourceVars, log, changed, snapshot, edits, crashes, announced>>

(* An event is sent with its own resource as it is by now; of a task it is *)
(* the reference, which the client then reads.  The log does not keep what *)
(* an event is of: an event that is no resource's last may be of any that  *)
(* changed since.                                                          *)
SendEvent ==
    /\ stream.open /\ stream.queue # <<>>
    /\ LET seq == Head(stream.queue) IN
       \E r \in Resources :
          /\ changed[r] >= seq /\ \A q \in Resources : changed[q] = seq => q = r
          /\ client' = [client EXCEPT !.cursor = seq, !.seen[r] = changed[r]]
    /\ stream' = [stream EXCEPT !.queue = Tail(@)]
    /\ UNCHANGED <<sourceVars, log, changed, snapshot, edits, crashes, announced>>

(* The connection breaks with events on the way. *)
StreamBreaks ==
    /\ stream.open /\ crashes < MaxCrashes
    /\ stream' = [open |-> FALSE, at |-> 0, queue |-> <<>>]
    /\ crashes' = crashes + 1
    /\ UNCHANGED <<sourceVars, log, changed, snapshot, client, edits, announced>>

EventNext ==
    \/ Edit \/ TaskTransition \/ ReadOutbox \/ PublishTask \/ MarkPublished \/ PublisherFails
    \/ \E i \in 1 .. MaxVersion : OutboxAges(i)
    \/ TakeSnapshot \/ RetireSnapshot \/ Watch \/ PollEvents \/ SendEvent \/ StreamBreaks

EventSpec == EventInit /\ [][EventNext]_eventVars

-----------------------------------------------------------------------------
(* Properties.                                                             *)

(* Rows, cursors and references are within what was ever written. *)
EventTypeOK ==
    /\ version \in 0 .. MaxVersion /\ Len(outbox) = version
    /\ \A k \in DOMAIN batch : batch[k].seq \in DOMAIN outbox /\ batch[k].version <= version
    /\ inbox \subseteq DOMAIN outbox
    /\ taskRef.seq \in 0 .. version /\ taskRef.version \in 0 .. version
    /\ log.first \in Nat \ {0} /\ log.first <= log.last + 1
    /\ \A r \in Resources : changed[r] <= log.last
    /\ client.cursor <= log.last

(* A client that follows the events has seen, for every resource, each     *)
(* change its cursor has passed: no event is lost between the snapshot's   *)
(* watermark and the first event, across a broken stream, or to the        *)
(* deletion of old events (Snapshot, Events, WatchEvents).                 *)
NothingMissed ==
    client.follows => \A r \in Resources :
        changed[r] <= client.cursor => client.seen[r] >= changed[r]

(* One transition of a phone task is one event of the chat, however often  *)
(* its row is published: the inbox must remember it for as long as the row *)
(* can be read again.                                                      *)
AnnouncedOnce == \A i \in DOMAIN announced : announced[i] <= 1

(* A transition reaches the chat, or its row is a week old before a        *)
(* publisher succeeds.                                                     *)
RefCatchesUp == \A v \in 1 .. MaxVersion :
    version = v ~> \/ taskRef.version >= v
                   \/ \E i \in DOMAIN outbox : i = Len(outbox) /\ outbox[i].old

(* A client that keeps watching sees the last change. *)
ClientCatchesUp == \A r \in Resources, n \in 1 .. MaxVersion + MaxEdits :
    changed[r] = n ~> client.seen[r] >= n

(* Both at once: a follower misses nothing, and hears of nothing twice.    *)
EventSafe == NothingMissed /\ AnnouncedOnce
=============================================================================
