---------------------------- MODULE MobileProofs ----------------------------
(***************************************************************************)
(* Proofs about the mobile assistant.  Its turns: turns of a chat keep     *)
(* their order, nothing acts without its approval, an ended turn stays     *)
(* ended, and the whole implements what ToolEffects promises.  The events  *)
(* its clients follow: none is missed, none is told twice.                 *)
(***************************************************************************)
EXTENDS MobileTurns, ChatEvents, FiniteSetTheorems, TLAPS

TurnStates == {"none"} \union Live \union TurnEnded
TurnRec == [state : TurnStates, gen : 0 .. MaxFaults + 1, epoch : Nat, cancel : BOOLEAN,
            stamp : 0 .. MaxFaults + 1, seq : 0 .. Cardinality(Turns)]
JournalRec == [state : {"none", "prepared", "started", "succeeded", "failed",
                        "unknown_outcome"}, epoch : Nat]
PromptRec == [state : {"none", "open", "answered", "rejected", "expired", "invalidated"},
              epoch : Nat, approved : BOOLEAN, late : BOOLEAN]
WorkRec == [pc : {"none", "think", "ask", "confirm", "ready", "exec", "final", "gone"},
            epoch : Nat, run : 0 .. MaxFaults + 1, gen : 0 .. MaxFaults + 1,
            op : Ops \union {NoOp}, rounds : Nat,
            out : {"completed", "failed", "unknown_outcome"}]

(* Every counter of the owner is paid for by a disturbance. *)
OwnerTyped ==
    /\ faults \in 0 .. MaxFaults
    /\ chat \in [Chats -> 1 .. faults + 1]
    /\ account \in [stamp : 1 .. faults + 1, enabled : BOOLEAN, family : BOOLEAN]

EngineTyped ==
    /\ runLease \in [epoch : 0 .. MaxFaults + 1, live : BOOLEAN]
    /\ engine \in [Runs -> {"none", "run", "stopping", "gone"}]

RowsTyped ==
    /\ turn \in [Turns -> TurnRec] /\ work \in [Turns -> WorkRec]
    /\ DOMAIN journal = Turns /\ \A t \in Turns : journal[t] \in [OpsOf[t] -> JournalRec]
    /\ DOMAIN prompt = Turns /\ \A t \in Turns : prompt[t] \in [OpsOf[t] -> PromptRec]
    /\ DOMAIN effects = Turns /\ \A t \in Turns : effects[t] \in [OpsOf[t] -> Nat]
    /\ inflight \subseteq UNION {{t} \X OpsOf[t] : t \in Turns}

(* A worker between two calls has no operation; one that asks has not      *)
(* started it.                                                             *)
WorkInv(t) ==
    /\ work[t].pc \in {"ask", "confirm", "ready", "exec"} => work[t].op \in OpsOf[t]
    /\ work[t].pc = "ask" => journal[t][work[t].op].state = "prepared"

Dispatched == {"started", "succeeded", "unknown_outcome"}

(* What the journal's row of an operation says of its effect: none before  *)
(* it was started, one at the most, and none to come once it succeeded.    *)
(* What was started had its approval, and its prompt is closed for good.   *)
OpInv(t, o) ==
    /\ effects[t][o] <= 1
    /\ journal[t][o].state \notin Dispatched => effects[t][o] = 0 /\ <<t, o>> \notin inflight
    /\ journal[t][o].state = "succeeded" => <<t, o>> \notin inflight
    /\ <<t, o>> \in inflight => effects[t][o] = 0 /\ o \notin NativeOps
    /\ o \in NativeOps /\ effects[t][o] > 0 => journal[t][o].state = "succeeded"
    /\ o \in ConfirmOps /\ journal[t][o].state \in Dispatched =>
          prompt[t][o].approved /\ prompt[t][o].state # "open"

(* A turn that reports an outcome for certain has no operation open.       *)
EndInv(t) == turn[t].state \in {"completed", "failed", "cancelled"} => ~Unfinished(t)

Known == {t \in Turns : turn[t].state # "none"}

(* Turns are numbered as they arrive. *)
OrderInv ==
    /\ \A t \in Known : turn[t].seq \in 1 .. Cardinality(Known)
    /\ \A t, u \in Known : turn[t].seq = turn[u].seq => t = u
    /\ OneTurnPerChat

TurnIInv ==
    /\ OwnerTyped /\ EngineTyped /\ RowsTyped /\ OrderInv
    /\ \A t \in Turns : WorkInv(t) /\ EndInv(t) /\ \A o \in OpsOf[t] : OpInv(t, o)

-----------------------------------------------------------------------------
(* Rows.                                                                   *)

(* How a step may change the row of a turn: an ended turn keeps its state, *)
(* and none is called cancelled that may have done something.              *)
TurnRow(t) ==
    \/ turn'[t].state = turn[t].state
    \/ turn[t].state \notin TurnEnded /\ (turn'[t].state = "cancelled" => ~Touched(t))

(* A step that brings no new turn and makes none run keeps the order.      *)
LEMMA OrderKept ==
    ASSUME OrderInv,
           \A t \in Turns :
              /\ turn'[t].seq = turn[t].seq
              /\ turn'[t].state = "none" <=> turn[t].state = "none"
              /\ turn'[t].state \in Active => turn[t].state \in Active
              /\ turn'[t].state \in Live => turn[t].state \in Live
    PROVE  OrderInv'
<1>1. Known' = Known  BY DEF Known
<1>2. OneTurnPerChat'  BY DEF OrderInv, OneTurnPerChat
<1> QED  BY <1>1, <1>2 DEF OrderInv, Known

Stopped(r, s) == [r EXCEPT !.cancel = TRUE, !.epoch = @ + 1, !.state = s]

(* A record of a turn with another state, a new epoch and the mark. *)
LEMMA StoppedRow ==
    ASSUME NEW r \in TurnRec, NEW s \in TurnStates
    PROVE  Stopped(r, s) \in TurnRec /\ Stopped(r, s).state = s /\ Stopped(r, s).seq = r.seq
<1> DEFINE a == [r EXCEPT !.cancel = TRUE]
           b == [a EXCEPT !.epoch = @ + 1]
           q == [b EXCEPT !.state = s]
<1>1. a \in TurnRec /\ a.seq = r.seq  BY DEF TurnRec
<1>2. Stopped(r, s) = q  BY DEF Stopped
<1> HIDE DEF a
<1>3. b \in TurnRec /\ b.seq = r.seq  BY <1>1 DEF TurnRec
<1> HIDE DEF b
<1>4. q \in TurnRec /\ q.seq = r.seq /\ q.state = s  BY <1>3 DEF TurnRec
<1> HIDE DEF q
<1> QED  BY <1>1, <1>2, <1>3, <1>4

(* A turn that is ended from outside. *)
LEMMA HaltedRow ==
    ASSUME NEW t \in Turns, turn \in [Turns -> TurnRec]
    PROVE  /\ Halted(t) \in TurnRec /\ Halted(t).seq = turn[t].seq
           /\ Halted(t).state \in {"unknown_outcome", "cancelled"}
           /\ Halted(t).state = "cancelled" => ~Touched(t)
<1> DEFINE s == IF Touched(t) THEN "unknown_outcome" ELSE "cancelled"
<1>1. s \in TurnStates /\ s \in {"unknown_outcome", "cancelled"}
      /\ (s = "cancelled" => ~Touched(t))
  BY DEF TurnStates, TurnEnded
<1>2. Halted(t) = Stopped(turn[t], s)  BY DEF Halted, Stopped
<1> HIDE DEF s
<1>3. turn[t] \in TurnRec  OBVIOUS
<1> QED  BY <1>1, <1>2, <1>3, StoppedRow

(* The prompts of a turn that has no more use for them. *)
LEMMA InvalidatedRow ==
    ASSUME NEW t \in Turns, prompt[t] \in [OpsOf[t] -> PromptRec]
    PROVE  /\ Invalidated(t) \in [OpsOf[t] -> PromptRec]
           /\ \A o \in OpsOf[t] :
                 /\ Invalidated(t)[o].approved = prompt[t][o].approved
                 /\ Invalidated(t)[o].state # "open"
<1> SUFFICES ASSUME NEW o \in OpsOf[t]
             PROVE  /\ Invalidated(t)[o] \in PromptRec
                    /\ Invalidated(t)[o].approved = prompt[t][o].approved
                    /\ Invalidated(t)[o].state # "open"
  BY DEF Invalidated
<1> DEFINE q == [prompt[t][o] EXCEPT !.state = "invalidated"]
<1>1. prompt[t][o] \in PromptRec  OBVIOUS
<1>2. q \in PromptRec /\ q.approved = prompt[t][o].approved /\ q.state = "invalidated"
  BY <1>1 DEF PromptRec
<1>3. Invalidated(t)[o] = IF prompt[t][o].state = "open" THEN q ELSE prompt[t][o]
  BY DEF Invalidated
<1> HIDE DEF q
<1> QED  BY <1>1, <1>2, <1>3

(* A step that leaves the journal and the outside alone, closes prompts at *)
(* most, and moves no worker to a question.                                *)
LEMMA OpsKept ==
    ASSUME NEW t \in Turns, NEW o \in OpsOf[t], OpInv(t, o),
           \/ journal'[t][o].state = journal[t][o].state
           \/ journal[t][o].state = "started" /\ journal'[t][o].state = "unknown_outcome",
           effects'[t][o] = effects[t][o],
           <<t, o>> \in inflight' => <<t, o>> \in inflight,
           prompt'[t][o].approved = prompt[t][o].approved,
           prompt'[t][o].state = "open" => prompt[t][o].state = "open"
    PROVE  OpInv(t, o)'
BY DEF OpInv, Dispatched

WithState(r, s) == [r EXCEPT !.state = s]

(* A row whose state alone changes. *)
LEMMA StateRow ==
    ASSUME NEW r \in TurnRec, NEW s \in TurnStates
    PROVE  WithState(r, s) \in TurnRec /\ WithState(r, s).state = s /\ WithState(r, s).seq = r.seq
BY DEF TurnRec, WithState

(* The first state. *)
LEMMA TurnInitInv == TurnInit => TurnIInv
<1> SUFFICES ASSUME TurnInit PROVE TurnIInv  OBVIOUS
<1> USE TurnAssumption
<1>1. OwnerTyped /\ EngineTyped  BY DEF OwnerTyped, EngineTyped, TurnInit, Runs
<1>2. Cardinality(Turns) \in Nat  BY FS_CardinalityType
<1>3. NoTurn \in TurnRec /\ NoTurn.state = "none"
  <2>1. 0 \in 0 .. MaxFaults + 1 /\ 0 \in 0 .. Cardinality(Turns) /\ 0 \in Nat  BY <1>2
  <2>2. "none" \in TurnStates  BY DEF TurnStates
  <2> QED  BY <2>1, <2>2 DEF TurnRec, NoTurn
<1>4. NoWork \in WorkRec /\ NoWork.pc = "none"  BY DEF WorkRec, NoWork
<1>5. \A t \in Turns : turn[t] = NoTurn /\ work[t] = NoWork  BY DEF TurnInit
<1>6. RowsTyped
  <2>1. turn \in [Turns -> TurnRec] /\ work \in [Turns -> WorkRec]
    <3> HIDE DEF TurnRec, WorkRec, NoTurn, NoWork
    <3> QED  BY <1>3, <1>4 DEF TurnInit
  <2>2. [state |-> "none", epoch |-> 0] \in JournalRec  BY DEF JournalRec
  <2>3. [state |-> "none", epoch |-> 0, approved |-> FALSE, late |-> FALSE] \in PromptRec
    BY DEF PromptRec
  <2>4. DOMAIN journal = Turns /\ \A t \in Turns : journal[t] \in [OpsOf[t] -> JournalRec]
    BY <2>2 DEF TurnInit
  <2>5. DOMAIN prompt = Turns /\ \A t \in Turns : prompt[t] \in [OpsOf[t] -> PromptRec]
    BY <2>3 DEF TurnInit
  <2>6. DOMAIN effects = Turns /\ \A t \in Turns : effects[t] \in [OpsOf[t] -> Nat]
    BY DEF TurnInit
  <2> QED  BY <2>1, <2>4, <2>5, <2>6 DEF RowsTyped, TurnInit
<1>7. OrderInv
  <2>1. Known = {}  BY <1>3, <1>5 DEF Known
  <2>2. OneTurnPerChat  BY <1>3, <1>5 DEF OneTurnPerChat, Active
  <2> QED  BY <2>1, <2>2 DEF OrderInv
<1>8. ASSUME NEW t \in Turns
      PROVE  WorkInv(t) /\ EndInv(t) /\ \A o \in OpsOf[t] : OpInv(t, o)
  <2>1. WorkInv(t) /\ EndInv(t)  BY <1>3, <1>4, <1>5 DEF WorkInv, EndInv
  <2>2. ASSUME NEW o \in OpsOf[t] PROVE OpInv(t, o)
    <3>1. effects[t][o] = 0 /\ journal[t][o].state = "none" /\ inflight = {}
      BY DEF TurnInit
    <3> QED  BY <3>1 DEF OpInv, Dispatched
  <2> QED  BY <2>1, <2>2
<1> QED  BY <1>1, <1>6, <1>7, <1>8 DEF TurnIInv

(* A step that starts and finishes no call: what it may do to turns,       *)
(* workers and prompts.                                                    *)
LEMMA NoCallNow ==
    ASSUME TurnIInv, OwnerTyped', EngineTyped', OrderInv',
           turn' \in [Turns -> TurnRec], work' \in [Turns -> WorkRec],
           DOMAIN prompt' = Turns,
           UNCHANGED <<journal, effects, inflight>>,
           \A t \in Turns :
              /\ TurnRow(t)
              /\ turn'[t].state \in {"completed", "failed"} =>
                    turn'[t].state = turn[t].state \/ ~Unfinished(t)
              /\ WorkInv(t)'
              /\ prompt'[t] \in [OpsOf[t] -> PromptRec]
              /\ \A o \in OpsOf[t] :
                    /\ prompt'[t][o].approved = prompt[t][o].approved
                    /\ prompt'[t][o].state = "open" => prompt[t][o].state = "open"
    PROVE  TurnIInv'
<1>1. RowsTyped'  BY DEF RowsTyped, TurnIInv
<1>2. ASSUME NEW t \in Turns PROVE EndInv(t)'
  <2>1. EndInv(t) /\ TurnRow(t)  BY DEF TurnIInv
  <2>2. Unfinished(t)' = Unfinished(t)  BY DEF Unfinished
  <2>3. ~Touched(t) => ~Unfinished(t)  BY DEF Touched
  <2> QED  BY <2>1, <2>2, <2>3 DEF EndInv, TurnRow
<1>3. ASSUME NEW t \in Turns, NEW o \in OpsOf[t] PROVE OpInv(t, o)'
  BY OpsKept DEF TurnIInv
<1> QED  BY <1>1, <1>2, <1>3 DEF TurnIInv

(* The workers stay as they are. *)
LEMMA SameWork ==
    ASSUME TurnIInv, UNCHANGED <<work, journal>>
    PROVE  work' \in [Turns -> WorkRec] /\ \A t \in Turns : WorkInv(t)'
BY DEF TurnIInv, RowsTyped, WorkInv

(* The prompts stay as they are. *)
LEMMA SamePrompt ==
    ASSUME TurnIInv, UNCHANGED prompt
    PROVE  /\ DOMAIN prompt' = Turns
           /\ \A t \in Turns :
                 /\ prompt'[t] \in [OpsOf[t] -> PromptRec]
                 /\ \A o \in OpsOf[t] :
                       /\ prompt'[t][o].approved = prompt[t][o].approved
                       /\ prompt'[t][o].state = "open" => prompt[t][o].state = "open"
BY DEF TurnIInv, RowsTyped

-----------------------------------------------------------------------------
(* Requests of the owner.                                                  *)

(* A new turn comes last. *)
LEMMA AcceptInv == ASSUME TurnIInv, NEW t \in Turns, Accept(t)
                   PROVE TurnIInv' /\ \A u \in Turns : TurnRow(u)
<1> USE TurnAssumption
<1> DEFINE n == 1 + Cardinality(Known)
           r == [state |-> "queued", gen |-> chat[ChatOf[t]], epoch |-> 0,
                 cancel |-> FALSE, stamp |-> account.stamp, seq |-> n]
<1>1. /\ OwnerTyped /\ EngineTyped /\ RowsTyped /\ OrderInv
      /\ turn[t].state = "none" /\ turn' = [turn EXCEPT ![t] = r]
      /\ UNCHANGED <<chat, journal, prompt, runLease, account, engine, work, inflight,
                     effects, faults>>
  BY DEF Accept, TurnIInv, Known
<1>2. IsFiniteSet(Known) /\ Cardinality(Known) \in Nat
      /\ n = Cardinality(Known \union {t}) /\ n \in 0 .. Cardinality(Turns)
  <2>1. Known \subseteq Turns /\ Known \union {t} \subseteq Turns /\ t \notin Known
    BY <1>1 DEF Known
  <2>2. IsFiniteSet(Known) /\ IsFiniteSet(Known \union {t})  BY <2>1, FS_Subset
  <2>3. Cardinality(Known) \in Nat /\ Cardinality(Turns) \in Nat
    BY <2>2, FS_CardinalityType
  <2>4. Cardinality(Known \union {t}) = Cardinality(Known) + 1  BY <2>1, <2>2, FS_AddElement
  <2>5. Cardinality(Known \union {t}) <= Cardinality(Turns)  BY <2>1, FS_Subset
  <2> QED  BY <2>2, <2>3, <2>4, <2>5
<1> HIDE DEF n
<1>3. r \in TurnRec /\ r.state = "queued" /\ r.seq = n
  <2>1. chat[ChatOf[t]] \in 0 .. MaxFaults + 1 /\ account.stamp \in 0 .. MaxFaults + 1
    BY <1>1 DEF OwnerTyped
  <2>2. "queued" \in TurnStates  BY DEF TurnStates, Live, Waiting
  <2> QED  BY <1>2, <2>1, <2>2 DEF TurnRec
<1> HIDE DEF r
<1>4. /\ turn' \in [Turns -> TurnRec] /\ turn'[t] = r
      /\ \A u \in Turns \ {t} : turn'[u] = turn[u]
  BY <1>1, <1>3 DEF RowsTyped
<1>5. OrderInv'
  <2>1. Known' = Known \union {t} /\ t \notin Known  BY <1>1, <1>3, <1>4 DEF Known
  <2>2. Cardinality(Known') = n /\ n = 1 + Cardinality(Known)  BY <1>2, <2>1 DEF n
  <2>3. \A u \in Known : turn[u].seq \in 1 .. Cardinality(Known)  BY <1>1 DEF OrderInv
  <2>4. \A u \in Known' : turn'[u].seq \in 1 .. Cardinality(Known')
    <3> SUFFICES ASSUME NEW u \in Known' PROVE turn'[u].seq \in 1 .. n  BY <2>2
    <3>1. CASE u = t  BY <1>2, <1>3, <1>4, <2>2, <3>1
    <3>2. CASE u # t
      <4>1. u \in Known /\ u \in Turns /\ turn'[u] = turn[u]  BY <1>4, <2>1, <3>2 DEF Known
      <4> QED  BY <1>2, <2>2, <2>3, <4>1
    <3> QED  BY <3>1, <3>2
  <2>5. \A u, v \in Known' : turn'[u].seq = turn'[v].seq => u = v
    BY <1>1, <1>2, <1>3, <1>4, <2>1, <2>2, <2>3 DEF OrderInv, Known
  <2>6. OneTurnPerChat'
    <3> SUFFICES ASSUME NEW u \in Turns, NEW v \in Turns, turn'[u].state \in Active,
                        turn'[v].state \in Live, ChatOf[u] = ChatOf[v], u # v
                 PROVE  turn'[v].seq > turn'[u].seq
      BY DEF OneTurnPerChat
    <3>1. u # t /\ turn[u].state \in Active  BY <1>3, <1>4 DEF Active
    <3>2. u \in Known  BY <3>1 DEF Active, Known
    <3>3. CASE v = t  BY <1>2, <1>3, <1>4, <2>2, <2>3, <3>1, <3>2, <3>3
    <3>4. CASE v # t
      BY <1>1, <1>4, <3>1, <3>4 DEF OrderInv, OneTurnPerChat
    <3> QED  BY <3>3, <3>4
  <2> QED  BY <2>4, <2>5, <2>6 DEF OrderInv
<1>6. \A u \in Turns : TurnRow(u)  BY <1>1, <1>3, <1>4 DEF TurnRow, TurnEnded
<1>7. OwnerTyped' /\ EngineTyped'  BY <1>1 DEF OwnerTyped, EngineTyped
<1>8. \A u \in Turns : turn'[u].state \in {"completed", "failed"} => turn'[u].state = turn[u].state
  BY <1>3, <1>4
<1>9. TurnIInv'
  BY <1>1, <1>4, <1>5, <1>6, <1>7, <1>8, NoCallNow, SameWork, SamePrompt
<1> QED  BY <1>6, <1>9

(* A row that is cancelled, by the owner or by the worker that was fenced. *)
LEMMA CancelRowFacts ==
    ASSUME TurnIInv, NEW t \in Turns, CancelRow(t)
    PROVE  /\ turn' \in [Turns -> TurnRec] /\ OrderInv' /\ DOMAIN prompt' = Turns
           /\ \A u \in Turns :
                 /\ TurnRow(u)
                 /\ turn'[u].state \in {"completed", "failed"} => turn'[u].state = turn[u].state
                 /\ prompt'[u] \in [OpsOf[u] -> PromptRec]
                 /\ \A o \in OpsOf[u] :
                       /\ prompt'[u][o].approved = prompt[u][o].approved
                       /\ prompt'[u][o].state = "open" => prompt[u][o].state = "open"
<1>1. RowsTyped /\ OrderInv /\ turn \in [Turns -> TurnRec] /\ turn[t] \in TurnRec
  BY DEF TurnIInv, RowsTyped
<1>2. CASE /\ turn[t].state \in Live
           /\ turn' = [turn EXCEPT ![t] = Halted(t)]
           /\ prompt' = [prompt EXCEPT ![t] = Invalidated(t)]
  <2>1. /\ Halted(t) \in TurnRec /\ Halted(t).seq = turn[t].seq
        /\ Halted(t).state \in {"unknown_outcome", "cancelled"}
        /\ Halted(t).state = "cancelled" => ~Touched(t)
    BY <1>1, HaltedRow
  <2>2. /\ turn' \in [Turns -> TurnRec] /\ turn'[t] = Halted(t)
        /\ \A u \in Turns \ {t} : turn'[u] = turn[u]
    BY <1>1, <1>2, <2>1
  <2>3. /\ Invalidated(t) \in [OpsOf[t] -> PromptRec]
        /\ \A o \in OpsOf[t] : /\ Invalidated(t)[o].approved = prompt[t][o].approved
                               /\ Invalidated(t)[o].state # "open"
    BY <1>1, InvalidatedRow DEF RowsTyped
  <2>4. /\ DOMAIN prompt' = Turns /\ prompt'[t] = Invalidated(t)
        /\ \A u \in Turns \ {t} : prompt'[u] = prompt[u]
    BY <1>1, <1>2 DEF RowsTyped
  <2>5. OrderInv'
    <3>1. turn[t].state # "none"  BY <1>2 DEF Live, Waiting, Active
    <3> QED  BY <1>1, <1>2, <2>1, <2>2, <3>1, OrderKept DEF Live, Waiting, Active
  <2>6. \A u \in Turns : TurnRow(u)
    BY <1>2, <2>1, <2>2 DEF TurnRow, TurnEnded, Live, Waiting, Active
  <2>7. \A u \in Turns : turn'[u].state \in {"completed", "failed"} => turn'[u].state = turn[u].state
    BY <2>1, <2>2
  <2>8. \A u \in Turns : /\ prompt'[u] \in [OpsOf[u] -> PromptRec]
                         /\ \A o \in OpsOf[u] :
                               /\ prompt'[u][o].approved = prompt[u][o].approved
                               /\ prompt'[u][o].state = "open" => prompt[u][o].state = "open"
    BY <1>1, <2>3, <2>4 DEF RowsTyped
  <2> QED  BY <2>2, <2>4, <2>5, <2>6, <2>7, <2>8
<1>3. CASE /\ turn[t].state \in TurnEnded
           /\ turn' = [turn EXCEPT ![t].cancel = TRUE, ![t].epoch = @ + 1]
           /\ UNCHANGED prompt
  <2> DEFINE r == [turn[t] EXCEPT !.cancel = TRUE]
             q == [r EXCEPT !.epoch = @ + 1]
  <2>1. r \in TurnRec /\ r.seq = turn[t].seq /\ r.state = turn[t].state
    BY <1>1 DEF TurnRec
  <2>2. turn' = [turn EXCEPT ![t] = q]  BY <1>1, <1>3
  <2> HIDE DEF r
  <2>3. q \in TurnRec /\ q.seq = r.seq /\ q.state = r.state  BY <2>1 DEF TurnRec
  <2> HIDE DEF q
  <2>4. /\ turn' \in [Turns -> TurnRec]
        /\ \A u \in Turns : turn'[u].seq = turn[u].seq /\ turn'[u].state = turn[u].state
    BY <1>1, <2>1, <2>2, <2>3
  <2>5. OrderInv'  BY <1>1, <2>4, OrderKept
  <2> QED  BY <1>3, <2>4, <2>5, SamePrompt DEF TurnRow
<1>4. CASE UNCHANGED <<turn, prompt>>
  <2>1. OrderInv'  BY <1>1, <1>4, OrderKept
  <2> QED  BY <1>1, <1>4, <2>1, SamePrompt DEF TurnRow
<1> QED  BY <1>2, <1>3, <1>4 DEF CancelRow

(* A disturbance leaves room for what it pays for. *)
LEMMA Disturbed ==
    ASSUME OwnerTyped, Disturb, UNCHANGED <<chat, account>>
    PROVE  OwnerTyped'
BY TurnAssumption DEF OwnerTyped, Disturb

(* The CancelTurn request. *)
LEMMA CancelTurnInv == ASSUME TurnIInv, NEW t \in Turns, CancelTurn(t)
                       PROVE TurnIInv' /\ \A u \in Turns : TurnRow(u)
<1>1. /\ CancelRow(t) /\ Disturb
      /\ UNCHANGED <<chat, journal, runLease, account, engine, work, inflight, effects>>
  BY DEF CancelTurn
<1>2. OwnerTyped' /\ EngineTyped'  BY <1>1, Disturbed DEF TurnIInv, EngineTyped
<1>3. work' \in [Turns -> WorkRec] /\ \A u \in Turns : WorkInv(u)'  BY <1>1, SameWork
<1> QED  BY <1>1, <1>2, <1>3, CancelRowFacts, NoCallNow

(* Several turns that are ended at once, by a cleared chat or by a changed *)
(* account.                                                                *)
LEMMA HaltMany ==
    ASSUME TurnIInv, NEW gone \in SUBSET Turns, NEW closed,
           \A t \in gone : turn[t].state \in Live,
           turn' = [t \in Turns |-> IF t \in gone THEN Halted(t) ELSE turn[t]],
           prompt' = [t \in Turns |-> IF t \in closed THEN Invalidated(t) ELSE prompt[t]]
    PROVE  /\ turn' \in [Turns -> TurnRec] /\ OrderInv' /\ DOMAIN prompt' = Turns
           /\ \A u \in Turns :
                 /\ TurnRow(u)
                 /\ turn'[u].state \in {"completed", "failed"} => turn'[u].state = turn[u].state
                 /\ prompt'[u] \in [OpsOf[u] -> PromptRec]
                 /\ \A o \in OpsOf[u] :
                       /\ prompt'[u][o].approved = prompt[u][o].approved
                       /\ prompt'[u][o].state = "open" => prompt[u][o].state = "open"
<1>1. /\ OrderInv /\ turn \in [Turns -> TurnRec]
      /\ \A t \in Turns : prompt[t] \in [OpsOf[t] -> PromptRec]
  BY DEF TurnIInv, RowsTyped
<1>2. \A t \in Turns : /\ Halted(t) \in TurnRec /\ Halted(t).seq = turn[t].seq
                       /\ Halted(t).state \in {"unknown_outcome", "cancelled"}
                       /\ Halted(t).state = "cancelled" => ~Touched(t)
  BY <1>1, HaltedRow
<1>3. \A t \in Turns : /\ Invalidated(t) \in [OpsOf[t] -> PromptRec]
                       /\ \A o \in OpsOf[t] :
                             /\ Invalidated(t)[o].approved = prompt[t][o].approved
                             /\ Invalidated(t)[o].state # "open"
  BY <1>1, InvalidatedRow
<1>4. \A t \in Turns : turn'[t] = IF t \in gone THEN Halted(t) ELSE turn[t]  OBVIOUS
<1>5. \A t \in gone : turn[t].state \notin TurnEnded \union {"none"}
  BY DEF Live, Waiting, Active, TurnEnded
<1>6. turn' \in [Turns -> TurnRec]  BY <1>1, <1>2
<1>7. OrderInv'
  <2>1. \A t \in Turns :
              /\ turn'[t].seq = turn[t].seq
              /\ turn'[t].state = "none" <=> turn[t].state = "none"
              /\ turn'[t].state \in Active => turn[t].state \in Active
              /\ turn'[t].state \in Live => turn[t].state \in Live
    BY <1>2, <1>4, <1>5 DEF Live, Waiting, Active
  <2> QED  BY <1>1, <2>1, OrderKept
<1>8. \A u \in Turns : TurnRow(u)  BY <1>2, <1>4, <1>5 DEF TurnRow
<1>9. \A u \in Turns : turn'[u].state \in {"completed", "failed"} => turn'[u].state = turn[u].state
  BY <1>2, <1>4
<1>10. DOMAIN prompt' = Turns
  OBVIOUS
<1>11. \A u \in Turns : /\ prompt'[u] \in [OpsOf[u] -> PromptRec]
                        /\ \A o \in OpsOf[u] :
                              /\ prompt'[u][o].approved = prompt[u][o].approved
                              /\ prompt'[u][o].state = "open" => prompt[u][o].state = "open"
  BY <1>1, <1>3
<1> QED  BY <1>6, <1>7, <1>8, <1>9, <1>10, <1>11

(* A cleared chat. *)
LEMMA ClearInv == ASSUME TurnIInv, NEW c \in Chats, Clear(c)
                  PROVE TurnIInv' /\ \A u \in Turns : TurnRow(u)
<1> DEFINE gone == {t \in Turns : ChatOf[t] = c /\ turn[t].state \in Live}
           closed == {t \in Turns : ChatOf[t] = c}
<1>1. /\ turn' = [t \in Turns |-> IF t \in gone THEN Halted(t) ELSE turn[t]]
      /\ prompt' = [t \in Turns |-> IF t \in closed THEN Invalidated(t) ELSE prompt[t]]
      /\ chat' = [chat EXCEPT ![c] = @ + 1] /\ Disturb
      /\ UNCHANGED <<journal, runLease, account, engine, work, inflight, effects>>
  BY DEF Clear
<1>2. gone \in SUBSET Turns /\ \A t \in gone : turn[t].state \in Live  OBVIOUS
<1> HIDE DEF gone, closed
<1>3. OwnerTyped' /\ EngineTyped'
  <2>1. OwnerTyped /\ EngineTyped  BY DEF TurnIInv
  <2> QED  BY <1>1, <2>1, TurnAssumption DEF OwnerTyped, EngineTyped, Disturb
<1>4. work' \in [Turns -> WorkRec] /\ \A u \in Turns : WorkInv(u)'  BY <1>1, SameWork
<1> QED  BY <1>1, <1>2, <1>3, <1>4, HaltMany, NoCallNow

(* Turns of other credentials are ended. *)
LEMMA ReconcileInv == ASSUME TurnIInv, NEW r \in Runs, ReconcileSecurity(r)
                      PROVE TurnIInv' /\ \A u \in Turns : TurnRow(u)
<1> DEFINE gone == {t \in Turns : turn[t].state \in Live /\ ~SameAccount(t)}
<1>1. /\ turn' = [t \in Turns |-> IF t \in gone THEN Halted(t) ELSE turn[t]]
      /\ prompt' = [t \in Turns |-> IF t \in gone THEN Invalidated(t) ELSE prompt[t]]
      /\ UNCHANGED <<chat, journal, runLease, account, engine, work, inflight, effects, faults>>
  BY DEF ReconcileSecurity
<1>2. gone \in SUBSET Turns /\ \A t \in gone : turn[t].state \in Live  OBVIOUS
<1> HIDE DEF gone
<1>3. OwnerTyped' /\ EngineTyped'
  <2>1. OwnerTyped /\ EngineTyped  BY DEF TurnIInv
  <2> QED  BY <1>1, <2>1 DEF OwnerTyped, EngineTyped
<1>4. work' \in [Turns -> WorkRec] /\ \A u \in Turns : WorkInv(u)'  BY <1>1, SameWork
<1> QED  BY <1>1, <1>2, <1>3, <1>4, HaltMany, NoCallNow

(* The account, the lease and an engine change, and no row does.           *)
LEMMA AroundInv ==
    ASSUME TurnIInv,
           AccountChange \/ LeaseExpires \/ \E r \in Runs : StopRun(r) \/ ReleaseRuntime(r)
    PROVE  TurnIInv' /\ \A u \in Turns : TurnRow(u)
<1> USE TurnAssumption
<1>1. OwnerTyped /\ EngineTyped /\ OrderInv /\ turn \in [Turns -> TurnRec]
  BY DEF TurnIInv, RowsTyped
<1>2. UNCHANGED <<turn, chat, journal, prompt, work, inflight, effects>>
  BY DEF AccountChange, LeaseExpires, StopRun, ReleaseRuntime
<1>3. EngineTyped'
  BY <1>1 DEF EngineTyped, AccountChange, LeaseExpires, StopRun, ReleaseRuntime
<1>4. OwnerTyped'
  <2>1. CASE AccountChange
    <3>1. /\ account' \in [stamp : 1 .. account.stamp + 1, enabled : BOOLEAN, family : BOOLEAN]
          /\ account.stamp \in 1 .. faults + 1
      <4> DEFINE A == [stamp : 1 .. account.stamp + 1, enabled : BOOLEAN, family : BOOLEAN]
                 n == account.stamp + 1
                 b == ~account.enabled
      <4>1. /\ account \in A /\ account.stamp \in 1 .. faults + 1
            /\ n \in 1 .. account.stamp + 1 /\ b \in BOOLEAN
        BY <1>1 DEF OwnerTyped
      <4>2. CASE account' = [account EXCEPT !.stamp = @ + 1]
        <5>1. account' = [account EXCEPT !.stamp = n]  BY <4>2
        <5> HIDE DEF n
        <5> QED  BY <4>1, <5>1
      <4>3. CASE account' = [account EXCEPT !.enabled = ~@]
        <5>1. account' = [account EXCEPT !.enabled = b]  BY <4>3
        <5> HIDE DEF b
        <5> QED  BY <4>1, <5>1
      <4>4. CASE account' = [account EXCEPT !.family = FALSE]  BY <4>1, <4>4
      <4> QED  BY <2>1, <4>1, <4>2, <4>3, <4>4 DEF AccountChange
    <3>2. faults' = faults + 1 /\ faults' \in 0 .. MaxFaults /\ faults \in 0 .. MaxFaults
      BY <1>1, <2>1 DEF AccountChange, Disturb, OwnerTyped
    <3>3. account' \in [stamp : 1 .. faults' + 1, enabled : BOOLEAN, family : BOOLEAN]
      BY <3>1, <3>2
    <3>4. chat' \in [Chats -> 1 .. faults' + 1]  BY <1>1, <1>2, <3>2 DEF OwnerTyped
    <3> QED  BY <3>2, <3>3, <3>4 DEF OwnerTyped
  <2>2. CASE ~AccountChange
    <3>1. UNCHANGED account /\ (UNCHANGED faults \/ Disturb)
      BY <2>2 DEF LeaseExpires, StopRun, ReleaseRuntime
    <3>2. CASE UNCHANGED faults  BY <1>1, <1>2, <3>1, <3>2 DEF OwnerTyped
    <3>3. CASE Disturb  BY <1>1, <1>2, <3>1, <3>3, Disturbed
    <3> QED  BY <3>1, <3>2, <3>3
  <2> QED  BY <2>1, <2>2
<1>5. OrderInv'  BY <1>1, <1>2, OrderKept
<1>6. \A u \in Turns : TurnRow(u) /\ turn'[u].state = turn[u].state  BY <1>2 DEF TurnRow
<1>7. work' \in [Turns -> WorkRec] /\ \A u \in Turns : WorkInv(u)'  BY <1>2, SameWork
<1>8. turn' \in [Turns -> TurnRec]  BY <1>1, <1>2
<1> QED  BY <1>2, <1>3, <1>4, <1>5, <1>6, <1>7, <1>8, NoCallNow, SamePrompt

(* The workers of a process that died are gone. *)
LEMMA CrashInv == ASSUME TurnIInv, NEW r \in Runs, Crash(r)
                  PROVE TurnIInv' /\ \A u \in Turns : TurnRow(u)
<1>1. /\ OwnerTyped /\ EngineTyped /\ OrderInv
      /\ turn \in [Turns -> TurnRec] /\ work \in [Turns -> WorkRec]
      /\ \A u \in Turns : WorkInv(u)
  BY DEF TurnIInv, RowsTyped
<1>2. /\ work' = [t \in Turns |-> IF work[t].run = r THEN Returned ELSE work[t]]
      /\ engine' = [engine EXCEPT ![r] = "gone"] /\ Disturb
      /\ UNCHANGED <<turn, chat, journal, prompt, runLease, account, inflight, effects>>
  BY DEF Crash
<1>3. EngineTyped' /\ OwnerTyped'
  <2>1. EngineTyped'  BY <1>1, <1>2 DEF EngineTyped
  <2> QED  BY <1>1, <1>2, <2>1, Disturbed
<1>4. Returned \in WorkRec /\ Returned.pc = "gone"
  BY TurnAssumption DEF Returned, NoWork, WorkRec
<1>5. work' \in [Turns -> WorkRec]
        /\ \A t \in Turns : work'[t] = work[t] \/ work'[t].pc = "gone"
  <2> HIDE DEF WorkRec, Returned
  <2> QED  BY <1>1, <1>2, <1>4
<1>6. \A u \in Turns : WorkInv(u)'  BY <1>1, <1>2, <1>5 DEF WorkInv
<1>7. OrderInv'  BY <1>1, <1>2, OrderKept
<1>8. \A u \in Turns : TurnRow(u) /\ turn'[u].state = turn[u].state  BY <1>2 DEF TurnRow
<1>9. turn' \in [Turns -> TurnRec]  BY <1>1, <1>2
<1> QED  BY <1>2, <1>3, <1>5, <1>6, <1>7, <1>8, <1>9, NoCallNow, SamePrompt

(* The oldest turn of a chat begins to run. *)
LEMMA ClaimInv == ASSUME TurnIInv, NEW r \in Runs, NEW t \in Turns, Claim(r, t)
                  PROVE TurnIInv' /\ \A u \in Turns : TurnRow(u)
<1>1. /\ OwnerTyped /\ EngineTyped /\ OrderInv
      /\ turn \in [Turns -> TurnRec] /\ work \in [Turns -> WorkRec]
      /\ \A u \in Turns : WorkInv(u)
  BY DEF TurnIInv, RowsTyped
<1> DEFINE a == [turn[t] EXCEPT !.epoch = @ + 1]
           w == [NoWork EXCEPT !.pc = "think", !.run = r,
                               !.epoch = turn[t].epoch + 1, !.gen = turn[t].gen]
<1>2. /\ t \in Runnable
      /\ turn' = [turn EXCEPT ![t].state = "running", ![t].epoch = @ + 1]
      /\ work' = [work EXCEPT ![t] = w]
      /\ UNCHANGED <<chat, journal, prompt, runLease, account, engine, inflight, effects, faults>>
  BY DEF Claim
<1>3. turn[t] \in TurnRec  BY <1>1
<1>4. a \in TurnRec /\ a.seq = turn[t].seq  BY <1>3 DEF TurnRec
<1>5. turn' = [turn EXCEPT ![t] = WithState(a, "running")]
  BY <1>1, <1>2, <1>3 DEF WithState, TurnRec
<1>6. w \in WorkRec /\ w.pc = "think"
  <2>1. turn[t].epoch + 1 \in Nat /\ turn[t].gen \in 0 .. MaxFaults + 1  BY <1>3 DEF TurnRec
  <2>2. r \in 0 .. MaxFaults + 1  BY DEF Runs
  <2> QED  BY <2>1, <2>2, TurnAssumption DEF WorkRec, NoWork
<1> HIDE DEF a, w
<1>7. "running" \in TurnStates  BY DEF TurnStates, Live, Active
<1>8. /\ turn' \in [Turns -> TurnRec] /\ turn'[t].state = "running"
      /\ turn'[t].seq = turn[t].seq
      /\ \A u \in Turns \ {t} : turn'[u] = turn[u]
  BY <1>1, <1>4, <1>5, <1>7, StateRow
<1>9. work' \in [Turns -> WorkRec] /\ \A u \in Turns : WorkInv(u)'
  BY <1>1, <1>2, <1>6 DEF WorkInv
<1>10. turn[t].state = "queued"  BY <1>2 DEF Runnable, Waiting
<1>11. OrderInv'
  <2>1. Known' = Known  BY <1>8, <1>10 DEF Known
  <2>2. OneTurnPerChat'
    <3> SUFFICES ASSUME NEW u \in Turns, NEW v \in Turns, turn'[u].state \in Active,
                        turn'[v].state \in Live, ChatOf[u] = ChatOf[v], u # v
                 PROVE  turn'[v].seq > turn'[u].seq
      BY DEF OneTurnPerChat
    <3>1. turn[v].state \in Live /\ v \in Known /\ t \in Known
      BY <1>8, <1>10 DEF Live, Waiting, Active, Known
    <3>2. CASE u = t
      <4>1. turn[v].seq >= turn[t].seq  BY <1>2, <3>1, <3>2 DEF Runnable
      <4>2. turn[v].seq # turn[t].seq  BY <1>1, <3>1, <3>2 DEF OrderInv
      <4>3. turn[v].seq \in Nat /\ turn[t].seq \in Nat
        BY <1>1, <3>1 DEF OrderInv
      <4> QED  BY <1>8, <3>2, <4>1, <4>2, <4>3
    <3>3. CASE u # t
      BY <1>1, <1>8, <3>1, <3>3 DEF OrderInv, OneTurnPerChat
    <3> QED  BY <3>2, <3>3
  <2> QED  BY ZenonT(30), <1>1, <1>8, <2>1, <2>2 DEF OrderInv, Known
<1>12. \A u \in Turns : TurnRow(u)  BY <1>8, <1>10 DEF TurnRow, TurnEnded
<1>13. OwnerTyped' /\ EngineTyped'  BY <1>1, <1>2 DEF OwnerTyped, EngineTyped
<1>14. \A u \in Turns : turn'[u].state \in {"completed", "failed"} => turn'[u].state = turn[u].state
  BY <1>8
<1> QED  BY <1>2, <1>8, <1>9, <1>11, <1>12, <1>13, <1>14, NoCallNow, SamePrompt

(* A new engine gives up what the earlier one left. *)
LEMMA AcquireInv == ASSUME TurnIInv, NEW r \in Runs, AcquireRuntime(r)
                    PROVE TurnIInv' /\ \A u \in Turns : TurnRow(u)
<1>1. OwnerTyped /\ EngineTyped /\ RowsTyped /\ OrderInv  BY DEF TurnIInv
<1>2. /\ runLease' = [epoch |-> r, live |-> TRUE] /\ engine' = [engine EXCEPT ![r] = "run"]
      /\ turn' = [t \in Turns |-> IF turn[t].state \in Active
                    THEN [turn[t] EXCEPT !.state = "unknown_outcome", !.epoch = @ + 1]
                    ELSE turn[t]]
      /\ journal' = [t \in Turns |-> [o \in OpsOf[t] |->
                       IF journal[t][o].state = "started"
                       THEN [journal[t][o] EXCEPT !.state = "unknown_outcome"]
                       ELSE journal[t][o]]]
      /\ prompt' = [t \in Turns |-> Invalidated(t)]
      /\ UNCHANGED <<chat, account, work, inflight, effects, faults>>
  BY DEF AcquireRuntime
<1>3. OwnerTyped' /\ EngineTyped'
  <2>1. r \in 0 .. MaxFaults + 1  BY TurnAssumption DEF Runs
  <2> QED  BY <1>1, <1>2, <2>1 DEF OwnerTyped, EngineTyped
<1>4. ASSUME NEW t \in Turns
      PROVE  /\ turn'[t] \in TurnRec /\ turn'[t].seq = turn[t].seq
             /\ turn'[t].state = IF turn[t].state \in Active THEN "unknown_outcome"
                                                            ELSE turn[t].state
  <2> DEFINE a == [turn[t] EXCEPT !.epoch = @ + 1]
  <2>1. turn[t] \in TurnRec  BY <1>1 DEF RowsTyped
  <2>2. a \in TurnRec /\ a.seq = turn[t].seq  BY <2>1 DEF TurnRec
  <2>3. [turn[t] EXCEPT !.state = "unknown_outcome", !.epoch = @ + 1]
          = WithState(a, "unknown_outcome")
    BY <2>1 DEF WithState, TurnRec
  <2> HIDE DEF a
  <2>4. "unknown_outcome" \in TurnStates  BY DEF TurnStates, TurnEnded
  <2>5. turn'[t] = IF turn[t].state \in Active THEN WithState(a, "unknown_outcome")
                                               ELSE turn[t]
    BY <1>2, <2>3
  <2>6. CASE turn[t].state \in Active  BY <2>2, <2>4, <2>5, <2>6, StateRow
  <2>7. CASE turn[t].state \notin Active  BY <2>1, <2>5, <2>7
  <2> QED  BY <2>6, <2>7
<1>5. ASSUME NEW t \in Turns, NEW o \in OpsOf[t]
      PROVE  /\ journal'[t][o] \in JournalRec
             /\ journal'[t][o].state = IF journal[t][o].state = "started"
                                       THEN "unknown_outcome" ELSE journal[t][o].state
  <2>1. journal[t][o] \in JournalRec  BY <1>1 DEF RowsTyped
  <2> QED  BY <1>2, <2>1 DEF JournalRec
<1>6. ASSUME NEW t \in Turns
      PROVE  /\ prompt'[t] \in [OpsOf[t] -> PromptRec]
             /\ \A o \in OpsOf[t] : /\ prompt'[t][o].approved = prompt[t][o].approved
                                    /\ prompt'[t][o].state # "open"
  <2>1. prompt[t] \in [OpsOf[t] -> PromptRec] /\ prompt'[t] = Invalidated(t)
    BY <1>1, <1>2 DEF RowsTyped
  <2> QED  BY <2>1, InvalidatedRow
<1>7. RowsTyped'
  <2>1. turn' \in [Turns -> TurnRec]  BY <1>2, <1>4
  <2>2. DOMAIN journal' = Turns /\ \A t \in Turns : journal'[t] \in [OpsOf[t] -> JournalRec]
    BY <1>2, <1>5
  <2>3. DOMAIN prompt' = Turns  BY <1>2
  <2> QED  BY <1>1, <1>2, <1>6, <2>1, <2>2, <2>3 DEF RowsTyped
<1>8. OrderInv'
  <2>1. \A t \in Turns :
          /\ turn'[t].seq = turn[t].seq
          /\ turn'[t].state = "none" <=> turn[t].state = "none"
          /\ turn'[t].state \in Active => turn[t].state \in Active
          /\ turn'[t].state \in Live => turn[t].state \in Live
    BY <1>4 DEF Live, Waiting, Active
  <2> QED  BY <1>1, <2>1, OrderKept
<1>9. \A t \in Turns : TurnRow(t)  BY <1>4 DEF TurnRow, Active, TurnEnded
<1>10. ASSUME NEW t \in Turns
       PROVE  WorkInv(t)' /\ EndInv(t)' /\ \A o \in OpsOf[t] : OpInv(t, o)'
  <2>1. WorkInv(t) /\ EndInv(t) /\ \A o \in OpsOf[t] : OpInv(t, o)  BY DEF TurnIInv
  <2>2. WorkInv(t)'  BY <1>2, <1>5, <2>1 DEF WorkInv
  <2>3. Unfinished(t)' <=> Unfinished(t)  BY <1>5 DEF Unfinished
  <2>4. EndInv(t)'  BY <1>4, <2>1, <2>3 DEF EndInv, Active
  <2>5. ASSUME NEW o \in OpsOf[t] PROVE OpInv(t, o)'
    <3>1. /\ OpInv(t, o)
          /\ \/ journal'[t][o].state = journal[t][o].state
             \/ journal[t][o].state = "started" /\ journal'[t][o].state = "unknown_outcome"
      BY <1>5, <2>1
    <3>2. /\ effects'[t][o] = effects[t][o] /\ (<<t, o>> \in inflight' => <<t, o>> \in inflight)
          /\ prompt'[t][o].approved = prompt[t][o].approved
          /\ prompt'[t][o].state = "open" => prompt[t][o].state = "open"
      BY <1>2, <1>6
    <3> QED  BY <3>1, <3>2, OpsKept
  <2> QED  BY <2>2, <2>4, <2>5
<1> QED  BY <1>3, <1>7, <1>8, <1>9, <1>10 DEF TurnIInv

-----------------------------------------------------------------------------
(* The worker of a turn.                                                   *)

(* A worker's row and where its operation is. *)
WorkOk(t, w) ==
    /\ w \in WorkRec
    /\ w.pc \in {"ask", "confirm", "ready", "exec"} => w.op \in OpsOf[t]

(* A step of a worker, or of the service it called, about one operation.   *)
LEMMA CallStep ==
    ASSUME TurnIInv, UNCHANGED <<turn, chat, prompt, runLease, account, engine, faults>>,
           NEW t \in Turns, NEW o \in OpsOf[t], NEW w, WorkOk(t, w),
           work' = [work EXCEPT ![t] = w],
           w.pc = "ask" => journal'[t][w.op].state = "prepared",
           NEW j \in JournalRec,
           \/ journal' = [journal EXCEPT ![t][o] = j]
           \/ journal' = journal /\ j = journal[t][o],
           NEW e \in Nat,
           \/ effects' = [effects EXCEPT ![t][o] = e]
           \/ effects' = effects /\ e = effects[t][o],
           \/ inflight' = inflight
           \/ inflight' = inflight \union {<<t, o>>}
           \/ inflight' = inflight \ {<<t, o>>},
           OpInv(t, o)',
           \/ turn[t].state \in Active
           \/ j.state = journal[t][o].state
           \/ j.state \notin {"started", "unknown_outcome"}
    PROVE  TurnIInv' /\ \A u \in Turns : TurnRow(u)
<1>1. OwnerTyped /\ EngineTyped /\ RowsTyped /\ OrderInv  BY DEF TurnIInv
<1>2. OwnerTyped' /\ EngineTyped'  BY <1>1 DEF OwnerTyped, EngineTyped
<1>3. OrderInv'  BY <1>1, OrderKept
<1>4. \A u \in Turns : TurnRow(u)  BY DEF TurnRow
<1>5. /\ journal'[t][o] = j /\ effects'[t][o] = e
      /\ \A u \in Turns : \A p \in OpsOf[u] : <<u, p>> # <<t, o>> =>
            /\ journal'[u][p] = journal[u][p] /\ effects'[u][p] = effects[u][p]
            /\ <<u, p>> \in inflight' <=> <<u, p>> \in inflight
  BY <1>1 DEF RowsTyped
<1>6. RowsTyped'
  <2>1. work' \in [Turns -> WorkRec]  BY <1>1 DEF RowsTyped, WorkOk
  <2>2. DOMAIN journal' = Turns /\ \A u \in Turns : journal'[u] \in [OpsOf[u] -> JournalRec]
    BY <1>1 DEF RowsTyped
  <2>3. DOMAIN effects' = Turns /\ \A u \in Turns : effects'[u] \in [OpsOf[u] -> Nat]
    BY SMTT(30), <1>1 DEF RowsTyped
  <2>4. inflight' \subseteq UNION {{u} \X OpsOf[u] : u \in Turns}
    BY <1>1 DEF RowsTyped
  <2> QED  BY <1>1, <2>1, <2>2, <2>3, <2>4 DEF RowsTyped
<1>7. ASSUME NEW u \in Turns, NEW p \in OpsOf[u] PROVE OpInv(u, p)'
  <2>1. CASE <<u, p>> = <<t, o>>  BY <2>1
  <2>2. CASE <<u, p>> # <<t, o>>
    <3>1. OpInv(u, p)  BY DEF TurnIInv
    <3> QED  BY <1>5, <2>2, <3>1 DEF OpInv
  <2> QED  BY <2>1, <2>2
<1>8. ASSUME NEW u \in Turns PROVE WorkInv(u)' /\ EndInv(u)'
  <2>1. WorkInv(u) /\ EndInv(u)  BY DEF TurnIInv
  <2>2. CASE u = t
    <3>1. work'[t] = w  BY <1>1 DEF RowsTyped
    <3>2. WorkInv(t)'  BY <3>1 DEF WorkInv, WorkOk
    <3>3. EndInv(t)'
      <4>1. CASE turn[t].state \in Active  BY <4>1 DEF EndInv, Active
      <4>2. CASE turn[t].state \notin Active
        <5>1. Unfinished(t)' => Unfinished(t)  BY <1>5, <4>2 DEF Unfinished
        <5> QED  BY <2>1, <2>2, <5>1 DEF EndInv
      <4> QED  BY <4>1, <4>2
    <3> QED  BY <2>2, <3>2, <3>3
  <2>3. CASE u # t
    <3>1. work'[u] = work[u] /\ \A p \in OpsOf[u] : journal'[u][p] = journal[u][p]
      BY <1>1, <1>5, <2>3 DEF RowsTyped
    <3>2. Unfinished(u)' <=> Unfinished(u)  BY <3>1 DEF Unfinished
    <3> QED  BY <2>1, <3>1, <3>2 DEF WorkInv, EndInv
  <2> QED  BY <2>2, <2>3
<1> QED  BY <1>2, <1>3, <1>4, <1>6, <1>7, <1>8 DEF TurnIInv

(* A step that moves a worker and nothing else of the turn. *)
LEMMA WorkOnly ==
    ASSUME TurnIInv, OwnerTyped', EngineTyped',
           UNCHANGED <<turn, journal, prompt, inflight, effects>>,
           NEW t \in Turns, NEW w, WorkOk(t, w), w.pc # "ask",
           work' = [work EXCEPT ![t] = w]
    PROVE  TurnIInv' /\ \A u \in Turns : TurnRow(u)
<1>1. RowsTyped /\ OrderInv /\ \A u \in Turns : WorkInv(u)  BY DEF TurnIInv
<1>2. OrderInv'  BY <1>1, OrderKept
<1>3. \A u \in Turns : TurnRow(u) /\ turn'[u].state = turn[u].state  BY DEF TurnRow
<1>4. work' \in [Turns -> WorkRec] /\ \A u \in Turns : WorkInv(u)'
  BY <1>1 DEF RowsTyped, WorkOk, WorkInv
<1>5. turn' \in [Turns -> TurnRec]  BY <1>1 DEF RowsTyped
<1> QED  BY <1>2, <1>3, <1>4, <1>5, NoCallNow, SamePrompt

(* An answer, an approval that was found, and a worker that gives up.      *)
LEMMA WorkerMovesInv ==
    ASSUME TurnIInv, NEW t \in Turns,
           Answer(t) \/ Confirmed(t) \/ GiveUp(t) \/ CompleteFails(t)
    PROVE  TurnIInv' /\ \A u \in Turns : TurnRow(u)
<1>1. /\ OwnerTyped /\ EngineTyped /\ work \in [Turns -> WorkRec] /\ WorkInv(t)
  BY DEF TurnIInv, RowsTyped
<1>2. work[t] \in WorkRec  BY <1>1
<1>3. ASSUME NEW out \in {"completed", "failed", "unknown_outcome"}, Return(t, out),
             UNCHANGED <<turn, chat, journal, prompt, runLease, account, engine, inflight,
                         effects, faults>>
      PROVE  TurnIInv' /\ \A u \in Turns : TurnRow(u)
  <2> DEFINE w == [work[t] EXCEPT !.pc = "final", !.out = out]
  <2>1. WorkOk(t, w) /\ w.pc # "ask"  BY <1>2 DEF WorkOk, WorkRec
  <2>2. work' = [work EXCEPT ![t] = w]  BY <1>1, <1>3 DEF Return
  <2>3. OwnerTyped' /\ EngineTyped'  BY <1>1, <1>3 DEF OwnerTyped, EngineTyped
  <2> HIDE DEF w
  <2> QED  BY <1>3, <2>1, <2>2, <2>3, WorkOnly
<1>4. CASE Answer(t)  BY <1>3, <1>4 DEF Answer
<1>5. CASE GiveUp(t)
  <2>1. CASE Return(t, "failed")  BY <1>3, <1>5, <2>1 DEF GiveUp
  <2>2. CASE Return(t, "unknown_outcome")  BY <1>3, <1>5, <2>2 DEF GiveUp
  <2> QED  BY <1>5, <2>1, <2>2 DEF GiveUp
<1>6. CASE Confirmed(t)
  <2> DEFINE w == [work[t] EXCEPT !.pc = "ready"]
  <2>1. WorkOk(t, w) /\ w.pc # "ask"
    BY <1>1, <1>2, <1>6 DEF WorkOk, WorkRec, WorkInv, Confirmed, At
  <2>2. /\ work' = [work EXCEPT ![t] = w]
        /\ UNCHANGED <<turn, chat, journal, prompt, runLease, account, engine, inflight,
                       effects, faults>>
    BY <1>6 DEF Confirmed
  <2>3. OwnerTyped' /\ EngineTyped'  BY <1>1, <2>2 DEF OwnerTyped, EngineTyped
  <2> HIDE DEF w
  <2> QED  BY <2>1, <2>2, <2>3, WorkOnly
<1>7. CASE CompleteFails(t)
  <2>1. WorkOk(t, Returned) /\ Returned.pc # "ask"
    BY TurnAssumption DEF WorkOk, Returned, NoWork, WorkRec
  <2>2. /\ work' = [work EXCEPT ![t] = Returned]
        /\ engine' = [engine EXCEPT ![work[t].run] = "stopping"] /\ Disturb
        /\ UNCHANGED <<turn, chat, journal, prompt, runLease, account, inflight, effects>>
    BY <1>7 DEF CompleteFails
  <2>3. OwnerTyped' /\ EngineTyped'
    <3>1. EngineTyped'  BY <1>1, <2>2 DEF EngineTyped
    <3> QED  BY <1>1, <2>2, <3>1, Disturbed
  <2> QED  BY <2>1, <2>2, <2>3, WorkOnly
<1> QED  BY <1>4, <1>5, <1>6, <1>7

(* A turn that its worker completes. *)
LEMMA CompleteInv ==
    ASSUME TurnIInv, NEW t \in Turns, Complete(t)
    PROVE  TurnIInv' /\ \A u \in Turns : TurnRow(u)
<1>1. /\ OwnerTyped /\ EngineTyped /\ RowsTyped /\ OrderInv
      /\ turn \in [Turns -> TurnRec] /\ turn[t] \in TurnRec /\ work[t] \in WorkRec
  BY DEF TurnIInv, RowsTyped
<1>2. PICK st \in {work[t].out} \union
                  {"unknown_outcome" : x \in {work[t].out} \intersect {"completed"}} :
         turn' = [turn EXCEPT ![t].state = IF Unfinished(t) THEN "unknown_outcome" ELSE st]
  BY DEF Complete
<1> DEFINE s == IF Unfinished(t) THEN "unknown_outcome" ELSE st
<1>3. /\ s \in TurnStates /\ s \in {"completed", "failed", "unknown_outcome"}
      /\ s \in {"completed", "failed"} => ~Unfinished(t)
  <2>1. st \in {"completed", "failed", "unknown_outcome"}  BY <1>1, <1>2 DEF WorkRec
  <2> QED  BY <2>1 DEF TurnStates, TurnEnded
<1>4. turn' = [turn EXCEPT ![t] = WithState(turn[t], s)]  BY <1>1, <1>2 DEF WithState
<1> HIDE DEF s
<1>5. /\ turn' \in [Turns -> TurnRec] /\ turn'[t].state = s /\ turn'[t].seq = turn[t].seq
      /\ \A u \in Turns \ {t} : turn'[u] = turn[u]
  BY <1>1, <1>3, <1>4, StateRow
<1>6. /\ turn[t].state \in Active /\ prompt' = [prompt EXCEPT ![t] = Invalidated(t)]
      /\ work' = [work EXCEPT ![t] = Returned]
      /\ UNCHANGED <<chat, journal, runLease, account, engine, inflight, effects, faults>>
  BY DEF Complete, Fenced
<1>7. OrderInv'
  <2>1. \A u \in Turns :
          /\ turn'[u].seq = turn[u].seq
          /\ turn'[u].state = "none" <=> turn[u].state = "none"
          /\ turn'[u].state \in Active => turn[u].state \in Active
          /\ turn'[u].state \in Live => turn[u].state \in Live
    BY <1>3, <1>5, <1>6 DEF Live, Waiting, Active
  <2> QED  BY <1>1, <2>1, OrderKept
<1>8. \A u \in Turns : TurnRow(u)  BY <1>3, <1>5, <1>6 DEF TurnRow, Active, TurnEnded
<1>9. /\ Invalidated(t) \in [OpsOf[t] -> PromptRec]
      /\ \A o \in OpsOf[t] : /\ Invalidated(t)[o].approved = prompt[t][o].approved
                             /\ Invalidated(t)[o].state # "open"
  BY <1>1, InvalidatedRow DEF RowsTyped
<1>10. /\ DOMAIN prompt' = Turns /\ prompt'[t] = Invalidated(t)
       /\ \A u \in Turns \ {t} : prompt'[u] = prompt[u]
  BY <1>1, <1>6 DEF RowsTyped
<1>11. \A u \in Turns : /\ prompt'[u] \in [OpsOf[u] -> PromptRec]
                        /\ \A o \in OpsOf[u] :
                              /\ prompt'[u][o].approved = prompt[u][o].approved
                              /\ prompt'[u][o].state = "open" => prompt[u][o].state = "open"
  BY <1>1, <1>9, <1>10 DEF RowsTyped
<1>12. work' \in [Turns -> WorkRec] /\ \A u \in Turns : WorkInv(u)'
  <2>1. Returned \in WorkRec /\ Returned.pc = "gone"
    BY TurnAssumption DEF Returned, NoWork, WorkRec
  <2> HIDE DEF Returned
  <2> QED  BY <1>6, <2>1 DEF TurnIInv, RowsTyped, WorkInv
<1>13. OwnerTyped' /\ EngineTyped'  BY <1>1, <1>6 DEF OwnerTyped, EngineTyped
<1>14. \A u \in Turns : turn'[u].state \in {"completed", "failed"} =>
                           turn'[u].state = turn[u].state \/ ~Unfinished(u)
  BY <1>3, <1>5
<1> QED  BY <1>5, <1>6, <1>7, <1>8, <1>10, <1>11, <1>12, <1>13, <1>14, NoCallNow

(* A worker that was fenced cancels, or in a cleared chat ends the engine. *)
LEMMA CompleteFencedInv ==
    ASSUME TurnIInv, NEW t \in Turns, CompleteFenced(t)
    PROVE  TurnIInv' /\ \A u \in Turns : TurnRow(u)
<1>1. /\ OwnerTyped /\ EngineTyped /\ RowsTyped /\ OrderInv /\ \A u \in Turns : WorkInv(u)
  BY DEF TurnIInv
<1>2. /\ work' = [work EXCEPT ![t] = Returned]
      /\ UNCHANGED <<chat, journal, runLease, account, inflight, effects, faults>>
  BY DEF CompleteFenced
<1>3. WorkOk(t, Returned) /\ Returned.pc = "gone"
  BY TurnAssumption DEF WorkOk, Returned, NoWork, WorkRec
<1>4. CASE CancelRow(t) /\ UNCHANGED engine
  <2>1. work' \in [Turns -> WorkRec] /\ \A u \in Turns : WorkInv(u)'
    <3> HIDE DEF Returned
    <3> QED  BY <1>1, <1>2, <1>3 DEF RowsTyped, WorkInv, WorkOk
  <2>2. OwnerTyped' /\ EngineTyped'  BY <1>1, <1>2, <1>4 DEF OwnerTyped, EngineTyped
  <2> QED  BY <1>2, <1>4, <2>1, <2>2, CancelRowFacts, NoCallNow
<1>5. CASE /\ engine' = [engine EXCEPT ![work[t].run] = "stopping"]
           /\ UNCHANGED <<turn, prompt>>
  <2>1. OwnerTyped' /\ EngineTyped'  BY <1>1, <1>2, <1>5 DEF OwnerTyped, EngineTyped
  <2> QED  BY <1>2, <1>3, <1>5, <2>1, WorkOnly
<1> QED  BY <1>4, <1>5 DEF CompleteFenced

(* A step on one prompt of a turn, which may move the turn between running *)
(* and waiting for it.                                                     *)
LEMMA PromptStep ==
    ASSUME TurnIInv, UNCHANGED <<chat, journal, runLease, account, engine, inflight, effects,
                                 faults>>,
           NEW t \in Turns, NEW o \in OpsOf[t],
           NEW p \in PromptRec, prompt' = [prompt EXCEPT ![t][o] = p],
           \/ o \notin ConfirmOps
           \/ journal[t][o].state \notin Dispatched
           \/ /\ p.approved = prompt[t][o].approved
              /\ p.state = "open" => prompt[t][o].state = "open",
           NEW s \in TurnStates, turn' = [turn EXCEPT ![t].state = s],
           s = turn[t].state \/ (s \in Active /\ turn[t].state \in Active),
           work' \in [Turns -> WorkRec], \A u \in Turns : WorkInv(u)'
    PROVE  TurnIInv' /\ \A u \in Turns : TurnRow(u)
<1>1. /\ OwnerTyped /\ EngineTyped /\ RowsTyped /\ OrderInv
      /\ turn \in [Turns -> TurnRec] /\ turn[t] \in TurnRec
  BY DEF TurnIInv, RowsTyped
<1>2. turn' = [turn EXCEPT ![t] = WithState(turn[t], s)]  BY <1>1 DEF WithState
<1>3. /\ turn' \in [Turns -> TurnRec] /\ turn'[t].state = s /\ turn'[t].seq = turn[t].seq
      /\ \A u \in Turns \ {t} : turn'[u] = turn[u]
  BY <1>1, <1>2, StateRow
<1>4. OrderInv'
  <2>1. \A u \in Turns :
          /\ turn'[u].seq = turn[u].seq
          /\ turn'[u].state = "none" <=> turn[u].state = "none"
          /\ turn'[u].state \in Active => turn[u].state \in Active
          /\ turn'[u].state \in Live => turn[u].state \in Live
    BY <1>3 DEF Live, Waiting, Active
  <2> QED  BY <1>1, <2>1, OrderKept
<1>5. \A u \in Turns : TurnRow(u)  BY <1>3 DEF TurnRow, Active, TurnEnded
<1>6. OwnerTyped' /\ EngineTyped'  BY <1>1 DEF OwnerTyped, EngineTyped
<1>7. /\ DOMAIN prompt' = Turns /\ prompt'[t][o] = p
      /\ \A u \in Turns : \A q \in OpsOf[u] :
            <<u, q>> # <<t, o>> => prompt'[u][q] = prompt[u][q]
      /\ \A u \in Turns : prompt'[u] \in [OpsOf[u] -> PromptRec]
  BY <1>1 DEF RowsTyped
<1>8. RowsTyped'  BY <1>1, <1>3, <1>7 DEF RowsTyped
<1>9. ASSUME NEW u \in Turns, NEW q \in OpsOf[u] PROVE OpInv(u, q)'
  <2>1. OpInv(u, q)  BY DEF TurnIInv
  <2>2. CASE <<u, q>> # <<t, o>>
    <3>1. prompt'[u][q] = prompt[u][q]  BY <1>7, <2>2
    <3> QED  BY <2>1, <3>1, OpsKept
  <2>3. CASE u = t /\ q = o
    <3>1. CASE o \notin ConfirmOps \/ journal[t][o].state \notin Dispatched
      BY <2>1, <2>3, <3>1 DEF OpInv
    <3>2. CASE /\ p.approved = prompt[t][o].approved
               /\ p.state = "open" => prompt[t][o].state = "open"
      BY <1>7, <2>1, <2>3, <3>2, OpsKept
    <3> QED  BY <3>1, <3>2
  <2> QED  BY <2>2, <2>3
<1>10. ASSUME NEW u \in Turns PROVE EndInv(u)'
  <2>1. EndInv(u)  BY DEF TurnIInv
  <2>2. Unfinished(u)' <=> Unfinished(u)  BY DEF Unfinished
  <2>3. turn'[u].state \in {"completed", "failed", "cancelled"} =>
            turn'[u].state = turn[u].state
    BY <1>3 DEF Active
  <2> QED  BY <2>1, <2>2, <2>3 DEF EndInv
<1> QED  BY <1>4, <1>5, <1>6, <1>8, <1>9, <1>10 DEF TurnIInv

(* The states of a prompt. *)
PromptStates == {"none", "open", "answered", "rejected", "expired", "invalidated"}

PromptAnswered(p, s, yes) == [p EXCEPT !.state = s, !.approved = yes]

(* A prompt that is answered, late or expired. *)
LEMMA PromptRows ==
    ASSUME NEW p \in PromptRec
    PROVE  /\ \A s \in PromptStates, yes \in BOOLEAN :
                 PromptAnswered(p, s, yes) \in PromptRec /\ PromptAnswered(p, s, yes).state = s
           /\ LET q == [p EXCEPT !.late = TRUE] IN
              q \in PromptRec /\ q.approved = p.approved /\ q.state = p.state
           /\ LET q == [p EXCEPT !.state = "expired"] IN
              q \in PromptRec /\ q.approved = p.approved /\ q.state = "expired"
<1>1. ASSUME NEW s \in PromptStates, NEW yes \in BOOLEAN
      PROVE  PromptAnswered(p, s, yes) \in PromptRec /\ PromptAnswered(p, s, yes).state = s
  <2> DEFINE q == [p EXCEPT !.approved = yes]
             a == [q EXCEPT !.state = s]
  <2>1. q \in PromptRec  BY DEF PromptRec
  <2>2. PromptAnswered(p, s, yes) = a  BY DEF PromptAnswered, PromptRec
  <2> HIDE DEF q
  <2>3. a \in PromptRec /\ a.state = s  BY <2>1 DEF PromptRec, PromptStates
  <2> QED  BY <2>2, <2>3
<1>2. LET q == [p EXCEPT !.late = TRUE] IN
      q \in PromptRec /\ q.approved = p.approved /\ q.state = p.state
  BY DEF PromptRec
<1>3. LET q == [p EXCEPT !.state = "expired"] IN
      q \in PromptRec /\ q.approved = p.approved /\ q.state = "expired"
  BY DEF PromptRec
<1> QED  BY <1>1, <1>2, <1>3

(* The owner decides. *)
LEMMA DecideInv ==
    ASSUME TurnIInv, NEW t \in Turns, NEW o \in OpsOf[t], NEW yes \in BOOLEAN,
           Decide(t, o, yes)
    PROVE  TurnIInv' /\ \A u \in Turns : TurnRow(u)
<1> DEFINE s == IF yes THEN "answered" ELSE "rejected"
           p == PromptAnswered(prompt[t][o], s, yes)
<1>1. /\ RowsTyped /\ prompt[t][o] \in PromptRec /\ OpInv(t, o)
  BY DEF TurnIInv, RowsTyped
<1>2. /\ prompt[t][o].state = "open" /\ turn[t].state = "awaiting_prompt"
      /\ prompt' = [prompt EXCEPT ![t][o].state = s, ![t][o].approved = yes]
      /\ turn' = [turn EXCEPT ![t].state = "running"]
      /\ UNCHANGED <<chat, journal, runLease, account, engine, work, inflight, effects, faults>>
  BY DEF Decide
<1>3. s \in PromptStates  BY DEF PromptStates
<1>4. prompt' = [prompt EXCEPT ![t][o] = p]
  <2>1. t \in DOMAIN prompt /\ o \in DOMAIN prompt[t]  BY <1>1 DEF RowsTyped
  <2> HIDE DEF s
  <2> QED  BY <1>2, <2>1 DEF PromptAnswered
<1> HIDE DEF s
<1>5. p \in PromptRec  BY <1>1, <1>3, PromptRows
<1> HIDE DEF p
<1>6. o \notin ConfirmOps \/ journal[t][o].state \notin Dispatched
  BY <1>1, <1>2 DEF OpInv
<1>7. /\ work' \in [Turns -> WorkRec] /\ \A u \in Turns : WorkInv(u)'  BY <1>2, SameWork
<1>8. "running" \in TurnStates /\ "running" \in Active /\ turn[t].state \in Active
  BY <1>2 DEF TurnStates, Live, Active
<1> QED  BY <1>2, <1>4, <1>5, <1>6, <1>7, <1>8, PromptStep

(* The time of a prompt runs out, and whoever reads it records that.       *)
LEMMA PromptTimeInv ==
    ASSUME TurnIInv, NEW t \in Turns, NEW o \in OpsOf[t],
           PromptLate(t, o) \/ ExpirePrompt(t, o)
    PROVE  TurnIInv' /\ \A u \in Turns : TurnRow(u)
<1>1. RowsTyped /\ prompt[t][o] \in PromptRec /\ turn[t] \in TurnRec
  BY DEF TurnIInv, RowsTyped
<1>2. t \in DOMAIN prompt /\ o \in DOMAIN prompt[t]  BY <1>1 DEF RowsTyped
<1>3. UNCHANGED <<chat, journal, runLease, account, engine, work, inflight, effects, faults>>
  BY DEF PromptLate, ExpirePrompt
<1>4. work' \in [Turns -> WorkRec] /\ \A u \in Turns : WorkInv(u)'  BY <1>3, SameWork
<1>5. turn[t].state \in TurnStates  BY <1>1 DEF TurnRec
<1>6. CASE PromptLate(t, o)
  <2> DEFINE p == [prompt[t][o] EXCEPT !.late = TRUE]
             s == turn[t].state
  <2>1. p \in PromptRec /\ p.approved = prompt[t][o].approved
        /\ p.state = prompt[t][o].state
    BY <1>1, PromptRows
  <2>2. prompt' = [prompt EXCEPT ![t][o] = p]  BY <1>2, <1>6 DEF PromptLate
  <2>3. turn' = [turn EXCEPT ![t].state = s]
    BY <1>1, <1>6 DEF PromptLate, RowsTyped, TurnRec
  <2> HIDE DEF p
  <2> QED  BY <1>3, <1>4, <1>5, <2>1, <2>2, <2>3, PromptStep
<1>7. CASE ExpirePrompt(t, o)
  <2> DEFINE p == [prompt[t][o] EXCEPT !.state = "expired"]
             s == IF turn[t].state = "awaiting_prompt" /\ turn[t].epoch = prompt[t][o].epoch
                  THEN "running" ELSE turn[t].state
  <2>1. p \in PromptRec /\ p.approved = prompt[t][o].approved /\ p.state = "expired"
    BY <1>1, PromptRows
  <2>2. prompt' = [prompt EXCEPT ![t][o] = p]  BY <1>2, <1>7 DEF ExpirePrompt
  <2>3. turn' = [turn EXCEPT ![t].state = s]  BY <1>7 DEF ExpirePrompt
  <2>4. s \in TurnStates /\ (s = turn[t].state \/ (s \in Active /\ turn[t].state \in Active))
    BY <1>5 DEF TurnStates, Live, Active
  <2> HIDE DEF p, s
  <2> QED  BY <1>3, <1>4, <2>1, <2>2, <2>3, <2>4, PromptStep
<1> QED  BY <1>6, <1>7

(* A question is put to the owner before its operation was started.        *)
LEMMA OpenPromptInv ==
    ASSUME TurnIInv, NEW t \in Turns, OpenPrompt(t)
    PROVE  TurnIInv' /\ \A u \in Turns : TurnRow(u)
<1> DEFINE o == work[t].op
           p == [state |-> "open", epoch |-> work[t].epoch, approved |-> FALSE, late |-> FALSE]
           w == [work[t] EXCEPT !.pc = "confirm"]
<1>1. /\ RowsTyped /\ work \in [Turns -> WorkRec] /\ work[t] \in WorkRec
      /\ \A u \in Turns : WorkInv(u)
  BY DEF TurnIInv, RowsTyped
<1>2. /\ work[t].pc = "ask" /\ turn[t].state \in Active
      /\ prompt' = [prompt EXCEPT ![t][o] = p]
      /\ turn' = [turn EXCEPT ![t].state = "awaiting_prompt"]
      /\ work' = [work EXCEPT ![t] = w]
      /\ UNCHANGED <<chat, journal, runLease, account, engine, inflight, effects, faults>>
  BY DEF OpenPrompt, At, Fenced
<1>3. o \in OpsOf[t] /\ journal[t][o].state = "prepared"  BY <1>1, <1>2 DEF WorkInv
<1>4. p \in PromptRec  BY <1>1 DEF PromptRec, WorkRec
<1>5. w \in WorkRec /\ w.pc = "confirm" /\ w.op = o  BY <1>1 DEF WorkRec
<1> HIDE DEF p, w, o
<1>6. work' \in [Turns -> WorkRec] /\ \A u \in Turns : WorkInv(u)'
  BY <1>1, <1>2, <1>3, <1>5 DEF WorkInv
<1>7. journal[t][o].state \notin Dispatched  BY <1>3 DEF Dispatched
<1>8. "awaiting_prompt" \in TurnStates /\ "awaiting_prompt" \in Active
  BY DEF TurnStates, Live, Active
<1> QED  BY <1>2, <1>3, <1>4, <1>6, <1>7, <1>8, PromptStep

(* The rows of an operation that a step leaves alone. *)
LEMMA SameRows ==
    ASSUME RowsTyped, NEW t \in Turns, NEW o \in OpsOf[t]
    PROVE  /\ journal[t][o] \in JournalRec /\ effects[t][o] \in Nat
           /\ t \in DOMAIN journal /\ o \in DOMAIN journal[t]
           /\ t \in DOMAIN effects /\ o \in DOMAIN effects[t]
BY DEF RowsTyped

(* The row of an operation in another state. *)
LEMMA JournalRow ==
    ASSUME NEW j \in JournalRec,
           NEW s \in {"none", "prepared", "started", "succeeded", "failed", "unknown_outcome"}
    PROVE  LET q == [j EXCEPT !.state = s] IN
           q \in JournalRec /\ q.state = s /\ q.epoch = j.epoch
BY DEF JournalRec

(* The row of a worker that takes up an operation.                         *)
LEMMA CalledRow ==
    ASSUME NEW w \in WorkRec, NEW o \in Ops
    PROVE  LET n == [[w EXCEPT !.rounds = @ + 1] EXCEPT !.op = o] IN
           n \in WorkRec /\ n.op = o /\ n.pc = w.pc
<1> DEFINE a == [w EXCEPT !.rounds = @ + 1]
           n == [a EXCEPT !.op = o]
<1>1. a \in WorkRec /\ a.pc = w.pc  BY DEF WorkRec
<1> HIDE DEF a
<1>2. n \in WorkRec /\ n.op = o /\ n.pc = w.pc  BY <1>1 DEF WorkRec
<1> QED  BY <1>2 DEF a

(* An operation that was not started has done nothing and has not left.    *)
LEMMA NotDispatched ==
    ASSUME NEW t \in Turns, NEW o \in OpsOf[t], OpInv(t, o),
           journal[t][o].state \in {"none", "prepared", "failed"}
    PROVE  effects[t][o] = 0 /\ <<t, o>> \notin inflight
BY DEF OpInv, Dispatched

(* A call of the model is prepared. *)
LEMMA CallToolInv ==
    ASSUME TurnIInv, NEW t \in Turns, NEW o \in OpsOf[t], CallTool(t, o)
    PROVE  TurnIInv' /\ \A u \in Turns : TurnRow(u)
<1>1. /\ RowsTyped /\ work \in [Turns -> WorkRec] /\ work[t] \in WorkRec /\ OpInv(t, o)
  BY DEF TurnIInv, RowsTyped
<1>2. /\ turn[t].state \in Active
      /\ UNCHANGED <<turn, chat, prompt, runLease, account, engine, inflight, effects, faults>>
  BY DEF CallTool, Fenced
<1>3. CASE journal[t][o].state = "none"
  <2> DEFINE j == [state |-> "prepared", epoch |-> work[t].epoch]
             pc == IF o \in ConfirmOps THEN "ask" ELSE "ready"
             n == [[work[t] EXCEPT !.rounds = @ + 1] EXCEPT !.op = o]
             w == [n EXCEPT !.pc = pc]
             next == [work EXCEPT ![t].rounds = @ + 1, ![t].op = o]
  <2>1. /\ journal' = [journal EXCEPT ![t][o] = j] /\ work' = [next EXCEPT ![t].pc = pc]
    BY <1>3 DEF CallTool
  <2>2. j \in JournalRec /\ j.state = "prepared"  BY <1>1 DEF JournalRec, WorkRec
  <2>3. o \in Ops  BY DEF Ops
  <2>4. n \in WorkRec /\ n.op = o  BY <1>1, <2>3, CalledRow
  <2>9. next = [work EXCEPT ![t] = n]  BY <1>1
  <2> HIDE DEF n, next
  <2>10. work' = [work EXCEPT ![t] = w]  BY <1>1, <2>1, <2>9
  <2>11. w \in WorkRec /\ w.op = o  BY <2>4 DEF WorkRec
  <2> HIDE DEF j, w
  <2>5. journal'[t][o] = j  BY <1>1, <2>1, SameRows
  <2>6. WorkOk(t, w) /\ (w.pc = "ask" => journal'[t][w.op].state = "prepared")
    BY <2>2, <2>11, <2>5 DEF WorkOk
  <2>7. OpInv(t, o)'
    BY <1>1, <1>2, <1>3, <2>2, <2>5 DEF OpInv, Dispatched
  <2>8. effects' = effects /\ effects[t][o] \in Nat  BY <1>1, <1>2, SameRows
  <2> QED  BY <1>2, <2>1, <2>2, <2>6, <2>7, <2>8, <2>10, CallStep
<1>4. CASE journal[t][o].state \in {"succeeded", "failed"}
  <2> DEFINE n == [[work[t] EXCEPT !.rounds = @ + 1] EXCEPT !.op = o]
             w == [n EXCEPT !.op = NoOp]
             next == [work EXCEPT ![t].rounds = @ + 1, ![t].op = o]
  <2>5. journal' = journal /\ work' = [next EXCEPT ![t].op = NoOp] /\ work[t].pc = "think"
    BY <1>4 DEF CallTool, At
  <2>6. n \in WorkRec /\ n.pc = "think"
    <3>1. o \in Ops  BY DEF Ops
    <3> QED  BY <1>1, <2>5, <3>1, CalledRow
  <2>7. next = [work EXCEPT ![t] = n]  BY <1>1
  <2> HIDE DEF n, next
  <2>1. journal' = journal /\ work' = [work EXCEPT ![t] = w]  BY <1>1, <2>5, <2>7
  <2>2. w \in WorkRec /\ w.pc = "think"  BY <2>6 DEF WorkRec
  <2> HIDE DEF w
  <2>3. WorkOk(t, w) /\ w.pc # "ask"  BY <2>2 DEF WorkOk
  <2>4. OwnerTyped' /\ EngineTyped'
    BY <1>2 DEF TurnIInv, OwnerTyped, EngineTyped
  <2> QED  BY <1>2, <2>1, <2>3, <2>4, WorkOnly
<1> QED  BY <1>3, <1>4 DEF CallTool

(* An operation without an approval is closed before it was started.       *)
LEMMA NotConfirmedInv ==
    ASSUME TurnIInv, NEW t \in Turns, NEW o, o = work[t].op, NotConfirmed(t)
    PROVE  TurnIInv' /\ \A u \in Turns : TurnRow(u)
<1> DEFINE j == [journal[t][o] EXCEPT !.state = "failed"]
           w == [work[t] EXCEPT !.pc = "think", !.op = NoOp]
<1>1. /\ RowsTyped /\ work \in [Turns -> WorkRec] /\ work[t] \in WorkRec /\ WorkInv(t)
      /\ \A p \in OpsOf[t] : OpInv(t, p)
  BY DEF TurnIInv, RowsTyped
<1>2. /\ work[t].pc = "confirm" /\ turn[t].state \in Active
      /\ journal[t][o].state = "prepared"
      /\ UNCHANGED <<turn, chat, prompt, runLease, account, engine, inflight, effects, faults>>
      /\ journal' = [journal EXCEPT ![t][o].state = "failed"]
      /\ work' = [work EXCEPT ![t] = w]
  BY <1>1 DEF NotConfirmed, NextCall, At, Fenced
<1>3. o \in OpsOf[t]  BY <1>1, <1>2 DEF WorkInv
<1>4. w \in WorkRec /\ w.pc = "think"  BY <1>1 DEF WorkRec
<1> HIDE DEF w
<1>5. WorkOk(t, w) /\ w.pc # "ask"  BY <1>4 DEF WorkOk
<1>6. /\ journal[t][o] \in JournalRec /\ effects[t][o] \in Nat
      /\ effects' = effects
      /\ t \in DOMAIN journal /\ o \in DOMAIN journal[t]
  BY <1>1, <1>2, <1>3, SameRows
<1>7. j \in JournalRec /\ j.state = "failed"  BY <1>6, JournalRow
<1>8. journal' = [journal EXCEPT ![t][o] = j]  BY <1>2, <1>6
<1> HIDE DEF j
<1>9. journal'[t][o] = j  BY <1>6, <1>8
<1>10. OpInv(t, o)'
  <2>1. OpInv(t, o) /\ journal[t][o].state = "prepared"  BY <1>1, <1>2, <1>3
  <2>2. effects[t][o] = 0 /\ <<t, o>> \notin inflight  BY <1>3, <2>1, NotDispatched
  <2>3. effects' = effects /\ inflight' = inflight  BY <1>2
  <2>4. effects'[t][o] = 0 /\ <<t, o>> \notin inflight'  BY <2>2, <2>3
  <2>5. journal'[t][o].state = "failed"  BY <1>7, <1>9
  <2> QED  BY <2>4, <2>5 DEF OpInv, Dispatched
<1> QED  BY <1>2, <1>3, <1>5, <1>6, <1>7, <1>8, <1>10, CallStep

(* An operation is started with its approval, and then may leave.          *)
LEMMA StartToolInv ==
    ASSUME TurnIInv, NEW t \in Turns, NEW o, o = work[t].op, StartTool(t)
    PROVE  TurnIInv' /\ \A u \in Turns : TurnRow(u)
<1> DEFINE j == [journal[t][o] EXCEPT !.state = "started"]
           w == [work[t] EXCEPT !.pc = "exec"]
<1>1. /\ RowsTyped /\ work \in [Turns -> WorkRec] /\ work[t] \in WorkRec /\ WorkInv(t)
      /\ \A p \in OpsOf[t] : OpInv(t, p)
  BY DEF TurnIInv, RowsTyped
<1>2. /\ work[t].pc = "ready" /\ turn[t].state \in Active /\ Consent(t, o)
      /\ journal[t][o].state = "prepared"
      /\ UNCHANGED <<turn, chat, prompt, runLease, account, engine, effects, faults>>
      /\ journal' = [journal EXCEPT ![t][o].state = "started"]
      /\ work' = [work EXCEPT ![t] = w]
      /\ inflight' = IF o \in NativeOps THEN inflight ELSE inflight \union {<<t, o>>}
  BY DEF StartTool, At, Fenced
<1>3. o \in OpsOf[t]  BY <1>1, <1>2 DEF WorkInv
<1>4. w \in WorkRec /\ w.pc = "exec" /\ w.op = o  BY <1>1 DEF WorkRec
<1> HIDE DEF w
<1>5. WorkOk(t, w) /\ w.pc # "ask"  BY <1>3, <1>4 DEF WorkOk
<1>6. /\ journal[t][o] \in JournalRec /\ effects[t][o] \in Nat
      /\ effects' = effects
      /\ t \in DOMAIN journal /\ o \in DOMAIN journal[t]
  BY <1>1, <1>2, <1>3, SameRows
<1>7. j \in JournalRec /\ j.state = "started"  BY <1>6, JournalRow
<1>8. journal' = [journal EXCEPT ![t][o] = j]  BY <1>2, <1>6
<1> HIDE DEF j
<1>9. journal'[t][o] = j  BY <1>6, <1>8
<1>10. OpInv(t, o)'
  <2>4. OpInv(t, o) /\ journal[t][o].state = "prepared"  BY <1>1, <1>2, <1>3
  <2>5. effects[t][o] = 0 /\ <<t, o>> \notin inflight  BY <1>3, <2>4, NotDispatched
  <2>1. effects'[t][o] = 0  BY <1>6, <2>5
  <2>2. o \in ConfirmOps => prompt'[t][o].approved /\ prompt'[t][o].state # "open"
    BY <1>2 DEF Consent
  <2>6. inflight' = IF o \in NativeOps THEN inflight ELSE inflight \union {<<t, o>>}
    BY <1>2
  <2>3. <<t, o>> \in inflight' => o \notin NativeOps  BY <2>5, <2>6
  <2>7. journal'[t][o].state = "started"  BY <1>7, <1>9
  <2> QED  BY <2>1, <2>2, <2>3, <2>7 DEF OpInv, Dispatched
<1>11. \/ inflight' = inflight
       \/ inflight' = inflight \union {<<t, o>>}
  BY <1>2
<1> QED  BY <1>2, <1>3, <1>5, <1>6, <1>7, <1>8, <1>10, <1>11, CallStep

(* The journal's row when a call is over.                                  *)
LEMMA OpFinished ==
    ASSUME NEW t \in Turns, NEW o \in OpsOf[t], OpInv(t, o),
           journal[t][o].state \in {"started", "succeeded"},
           \/ journal'[t][o].state = "succeeded"
           \/ journal'[t][o].state = "failed" /\ effects[t][o] = 0,
           effects' = effects, prompt' = prompt, <<t, o>> \notin inflight'
    PROVE  OpInv(t, o)'
<1>1. effects'[t][o] = effects[t][o] /\ prompt'[t][o] = prompt[t][o]  OBVIOUS
<1>2. /\ effects[t][o] <= 1
      /\ o \in ConfirmOps => prompt[t][o].approved /\ prompt[t][o].state # "open"
      /\ o \in NativeOps /\ effects[t][o] > 0 => journal[t][o].state = "succeeded"
  BY DEF OpInv, Dispatched
<1>3. CASE journal'[t][o].state = "succeeded"  BY <1>1, <1>2, <1>3 DEF OpInv, Dispatched
<1>4. CASE journal'[t][o].state = "failed" /\ effects[t][o] = 0
  <2>1. effects'[t][o] = 0 /\ journal'[t][o].state = "failed"  BY <1>1, <1>4
  <2> QED  BY <2>1 DEF OpInv, Dispatched
<1> QED  BY <1>3, <1>4

(* A call that returned, or that the tool refused.                         *)
LEMMA FinishInv ==
    ASSUME TurnIInv, NEW t \in Turns, NEW o, o = work[t].op, At(t, "exec"),
           NEW st \in {"succeeded", "failed"}, FinishTool(t, st),
           st = "failed" => effects[t][o] = 0,
           UNCHANGED <<turn, chat, prompt, runLease, account, engine, effects, faults>>,
           inflight' = inflight \/ inflight' = inflight \ {<<t, o>>},
           <<t, o>> \notin inflight'
    PROVE  TurnIInv' /\ \A u \in Turns : TurnRow(u)
<1>1. /\ RowsTyped /\ work \in [Turns -> WorkRec] /\ work[t] \in WorkRec /\ WorkInv(t)
      /\ \A p \in OpsOf[t] : OpInv(t, p)
  BY DEF TurnIInv, RowsTyped
<1>2. o \in OpsOf[t]  BY <1>1 DEF WorkInv, At
<1>3. /\ journal[t][o] \in JournalRec /\ effects[t][o] \in Nat
      /\ t \in DOMAIN journal /\ o \in DOMAIN journal[t]
  BY <1>1, <1>2, SameRows
<1>4. OpInv(t, o)  BY <1>1, <1>2
<1>5. CASE /\ Fenced(t)
           /\ journal[t][o].state \in {"started"} \union ({st} \intersect {"succeeded"})
           /\ journal' = [journal EXCEPT ![t][o].state = st] /\ NextCall(t)
  <2> DEFINE j == [journal[t][o] EXCEPT !.state = st]
             w == [work[t] EXCEPT !.pc = "think", !.op = NoOp]
  <2>10. st \in {"none", "prepared", "started", "succeeded", "failed", "unknown_outcome"}
    OBVIOUS
  <2>1. j \in JournalRec /\ j.state = st  BY <1>3, <2>10, JournalRow
  <2>2. journal' = [journal EXCEPT ![t][o] = j]  BY <1>3, <1>5
  <2>3. w \in WorkRec /\ w.pc = "think"  BY <1>1 DEF WorkRec
  <2>4. work' = [work EXCEPT ![t] = w]  BY <1>1, <1>5 DEF NextCall
  <2> HIDE DEF j, w
  <2>5. WorkOk(t, w) /\ w.pc # "ask"  BY <2>3 DEF WorkOk
  <2>6. journal'[t][o] = j  BY <1>3, <2>2
  <2>7. journal'[t][o].state = st /\ journal[t][o].state \in {"started", "succeeded"}
    BY <1>5, <2>1, <2>6
  <2>8. OpInv(t, o)'  BY <1>2, <1>4, <2>7, OpFinished
  <2>9. turn[t].state \in Active  BY <1>5 DEF Fenced
  <2> QED  BY <1>2, <1>3, <2>1, <2>2, <2>4, <2>5, <2>8, <2>9, CallStep
<1>6. CASE UNCHANGED journal /\ Return(t, "failed")
  <2> DEFINE w == [work[t] EXCEPT !.pc = "final", !.out = "failed"]
  <2>1. w \in WorkRec /\ w.pc = "final"  BY <1>1 DEF WorkRec
  <2>2. work' = [work EXCEPT ![t] = w]  BY <1>1, <1>6 DEF Return
  <2> HIDE DEF w
  <2>3. WorkOk(t, w) /\ w.pc # "ask"  BY <2>1 DEF WorkOk
  <2>4. OpInv(t, o)'
    <3>1. <<t, o>> \in inflight' => <<t, o>> \in inflight  OBVIOUS
    <3>2. /\ journal'[t][o].state = journal[t][o].state /\ effects'[t][o] = effects[t][o]
          /\ prompt'[t][o].approved = prompt[t][o].approved
          /\ prompt'[t][o].state = "open" => prompt[t][o].state = "open"
      BY <1>6
    <3> QED  BY <1>2, <1>4, <3>1, <3>2, OpsKept
  <2> DEFINE j == journal[t][o]
  <2>5. journal' = journal /\ j = journal[t][o] /\ j \in JournalRec  BY <1>3, <1>6
  <2> HIDE DEF j
  <2>6. j.state = journal[t][o].state  BY <2>5
  <2> QED  BY <1>2, <1>3, <2>2, <2>3, <2>4, <2>5, <2>6, CallStep
<1> QED  BY <1>5, <1>6 DEF FinishTool

(* A tool returns, or refuses before it dispatches anything.               *)
LEMMA ToolReturnsInv ==
    ASSUME TurnIInv, NEW t \in Turns, ToolOk(t) \/ ToolRejected(t)
    PROVE  TurnIInv' /\ \A u \in Turns : TurnRow(u)
<1> SUFFICES ASSUME NEW o, o = work[t].op
             PROVE  TurnIInv' /\ \A u \in Turns : TurnRow(u)
  OBVIOUS
<1>1. CASE ToolOk(t)
  <2>1. /\ At(t, "exec") /\ FinishTool(t, "succeeded")
        /\ UNCHANGED <<turn, chat, prompt, runLease, account, engine, effects, faults>>
        /\ inflight' = inflight /\ <<t, o>> \notin inflight
    BY <1>1 DEF ToolOk
  <2> QED  BY <2>1, FinishInv
<1>2. CASE ToolRejected(t)
  <2>1. /\ At(t, "exec") /\ FinishTool(t, "failed") /\ effects[t][o] = 0
        /\ UNCHANGED <<turn, chat, prompt, runLease, account, engine, effects, faults>>
        /\ inflight' = inflight \ {<<t, o>>}
    BY <1>2 DEF ToolRejected
  <2> QED  BY <2>1, FinishInv
<1> QED  BY <1>1, <1>2

(* A call of which nobody knows whether it took effect.                    *)
LEMMA ToolAmbiguousInv ==
    ASSUME TurnIInv, NEW t \in Turns, ToolAmbiguous(t)
    PROVE  TurnIInv' /\ \A u \in Turns : TurnRow(u)
<1> SUFFICES ASSUME NEW o, o = work[t].op
             PROVE  TurnIInv' /\ \A u \in Turns : TurnRow(u)
  OBVIOUS
<1> DEFINE w == [work[t] EXCEPT !.pc = "final", !.out = "unknown_outcome"]
           j == [journal[t][o] EXCEPT !.state = "unknown_outcome"]
<1>1. /\ OwnerTyped /\ EngineTyped /\ RowsTyped /\ work \in [Turns -> WorkRec]
      /\ work[t] \in WorkRec /\ WorkInv(t) /\ \A p \in OpsOf[t] : OpInv(t, p)
  BY DEF TurnIInv, RowsTyped
<1>2. /\ work[t].pc = "exec" /\ Return(t, "unknown_outcome")
      /\ UNCHANGED <<turn, chat, prompt, runLease, account, engine, inflight, effects, faults>>
  BY DEF ToolAmbiguous, At
<1>3. o \in OpsOf[t]  BY <1>1, <1>2 DEF WorkInv
<1>4. w \in WorkRec /\ w.pc = "final"  BY <1>1 DEF WorkRec
<1>5. work' = [work EXCEPT ![t] = w]  BY <1>1, <1>2 DEF Return
<1> HIDE DEF w
<1>6. WorkOk(t, w) /\ w.pc # "ask"  BY <1>4 DEF WorkOk
<1>7. CASE /\ Fenced(t) /\ journal[t][o].state = "started"
           /\ journal' = [journal EXCEPT ![t][o].state = "unknown_outcome"]
  <2>1. /\ journal[t][o] \in JournalRec /\ effects[t][o] \in Nat /\ effects' = effects
        /\ t \in DOMAIN journal /\ o \in DOMAIN journal[t]
    BY <1>1, <1>2, <1>3, SameRows
  <2>2. j \in JournalRec /\ j.state = "unknown_outcome"  BY <2>1, JournalRow
  <2>3. journal' = [journal EXCEPT ![t][o] = j]  BY <1>7, <2>1
  <2> HIDE DEF j
  <2>4. journal'[t][o] = j  BY <2>1, <2>3
  <2>5. OpInv(t, o)'
    <3>1. OpInv(t, o) /\ journal[t][o].state = "started"
          /\ journal'[t][o].state = "unknown_outcome"
      BY <1>1, <1>3, <1>7, <2>2, <2>4
    <3>2. /\ effects'[t][o] = effects[t][o] /\ (<<t, o>> \in inflight' => <<t, o>> \in inflight)
          /\ prompt'[t][o].approved = prompt[t][o].approved
          /\ prompt'[t][o].state = "open" => prompt[t][o].state = "open"
      BY <1>2
    <3> QED  BY <1>3, <3>1, <3>2, OpsKept
  <2>6. turn[t].state \in Active  BY <1>7 DEF Fenced
  <2> QED  BY <1>2, <1>3, <1>5, <1>6, <2>1, <2>2, <2>3, <2>5, <2>6, CallStep
<1>8. CASE UNCHANGED journal
  <2>1. OwnerTyped' /\ EngineTyped'  BY <1>1, <1>2 DEF OwnerTyped, EngineTyped
  <2> QED  BY <1>2, <1>5, <1>6, <1>8, <2>1, WorkOnly
<1> QED  BY <1>7, <1>8 DEF ToolAmbiguous

-----------------------------------------------------------------------------
(* Effects.                                                                *)

(* The service carries out a call that was on its way: for the first time. *)
LEMMA PerformInv ==
    ASSUME TurnIInv, NEW t \in Turns, NEW o \in OpsOf[t], Perform(t, o)
    PROVE  TurnIInv' /\ \A u \in Turns : TurnRow(u)
<1>1. /\ RowsTyped /\ work \in [Turns -> WorkRec] /\ work[t] \in WorkRec /\ WorkInv(t)
      /\ OpInv(t, o)
  BY DEF TurnIInv, RowsTyped
<1>2. /\ <<t, o>> \in inflight /\ inflight' = inflight \ {<<t, o>>}
      /\ effects' = [effects EXCEPT ![t][o] = effects[t][o] + 1]
      /\ UNCHANGED <<turn, chat, journal, prompt, runLease, account, engine, work, faults>>
  BY DEF Perform
<1>3. effects[t][o] = 0 /\ o \notin NativeOps /\ journal[t][o].state \in {"started", "unknown_outcome"}
      /\ (o \in ConfirmOps => prompt[t][o].approved /\ prompt[t][o].state # "open")
  BY <1>1, <1>2 DEF OpInv, Dispatched
<1>4. /\ journal[t][o] \in JournalRec
      /\ t \in DOMAIN effects /\ o \in DOMAIN effects[t]
  BY <1>1, SameRows
<1>5. effects' = [effects EXCEPT ![t][o] = 1] /\ effects'[t][o] = 1  BY <1>2, <1>3, <1>4
<1>6. OpInv(t, o)'
  <2>1. journal'[t][o] = journal[t][o] /\ prompt'[t][o] = prompt[t][o]  BY <1>2
  <2>2. <<t, o>> \notin inflight'  BY <1>2
  <2> QED  BY <1>3, <1>5, <2>1, <2>2 DEF OpInv, Dispatched
<1> DEFINE w == work[t]
           j == journal[t][o]
<1>7. WorkOk(t, w) /\ (w.pc = "ask" => journal'[t][w.op].state = "prepared")
  BY <1>1, <1>2 DEF WorkOk, WorkInv
<1>8. work' = [work EXCEPT ![t] = w]  BY <1>1, <1>2
<1>9. journal' = journal /\ j = journal[t][o] /\ j \in JournalRec  BY <1>2, <1>4
<1> HIDE DEF w, j
<1>10. j.state = journal[t][o].state  BY <1>9
<1> QED  BY <1>2, <1>5, <1>6, <1>7, <1>8, <1>9, <1>10, CallStep

(* A native tool: the effect and its record in one step.                   *)
LEMMA PerformNativeInv ==
    ASSUME TurnIInv, NEW t \in Turns, NEW o, o = work[t].op, PerformNative(t)
    PROVE  TurnIInv' /\ \A u \in Turns : TurnRow(u)
<1>1. /\ RowsTyped /\ work \in [Turns -> WorkRec] /\ work[t] \in WorkRec /\ WorkInv(t)
      /\ \A p \in OpsOf[t] : OpInv(t, p)
  BY DEF TurnIInv, RowsTyped
<1>2. /\ work[t].pc = "exec" /\ o \in NativeOps /\ turn[t].state \in Active
      /\ journal[t][o] = [state |-> "started", epoch |-> work[t].epoch]
      /\ effects' = [effects EXCEPT ![t][o] = effects[t][o] + 1]
      /\ journal' = [journal EXCEPT ![t][o].state = "succeeded"]
      /\ UNCHANGED <<turn, chat, prompt, runLease, account, engine, work, inflight, faults>>
  BY DEF PerformNative, At, Fenced
<1>3. o \in OpsOf[t] /\ OpInv(t, o) /\ journal[t][o].state = "started"
  BY <1>1, <1>2 DEF WorkInv
<1>4. /\ effects[t][o] = 0 /\ <<t, o>> \notin inflight
      /\ o \in ConfirmOps => prompt[t][o].approved /\ prompt[t][o].state # "open"
  <2>1. effects[t][o] \in Nat  BY <1>1, <1>3, SameRows
  <2> QED  BY <1>2, <1>3, <2>1 DEF OpInv, Dispatched
<1>5. /\ journal[t][o] \in JournalRec /\ t \in DOMAIN journal /\ o \in DOMAIN journal[t]
      /\ t \in DOMAIN effects /\ o \in DOMAIN effects[t]
  BY <1>1, <1>3, SameRows
<1> DEFINE j == [journal[t][o] EXCEPT !.state = "succeeded"]
           w == work[t]
<1>6. j \in JournalRec /\ j.state = "succeeded"  BY <1>5, JournalRow
<1>7. journal' = [journal EXCEPT ![t][o] = j]  BY <1>2, <1>5
<1>8. WorkOk(t, w) /\ w.pc # "ask"  BY <1>1, <1>2 DEF WorkOk, WorkInv
<1>9. work' = [work EXCEPT ![t] = w]  BY <1>1, <1>2
<1> HIDE DEF j, w
<1>10. effects' = [effects EXCEPT ![t][o] = 1] /\ effects'[t][o] = 1  BY <1>2, <1>4, <1>5
<1>11. journal'[t][o].state = "succeeded"  BY <1>5, <1>6, <1>7
<1>12. OpInv(t, o)'
  <2>1. prompt'[t][o] = prompt[t][o] /\ <<t, o>> \notin inflight'  BY <1>2, <1>4
  <2> QED  BY <1>4, <1>10, <1>11, <2>1 DEF OpInv, Dispatched
<1> QED  BY ZenonT(60), <1>2, <1>3, <1>6, <1>7, <1>8, <1>9, <1>10, <1>12, CallStep
-----------------------------------------------------------------------------
(* The specification.                                                      *)

(* Every step of the system keeps the invariant, and its rows are TurnRow.     *)
LEMMA TurnStepInv ==
    ASSUME TurnIInv, [TurnNext]_turnVars PROVE TurnIInv' /\ \A u \in Turns : TurnRow(u)
<1>1. CASE UNCHANGED turnVars
  <2>1. UNCHANGED <<turn, chat, journal, prompt, runLease, account, engine, work, inflight,
                    effects, faults>>
    BY <1>1 DEF turnVars
  <2>2. OwnerTyped' /\ EngineTyped'  BY <2>1 DEF TurnIInv, OwnerTyped, EngineTyped
  <2>3. OrderInv'  BY <2>1, OrderKept DEF TurnIInv
  <2>4. \A u \in Turns : TurnRow(u) /\ turn'[u].state = turn[u].state  BY <2>1 DEF TurnRow
  <2>5. turn' \in [Turns -> TurnRec]  BY <2>1 DEF TurnIInv, RowsTyped
  <2> QED  BY <2>1, <2>2, <2>3, <2>4, <2>5, NoCallNow, SameWork, SamePrompt
<1>2. ASSUME NEW t \in Turns, Accept(t) \/ CancelTurn(t) \/ Worker(t)
      PROVE  TurnIInv' /\ \A u \in Turns : TurnRow(u)
  <2>1. CASE Accept(t)  BY <2>1, AcceptInv
  <2>2. CASE CancelTurn(t)  BY <2>2, CancelTurnInv
  <2>3. CASE Answer(t) \/ Confirmed(t) \/ GiveUp(t) \/ CompleteFails(t)
    BY <2>3, WorkerMovesInv
  <2>4. CASE OpenPrompt(t)  BY <2>4, OpenPromptInv
  <2>5. CASE NotConfirmed(t)  BY <2>5, NotConfirmedInv
  <2>6. CASE StartTool(t)  BY <2>6, StartToolInv
  <2>7. CASE PerformNative(t)  BY <2>7, PerformNativeInv
  <2>8. CASE ToolOk(t) \/ ToolRejected(t)  BY <2>8, ToolReturnsInv
  <2>9. CASE ToolAmbiguous(t)  BY <2>9, ToolAmbiguousInv
  <2>10. CASE Complete(t)  BY <2>10, CompleteInv
  <2>11. CASE CompleteFenced(t)  BY <2>11, CompleteFencedInv
  <2>12. CASE \E o \in OpsOf[t] : CallTool(t, o)  BY <2>12, CallToolInv
  <2> QED  BY <1>2, <2>1, <2>2, <2>3, <2>4, <2>5, <2>6, <2>7, <2>8, <2>9, <2>10, <2>11, <2>12
           DEF Worker
<1>3. ASSUME NEW t \in Turns, NEW o \in OpsOf[t],
             \/ Perform(t, o) \/ PromptLate(t, o) \/ ExpirePrompt(t, o)
             \/ \E approve \in BOOLEAN : Decide(t, o, approve)
      PROVE  TurnIInv' /\ \A u \in Turns : TurnRow(u)
  BY <1>3, PerformInv, PromptTimeInv, DecideInv
<1>4. ASSUME NEW c \in Chats, Clear(c) PROVE TurnIInv' /\ \A u \in Turns : TurnRow(u)
  BY <1>4, ClearInv
<1>5. ASSUME NEW r \in Runs,
             \/ AcquireRuntime(r) \/ StopRun(r) \/ ReleaseRuntime(r) \/ Crash(r)
             \/ ReconcileSecurity(r) \/ \E t \in Turns : Claim(r, t)
      PROVE  TurnIInv' /\ \A u \in Turns : TurnRow(u)
  <2>1. CASE AcquireRuntime(r)  BY <2>1, AcquireInv
  <2>2. CASE StopRun(r) \/ ReleaseRuntime(r)  BY <2>2, AroundInv
  <2>3. CASE Crash(r)  BY <2>3, CrashInv
  <2>4. CASE ReconcileSecurity(r)  BY <2>4, ReconcileInv
  <2>5. CASE \E t \in Turns : Claim(r, t)  BY <2>5, ClaimInv
  <2> QED  BY <1>5, <2>1, <2>2, <2>3, <2>4, <2>5
<1>6. CASE LeaseExpires \/ AccountChange  BY <1>6, AroundInv
<1> QED  BY <1>1, <1>2, <1>3, <1>4, <1>5, <1>6 DEF TurnNext

(* The invariant holds in every state a behaviour reaches.                 *)
THEOREM TurnInductive == TurnSpec => []TurnIInv
<1>1. TurnIInv /\ [TurnNext]_turnVars => TurnIInv'  BY TurnStepInv
<1> QED  BY <1>1, TurnInitInv, PTL DEF TurnSpec

(* What the invariant says of the order of a chat and of approvals.        *)
LEMMA TurnIInvSafe == TurnIInv => TurnSafe
<1> SUFFICES ASSUME TurnIInv PROVE TurnSafe  OBVIOUS
<1>1. OneTurnPerChat  BY DEF TurnIInv, OrderInv
<1>2. ASSUME NEW t \in Turns, NEW o \in OpsOf[t], o \in ConfirmOps,
             effects[t][o] > 0 \/ <<t, o>> \in inflight
      PROVE  prompt[t][o].approved
  <2>1. OpInv(t, o) /\ effects[t][o] \in Nat  BY SameRows DEF TurnIInv
  <2>2. journal[t][o].state \in Dispatched
    <3>1. CASE <<t, o>> \in inflight  BY <2>1, <3>1 DEF OpInv
    <3>2. CASE effects[t][o] > 0
      <4>1. effects[t][o] # 0  BY <2>1, <3>2
      <4> QED  BY <2>1, <4>1 DEF OpInv
    <3> QED  BY <1>2, <3>1, <3>2
  <2> QED  BY <1>2, <2>1, <2>2 DEF OpInv
<1>3. ApprovedFirst  BY <1>2 DEF ApprovedFirst
<1> QED  BY <1>1, <1>3 DEF TurnSafe

(* Turns of a chat run one at a time and in their order, and nothing that  *)
(* needs the owner's approval takes effect or leaves the process without   *)
(* it, however engines, workers and requests interleave.                   *)
THEOREM TurnSafety == TurnSpec => []TurnSafe
BY TurnInductive, TurnIInvSafe, PTL

(* The invariant gives every row its type.                                 *)
LEMMA TurnTyped == TurnIInv => TurnTypeOK
<1> SUFFICES ASSUME TurnIInv PROVE TurnTypeOK  OBVIOUS
<1>1. OwnerTyped /\ EngineTyped /\ RowsTyped  BY DEF TurnIInv
<1>2. turn \in [Turns -> TurnRec]  BY <1>1 DEF RowsTyped
<1>3. chat \in [Chats -> 1 .. MaxFaults + 1]
  BY <1>1, TurnAssumption DEF OwnerTyped
<1>4. ASSUME NEW t \in Turns
      PROVE  /\ work[t].pc \in {"none", "think", "ask", "confirm", "ready", "exec", "final", "gone"}
             /\ work[t].run \in 0 .. MaxFaults + 1
  <2>1. work[t] \in WorkRec  BY <1>1 DEF RowsTyped
  <2> QED  BY <2>1 DEF WorkRec
<1>5. ASSUME NEW t \in Turns, NEW o \in OpsOf[t]
      PROVE  /\ journal[t][o].state \in {"none", "prepared", "started", "succeeded",
                                         "failed", "unknown_outcome"}
             /\ prompt[t][o].state \in {"none", "open", "answered", "rejected", "expired",
                                        "invalidated"}
             /\ effects[t][o] \in Nat
  <2>1. journal[t][o] \in JournalRec /\ prompt[t][o] \in PromptRec /\ effects[t][o] \in Nat
    BY <1>1 DEF RowsTyped
  <2> QED  BY <2>1 DEF JournalRec, PromptRec
<1> QED
  BY <1>1, <1>2, <1>3, <1>4, <1>5 DEF TurnTypeOK, TurnRec, TurnStates, EngineTyped, RowsTyped

(* The row of a turn that has ended keeps its state for good.              *)
THEOREM TurnEndsForGood == TurnSpec => EndedTurnFinal
<1>1. TurnIInv /\ [TurnNext]_turnVars
        => [\A t \in Turns : turn[t].state \in TurnEnded => turn'[t].state = turn[t].state]_turnVars
  BY TurnStepInv DEF TurnRow
<1> QED  BY <1>1, TurnInductive, PTL DEF TurnSpec, EndedTurnFinal
-----------------------------------------------------------------------------
(* The abstract specification.                                             *)

Done   == [t \in Turns |-> [o \in Ops \ ReadOps |-> IF o \in OpsOf[t] THEN effects[t][o] ELSE 0]]
Report == [t \in Turns |-> TurnReport(t)]

(* A step leaves the outside world alone, or carries out one call that was *)
(* started and of which nobody knows the outcome yet.                      *)
LEMMA EffectsStep ==
    ASSUME TurnIInv, [TurnNext]_turnVars
    PROVE  \/ UNCHANGED effects
           \/ /\ UNCHANGED turn
              /\ \E t \in Turns : \E o \in OpsOf[t] :
                    /\ effects[t][o] = 0 /\ Unfinished(t)
                    /\ effects' = [effects EXCEPT ![t][o] = 1]
<1>1. CASE UNCHANGED turnVars  BY <1>1 DEF turnVars
<1>2. ASSUME NEW t \in Turns, Worker(t), ~PerformNative(t) PROVE UNCHANGED effects
  BY <1>2 DEF Worker, Answer, OpenPrompt, Confirmed, NotConfirmed, StartTool, ToolOk,
              ToolRejected, ToolAmbiguous, GiveUp, Complete, CompleteFenced, CompleteFails,
              CallTool
<1>3. ASSUME NEW t \in Turns, NEW o \in OpsOf[t], effects[t][o] = 0,
             journal[t][o].state \in {"started", "unknown_outcome"},
             effects' = [effects EXCEPT ![t][o] = effects[t][o] + 1], UNCHANGED turn
      PROVE  /\ UNCHANGED turn
             /\ \E u \in Turns : \E p \in OpsOf[u] :
                   /\ effects[u][p] = 0 /\ Unfinished(u)
                   /\ effects' = [effects EXCEPT ![u][p] = 1]
  <2>1. effects' = [effects EXCEPT ![t][o] = 1]  BY <1>3
  <2>2. Unfinished(t)  BY <1>3 DEF Unfinished
  <2> QED  BY <1>3, <2>1, <2>2
<1>4. ASSUME NEW t \in Turns, PerformNative(t)
      PROVE  /\ UNCHANGED turn
             /\ \E u \in Turns : \E p \in OpsOf[u] :
                   /\ effects[u][p] = 0 /\ Unfinished(u)
                   /\ effects' = [effects EXCEPT ![u][p] = 1]
  <2> DEFINE o == work[t].op
  <2>1. /\ work[t].pc = "exec" /\ o \in NativeOps /\ UNCHANGED turn
        /\ journal[t][o].state = "started"
        /\ effects' = [effects EXCEPT ![t][o] = effects[t][o] + 1]
    BY <1>4 DEF PerformNative, At
  <2>2. o \in OpsOf[t] /\ OpInv(t, o) /\ RowsTyped  BY <2>1 DEF TurnIInv, WorkInv
  <2>3. effects[t][o] = 0
    <3>1. effects[t][o] \in Nat  BY <2>2, SameRows
    <3> QED  BY <2>1, <2>2, <3>1 DEF OpInv
  <2> QED  BY <1>3, <2>1, <2>2, <2>3
<1>5. ASSUME NEW t \in Turns, NEW o \in OpsOf[t], Perform(t, o)
      PROVE  /\ UNCHANGED turn
             /\ \E u \in Turns : \E p \in OpsOf[u] :
                   /\ effects[u][p] = 0 /\ Unfinished(u)
                   /\ effects' = [effects EXCEPT ![u][p] = 1]
  <2>1. /\ <<t, o>> \in inflight /\ UNCHANGED turn
        /\ effects' = [effects EXCEPT ![t][o] = effects[t][o] + 1]
    BY <1>5 DEF Perform
  <2>2. OpInv(t, o)  BY DEF TurnIInv
  <2>3. effects[t][o] = 0 /\ journal[t][o].state \in {"started", "unknown_outcome"}
    BY <2>1, <2>2 DEF OpInv, Dispatched
  <2> QED  BY <1>3, <2>1, <2>3
<1>6. ASSUME NEW t \in Turns, Accept(t) \/ CancelTurn(t) PROVE UNCHANGED effects
  BY <1>6 DEF Accept, CancelTurn
<1>7. ASSUME NEW t \in Turns, NEW o \in OpsOf[t],
             \/ PromptLate(t, o) \/ ExpirePrompt(t, o)
             \/ \E approve \in BOOLEAN : Decide(t, o, approve)
      PROVE  UNCHANGED effects
  BY <1>7 DEF PromptLate, ExpirePrompt, Decide
<1>8. ASSUME NEW r \in Runs,
             \/ AcquireRuntime(r) \/ StopRun(r) \/ ReleaseRuntime(r) \/ Crash(r)
             \/ ReconcileSecurity(r) \/ \E t \in Turns : Claim(r, t)
      PROVE  UNCHANGED effects
  BY <1>8 DEF AcquireRuntime, StopRun, ReleaseRuntime, Crash, ReconcileSecurity, Claim
<1>9. CASE \/ \E c \in Chats : Clear(c)
           \/ LeaseExpires \/ AccountChange
  BY <1>9 DEF Clear, LeaseExpires, AccountChange
<1> QED  BY <1>1, <1>2, <1>4, <1>5, <1>6, <1>7, <1>8, <1>9 DEF TurnNext

(* What a turn reports: what it said for certain it never takes back, and  *)
(* it says that nothing happened only if nothing did.                      *)
LEMMA ReportStep ==
    ASSUME TurnIInv, TurnIInv', NEW t \in Turns, TurnRow(t)
    PROVE  \/ TurnReport(t)' = TurnReport(t)
           \/ /\ TurnReport(t) = "open"
              /\ \/ TurnReport(t)' \in {"clean", "maybe"}
                 \/ /\ TurnReport(t)' = "nothing"
                    /\ \A o \in OpsOf[t] \ ReadOps : effects[t][o] = 0
<1>1. CASE turn'[t].state = turn[t].state  BY <1>1 DEF TurnReport
<1>2. CASE turn[t].state \notin TurnEnded /\ (turn'[t].state = "cancelled" => ~Touched(t))
  <2>1. TurnReport(t) = "open"  BY <1>2 DEF TurnReport, TurnEnded
  <2>2. CASE turn'[t].state = "cancelled"
    <3>1. TurnReport(t)' = "nothing"  BY <2>2 DEF TurnReport
    <3>2. ASSUME NEW o \in OpsOf[t] \ ReadOps PROVE effects[t][o] = 0
      <4>1. journal[t][o].state \notin Dispatched
        BY <1>2, <2>2 DEF Touched, Unfinished, Dispatched
      <4> QED  BY ZenonT(30), <4>1 DEF TurnIInv, OpInv
    <3> QED  BY <2>1, <3>1, <3>2
  <2>3. CASE turn'[t].state \in {"completed", "failed", "unknown_outcome"}
    BY <2>1, <2>3 DEF TurnReport
  <2>4. CASE turn'[t].state \notin TurnEnded
    BY <2>1, <2>4 DEF TurnReport, TurnEnded
  <2> QED  BY <2>2, <2>3, <2>4 DEF TurnEnded
<1> QED  BY <1>1, <1>2 DEF TurnRow

(* A call of a turn that may still take effect: the turn has not said that *)
(* its effects are known.                                                  *)
LEMMA OpenReport ==
    ASSUME TurnIInv, NEW t \in Turns, Unfinished(t)
    PROVE  TurnReport(t) \in {"open", "maybe"}
<1>1. turn[t].state \notin {"completed", "failed", "cancelled"}  BY DEF TurnIInv, EndInv
<1> QED  BY <1>1 DEF TurnReport

(* A step of the engine is one of ToolEffects, or changes nothing of it.   *)
LEMMA EffectsRefined ==
    ASSUME TurnIInv, TurnIInv', [TurnNext]_turnVars
    PROVE  [Promise!EffectsNext]_<<Done, Report>>
<1> USE TurnAssumption
<1>1. RowsTyped /\ \A t \in Turns : TurnRow(t)  BY TurnStepInv DEF TurnIInv
<1>2. CASE UNCHANGED effects
  <2>1. Done' = Done  BY <1>2 DEF Done
  <2>2. DOMAIN Report' = Turns  BY DEF Report
  <2>3. ASSUME NEW t \in Turns PROVE Promise!Close(t)
    <3>1. Report[t] = TurnReport(t) /\ Report'[t] = TurnReport(t)'  BY DEF Report
    <3>2. \/ TurnReport(t)' = TurnReport(t)
          \/ /\ TurnReport(t) = "open"
             /\ \/ TurnReport(t)' \in {"clean", "maybe"}
                \/ /\ TurnReport(t)' = "nothing"
                   /\ \A o \in OpsOf[t] \ ReadOps : effects[t][o] = 0
      BY <1>1, ReportStep
    <3>3. (\A o \in OpsOf[t] \ ReadOps : effects[t][o] = 0)
             => \A o \in Ops \ ReadOps : Done[t][o] = 0
      BY DEF Done
    <3> QED  BY <3>1, <3>2, <3>3 DEF Promise!Close, Done, Report
  <2> QED  BY <2>1, <2>2, <2>3 DEF Promise!EffectsNext, Done, Report
<1>3. ASSUME UNCHANGED turn, NEW t \in Turns, NEW o \in OpsOf[t], effects[t][o] = 0,
             Unfinished(t), effects' = [effects EXCEPT ![t][o] = 1]
      PROVE  [Promise!EffectsNext]_<<Done, Report>>
  <2>1. Report' = Report  BY <1>3 DEF Report, TurnReport
  <2>2. /\ effects'[t][o] = 1
        /\ \A u \in Turns : \A p \in OpsOf[u] :
              <<u, p>> # <<t, o>> => effects'[u][p] = effects[u][p]
    BY <1>1, <1>3 DEF RowsTyped
  <2>3. CASE o \in ReadOps
    <3>1. Done' = Done  BY <2>2, <2>3 DEF Done
    <3> QED  BY <2>1, <3>1
  <2>4. CASE o \notin ReadOps
    <3>1. o \in Ops \ ReadOps  BY <2>4 DEF Ops
    <3>2. Done[t][o] = 0 /\ Report[t] \in {"open", "maybe"}
      BY <1>3, <3>1, OpenReport DEF Done, Report
    <3>3. Done' = [Done EXCEPT ![t][o] = 1]
      <4>1. Done' = [u \in Turns |-> [p \in Ops \ ReadOps |->
                       IF p \in OpsOf[u] THEN effects'[u][p] ELSE 0]]
        BY DEF Done
      <4> DEFINE E == [Done EXCEPT ![t][o] = 1]
      <4>2. E = [u \in Turns |-> IF u = t THEN [Done[t] EXCEPT ![o] = 1] ELSE Done[u]]
        BY DEF Done
      <4>3. \A u \in Turns \ {t} : Done'[u] = Done[u]  BY <2>2, <4>1 DEF Done
      <4>4. Done'[t] = [Done[t] EXCEPT ![o] = 1]
        <5>1. Done[t] = [p \in Ops \ ReadOps |-> IF p \in OpsOf[t] THEN effects[t][p] ELSE 0]
          BY DEF Done
        <5>2. \A p \in OpsOf[t] : effects'[t][p] = IF p = o THEN 1 ELSE effects[t][p]
          BY <2>2
        <5>3. Done'[t] = [p \in Ops \ ReadOps |-> IF p \in OpsOf[t] THEN effects'[t][p] ELSE 0]
          BY <4>1
        <5> QED  BY <3>1, <5>1, <5>2, <5>3
      <4>5. Done' = [u \in Turns |-> Done'[u]]  BY <4>1
      <4> QED  BY <4>2, <4>3, <4>4, <4>5
    <3>4. Promise!TakeEffect(t, o)  BY <3>2, <3>3 DEF Promise!TakeEffect, Done, Report
    <3> QED  BY <2>1, <3>1, <3>4 DEF Promise!EffectsNext, Done, Report
  <2> QED  BY <2>3, <2>4
<1> QED  BY <1>2, <1>3, EffectsStep

(* The first state reports nothing and has done nothing.                   *)
LEMMA EffectsBegin == TurnInit => Promise!EffectsInit
<1> SUFFICES ASSUME TurnInit PROVE Promise!EffectsInit  OBVIOUS
<1>1. \A t \in Turns : TurnReport(t) = "open"  BY DEF TurnReport, TurnInit, NoTurn
<1>2. \A t \in Turns : \A o \in OpsOf[t] : effects[t][o] = 0  BY DEF TurnInit
<1> QED  BY <1>1, <1>2 DEF Promise!EffectsInit

(* The engine implements ToolEffects: an operation takes effect at most    *)
(* once, and what a turn reports of its effects is true for good, through  *)
(* crashes, lost leases, cancellations and cleared chats.                  *)
THEOREM EffectsImplemented == TurnSpec => EffectsAtMostOnce
<1>1. TurnIInv /\ TurnIInv' /\ [TurnNext]_turnVars => [Promise!EffectsNext]_<<Done, Report>>
  BY EffectsRefined
<1> QED  BY <1>1, EffectsBegin, TurnInductive, PTL
         DEF TurnSpec, EffectsAtMostOnce, Promise!EffectsSpec, Done, Report
-----------------------------------------------------------------------------
(* Events.  A client's stream holds the events that follow its cursor; a   *)
(* transition that was announced is remembered, or its row is too old to   *)
(* be published again.                                                     *)

OutboxRec == [published : BOOLEAN, old : BOOLEAN]
LogRec    == [first : Nat, last : Nat]
ClientRec == [cursor : Nat, seen : [Resources -> Nat], follows : BOOLEAN]
StreamRec == [open : BOOLEAN, at : Nat, queue : Seq(Nat)]

EventTyped ==
    /\ outbox \in Seq(OutboxRec) /\ log \in LogRec /\ changed \in [Resources -> Nat]
    /\ client \in ClientRec /\ stream \in StreamRec
    /\ announced \in [1 .. MaxVersion -> Nat]
    /\ client.cursor <= log.last /\ \A r \in Resources : changed[r] <= log.last

StreamFollows ==
    stream.open =>
        /\ stream.at = client.cursor + Len(stream.queue) /\ stream.at <= log.last
        /\ \A k \in 1 .. Len(stream.queue) : stream.queue[k] = client.cursor + k

Remembered(i) == i \in inbox \/ (i \in DOMAIN outbox /\ outbox[i].old)

Recalled == \A i \in 1 .. MaxVersion : announced[i] = 0 \/ (announced[i] = 1 /\ Remembered(i))

EventIInv == EventTyped /\ StreamFollows /\ Recalled /\ NothingMissed

(* The first state.                                                        *)
LEMMA EventInitInv == EventInit => EventIInv
<1> SUFFICES ASSUME EventInit PROVE EventIInv  OBVIOUS
<1>1. EventTyped
  <2>1. <<>> \in Seq(OutboxRec) /\ <<>> \in Seq(Nat)  OBVIOUS
  <2>2. [r \in Resources |-> 0] \in [Resources -> Nat]  OBVIOUS
  <2> QED  BY <2>1, <2>2 DEF EventInit, EventTyped, LogRec, ClientRec, StreamRec
<1>2. StreamFollows /\ Recalled /\ NothingMissed
  BY DEF EventInit, StreamFollows, Recalled, NothingMissed
<1> QED  BY <1>1, <1>2 DEF EventIInv

(* An event is appended; the client and its stream stay.                   *)
LEMMA EventAppended ==
    ASSUME EventIInv, NEW r \in Resources, Event(r), UNCHANGED clientVars,
           outbox' \in Seq(OutboxRec), announced' \in [1 .. MaxVersion -> Nat], Recalled'
    PROVE  EventIInv'
<1>1. EventTyped /\ StreamFollows /\ NothingMissed  BY DEF EventIInv
<1>2. /\ log.last \in Nat /\ log.first \in Nat /\ changed \in [Resources -> Nat]
      /\ client.cursor \in Nat
  BY <1>1 DEF EventTyped, LogRec, ClientRec
<1>3. PICK first \in Oldest .. log.last + 1 : log' = [last |-> log.last + 1, first |-> first]
  BY DEF Event
<1>4. Oldest \in Nat  BY <1>2, EventAssumption DEF Oldest
<1>5. log' \in LogRec /\ log'.last = log.last + 1  BY <1>2, <1>3, <1>4 DEF LogRec
<1>6. changed' = [changed EXCEPT ![r] = log.last + 1]  BY DEF Event
<1>7. changed' \in [Resources -> Nat] /\ \A q \in Resources : changed'[q] <= log'.last
  BY <1>1, <1>2, <1>5, <1>6 DEF EventTyped
<1>8. UNCHANGED <<snapshot, client, stream>>  BY DEF clientVars
<1>9. EventTyped'  BY <1>1, <1>2, <1>5, <1>7, <1>8 DEF EventTyped
<1>10. StreamFollows'
  BY <1>1, <1>2, <1>5, <1>8 DEF StreamFollows, EventTyped, StreamRec
<1>11. NothingMissed'
  BY <1>1, <1>2, <1>6, <1>8 DEF NothingMissed, EventTyped
<1> QED  BY <1>9, <1>10, <1>11 DEF EventIInv

(* The outbox and its publisher; the events and the client stay.           *)
LEMMA SourceInv ==
    ASSUME EventIInv, UNCHANGED <<log, changed, client, stream>>,
           outbox' \in Seq(OutboxRec), UNCHANGED announced,
           \A i : Remembered(i) => Remembered(i)'
    PROVE  EventIInv'
<1>1. EventTyped'  BY DEF EventIInv, EventTyped
<1>2. StreamFollows' /\ NothingMissed'  BY DEF EventIInv, StreamFollows, NothingMissed
<1>3. Recalled'  BY DEF EventIInv, Recalled
<1> QED  BY <1>1, <1>2, <1>3 DEF EventIInv

(* The steps of the outbox, but for an announcement.                       *)
LEMMA OutboxInv ==
    ASSUME EventIInv,
           \/ TaskTransition \/ ReadOutbox \/ MarkPublished \/ PublisherFails
           \/ \E i \in 1 .. MaxVersion : OutboxAges(i)
    PROVE  EventIInv'
<1>1. outbox \in Seq(OutboxRec)  BY DEF EventIInv, EventTyped
<1>2. UNCHANGED <<log, changed, client, stream, announced, inbox>>
  BY DEF TaskTransition, ReadOutbox, MarkPublished, PublisherFails, OutboxAges, clientVars
<1>3. CASE ReadOutbox \/ PublisherFails
  <2>1. outbox' = outbox  BY <1>3 DEF ReadOutbox, PublisherFails
  <2> QED  BY <1>1, <1>2, <2>1, SourceInv DEF Remembered
<1>4. CASE TaskTransition
  <2> DEFINE e == [published |-> FALSE, old |-> FALSE]
  <2>1. outbox' = Append(outbox, e) /\ e \in OutboxRec  BY <1>4 DEF TaskTransition, OutboxRec
  <2> HIDE DEF e
  <2>2. outbox' \in Seq(OutboxRec) /\ \A i \in DOMAIN outbox : i \in DOMAIN outbox' /\ outbox'[i] = outbox[i]
    BY <1>1, <2>1
  <2> QED  BY <1>2, <2>2, SourceInv DEF Remembered
<1>5. ASSUME NEW j, NEW e \in OutboxRec, outbox' = [outbox EXCEPT ![j] = e],
             j \in DOMAIN outbox => (outbox[j].old => e.old)
      PROVE  EventIInv'
  <2>1. outbox' \in Seq(OutboxRec) /\ DOMAIN outbox' = DOMAIN outbox
    <3>1. /\ outbox \in [1 .. Len(outbox) -> OutboxRec] /\ Len(outbox) \in Nat
          /\ DOMAIN outbox = 1 .. Len(outbox)
      BY <1>1
    <3>2. outbox' \in [1 .. Len(outbox) -> OutboxRec]  BY <3>1, <1>5
    <3>3. outbox' \in Seq(OutboxRec)  BY <3>1, <3>2
    <3>4. DOMAIN outbox' = DOMAIN outbox  BY <3>1, <3>2
    <3> QED  BY <3>3, <3>4
  <2>2. \A i \in DOMAIN outbox : outbox[i].old => outbox'[i].old  BY <1>1, <1>5
  <2> QED  BY <1>2, <2>1, <2>2, SourceInv DEF Remembered
<1>6. ASSUME NEW j,
             \/ outbox' = [outbox EXCEPT ![j].published = TRUE]
             \/ outbox' = [outbox EXCEPT ![j].old = TRUE]
      PROVE  EventIInv'
  <2>1. CASE j \in DOMAIN outbox
    <3>1. outbox[j] \in OutboxRec  BY <1>1, <2>1
    <3>2. CASE outbox' = [outbox EXCEPT ![j].published = TRUE]
      <4> DEFINE e == [outbox[j] EXCEPT !.published = TRUE]
      <4>1. e \in OutboxRec /\ e.old = outbox[j].old  BY <3>1 DEF OutboxRec
      <4>2. outbox' = [outbox EXCEPT ![j] = e]  BY <3>2
      <4> HIDE DEF e
      <4> QED  BY <1>5, <4>1, <4>2
    <3>3. CASE outbox' = [outbox EXCEPT ![j].old = TRUE]
      <4> DEFINE e == [outbox[j] EXCEPT !.old = TRUE]
      <4>1. e \in OutboxRec /\ e.old  BY <3>1 DEF OutboxRec
      <4>2. outbox' = [outbox EXCEPT ![j] = e]  BY <3>3
      <4> HIDE DEF e
      <4> QED  BY <1>5, <4>1, <4>2
    <3> QED  BY <1>6, <3>2, <3>3
  <2>2. CASE j \notin DOMAIN outbox
    <3>1. outbox' = outbox  BY <1>1, <1>6, <2>2
    <3> QED  BY <1>1, <1>2, <3>1, SourceInv DEF Remembered
  <2> QED  BY <2>1, <2>2
<1>7. CASE MarkPublished  BY <1>6, <1>7 DEF MarkPublished
<1>8. CASE \E i \in 1 .. MaxVersion : OutboxAges(i)  BY <1>6, <1>8 DEF OutboxAges
<1> QED  BY <1>3, <1>4, <1>7, <1>8

(* A row is announced, unless the inbox knows it or it is too old.         *)
LEMMA PublishInv == ASSUME EventIInv, PublishTask PROVE EventIInv'
<1>1. /\ outbox' = outbox /\ outbox \in Seq(OutboxRec)
      /\ announced \in [1 .. MaxVersion -> Nat] /\ Recalled /\ UNCHANGED clientVars
  BY DEF EventIInv, EventTyped, PublishTask
<1>2. CASE UNCHANGED <<inbox, taskRef, log, changed, announced>>
  BY <1>1, <1>2, SourceInv DEF Remembered, clientVars
<1>3. CASE ~UNCHANGED <<inbox, taskRef, log, changed, announced>>
  <2> DEFINE s == Head(batch).seq
  <2>1. /\ ~Ignored(s) /\ Event("task")
        /\ inbox' = (inbox \union {s}) \ {i \in DOMAIN outbox : outbox[i].old}
        /\ announced' = [announced EXCEPT ![s] = @ + 1]
    BY <1>3 DEF PublishTask
  <2> HIDE DEF s
  <2>2. announced' \in [1 .. MaxVersion -> Nat]
    <3>1. CASE s \in 1 .. MaxVersion
      <4>1. announced[s] + 1 \in Nat  BY <1>1, <3>1
      <4> QED  BY <1>1, <2>1, <4>1
    <3>2. CASE s \notin 1 .. MaxVersion
      <4>1. announced' = announced  BY <1>1, <2>1, <3>2
      <4> QED  BY <1>1, <4>1
    <3> QED  BY <3>1, <3>2
  <2>3. ASSUME NEW i \in 1 .. MaxVersion
        PROVE  announced'[i] = 0 \/ (announced'[i] = 1 /\ Remembered(i)')
    <3>1. CASE i = s
      <4>1. ~Remembered(i)  BY <2>1, <3>1 DEF Ignored, Remembered
      <4>2. announced'[i] = 1  BY <1>1, <2>1, <3>1, <4>1 DEF Recalled
      <4>3. i \in inbox' \/ (i \in DOMAIN outbox /\ outbox[i].old)  BY <2>1, <3>1
      <4> QED  BY <1>1, <4>2, <4>3 DEF Remembered
    <3>2. CASE i # s
      <4>1. announced'[i] = announced[i]  BY <1>1, <2>1, <3>2
      <4>2. Remembered(i) => Remembered(i)'  BY <1>1, <2>1 DEF Remembered
      <4> QED  BY <1>1, <4>1, <4>2 DEF Recalled
    <3> QED  BY <3>1, <3>2
  <2>4. Recalled'  BY <2>3 DEF Recalled
  <2>5. "task" \in Resources  BY DEF Resources
  <2> QED  BY <1>1, <2>1, <2>2, <2>4, <2>5, EventAppended
<1> QED  BY <1>2, <1>3

(* The client: its snapshot, its stream, and what it is sent.              *)
LEMMA ClientInv ==
    ASSUME EventIInv, TakeSnapshot \/ RetireSnapshot \/ Watch \/ PollEvents \/ SendEvent \/ StreamBreaks
    PROVE  EventIInv'
<1>1. /\ EventTyped /\ StreamFollows /\ NothingMissed /\ Recalled
      /\ log \in LogRec /\ log.last \in Nat /\ changed \in [Resources -> Nat]
      /\ client \in ClientRec /\ client.cursor \in Nat /\ client.cursor <= log.last
      /\ client.seen \in [Resources -> Nat] /\ client.follows \in BOOLEAN
      /\ stream \in StreamRec /\ stream.at \in Nat /\ stream.queue \in Seq(Nat)
  BY DEF EventIInv, EventTyped, LogRec, ClientRec, StreamRec
<1>2. UNCHANGED <<outbox, inbox, log, changed, announced>>
  BY DEF TakeSnapshot, RetireSnapshot, Watch, PollEvents, SendEvent, StreamBreaks, sourceVars
<1>3. Recalled'  BY <1>1, <1>2 DEF Recalled, Remembered
<1>4. ASSUME client' \in ClientRec, client'.cursor <= log.last, stream' \in StreamRec,
             StreamFollows', NothingMissed'
      PROVE  EventIInv'
  <2>1. EventTyped'  BY <1>1, <1>2, <1>4 DEF EventTyped
  <2> QED  BY <1>3, <1>4, <2>1 DEF EventIInv
<1> DEFINE closed == [open |-> FALSE, at |-> 0, queue |-> <<>>]
<1>5. closed \in StreamRec /\ closed.open = FALSE
  <2>1. <<>> \in Seq(Nat)  OBVIOUS
  <2> QED  BY <2>1 DEF StreamRec
<1>6. CASE TakeSnapshot
  <2>1. client' = [cursor |-> log.last, seen |-> changed, follows |-> TRUE] /\ stream' = closed
    BY <1>6 DEF TakeSnapshot, SnapshotNow
  <2>2. client' \in ClientRec /\ client'.cursor = log.last /\ client'.seen = changed
    BY <1>1, <2>1 DEF ClientRec
  <2> HIDE DEF closed
  <2>3. StreamFollows'  BY <1>5, <2>1 DEF StreamFollows
  <2>4. NothingMissed'  BY <1>1, <1>2, <2>2 DEF NothingMissed
  <2> QED  BY <1>1, <1>4, <1>5, <2>1, <2>2, <2>3, <2>4
<1>7. CASE StreamBreaks
  <2>1. client' = client /\ stream' = closed  BY <1>7 DEF StreamBreaks
  <2> HIDE DEF closed
  <2>2. StreamFollows'  BY <1>5, <2>1 DEF StreamFollows
  <2>3. NothingMissed'  BY <1>1, <1>2, <2>1 DEF NothingMissed
  <2> QED  BY <1>1, <1>4, <1>5, <2>1, <2>2, <2>3
<1>8. CASE RetireSnapshot
  <2>1. client' = client /\ stream' = stream  BY <1>8 DEF RetireSnapshot
  <2> QED  BY <1>1, <1>2, <1>4, <2>1 DEF StreamFollows, NothingMissed
<1>9. CASE Watch
  <2> DEFINE s == [open |-> TRUE, at |-> client.cursor, queue |-> <<>>]
  <2>1. client' = client /\ stream' = s  BY <1>9 DEF Watch
  <2>2. s \in StreamRec /\ s.at = client.cursor /\ s.queue = <<>>
    <3>1. <<>> \in Seq(Nat)  OBVIOUS
    <3> QED  BY <1>1, <3>1 DEF StreamRec
  <2> HIDE DEF s
  <2>3. StreamFollows'  BY <1>1, <1>2, <2>1, <2>2 DEF StreamFollows
  <2>4. NothingMissed'  BY <1>1, <1>2, <2>1 DEF NothingMissed
  <2> QED  BY <1>1, <1>4, <2>1, <2>2, <2>3, <2>4
<1>10. CASE PollEvents
  <2>1. stream.open /\ stream.queue = <<>> /\ stream.at = client.cursor
    BY <1>1, <1>10 DEF PollEvents, StreamFollows
  <2>2. CASE client' = client
    <3> DEFINE n == IF log.last - stream.at < Batch THEN log.last - stream.at ELSE Batch
               q == [k \in 1 .. n |-> stream.at + k]
               s == [stream EXCEPT !.queue = q, !.at = stream.at + n]
    <3>1. CASE log.last > stream.at /\ stream' = s
      <4>1. n \in Nat /\ stream.at + n <= log.last
        BY <1>1, <3>1, EventAssumption
      <4> HIDE DEF n
      <4>2. q \in Seq(Nat) /\ Len(q) = n /\ \A k \in 1 .. n : q[k] = stream.at + k
        BY SMTT(30), <1>1, <4>1
      <4> HIDE DEF q
      <4>a. stream.at + n \in Nat  BY <1>1, <4>1
      <4> DEFINE s1 == [stream EXCEPT !.queue = q]
                 s2 == [s1 EXCEPT !.at = stream.at + n]
      <4>b. s1 \in StreamRec /\ s1.queue = q  BY <1>1, <4>2 DEF StreamRec
      <4>c. s = s2  OBVIOUS
      <4> HIDE DEF s1
      <4>d. s2 \in StreamRec /\ s2.queue = q /\ s2.at = stream.at + n
        BY <4>a, <4>b DEF StreamRec
      <4> HIDE DEF s2
      <4>3. s \in StreamRec /\ s.queue = q /\ s.at = stream.at + n
        BY <4>c, <4>d
      <4> HIDE DEF s
      <4>4. StreamFollows'  BY <1>1, <1>2, <2>1, <2>2, <3>1, <4>1, <4>2, <4>3 DEF StreamFollows
      <4>5. NothingMissed'  BY <1>1, <1>2, <2>2 DEF NothingMissed
      <4> QED  BY <1>1, <1>4, <2>2, <3>1, <4>3, <4>4, <4>5
    <3>2. CASE ~(log.last > stream.at /\ stream' = s)
      <4>1. stream' = [stream EXCEPT !.open = FALSE]  BY <1>10, <3>2 DEF PollEvents
      <4>2. stream' \in StreamRec /\ stream'.open = FALSE  BY <1>1, <4>1 DEF StreamRec
      <4>3. StreamFollows'  BY <4>2 DEF StreamFollows
      <4>4. NothingMissed'  BY <1>1, <1>2, <2>2 DEF NothingMissed
      <4> QED  BY <1>1, <1>4, <2>2, <4>2, <4>3, <4>4
    <3> QED  BY <3>1, <3>2
  <2>3. CASE client' # client
    <3>1. /\ stream' = [stream EXCEPT !.open = FALSE]
          /\ client' = [client EXCEPT !.follows = FALSE]
      BY <1>10, <2>3 DEF PollEvents
    <3>2. stream' \in StreamRec /\ stream'.open = FALSE  BY <1>1, <3>1 DEF StreamRec
    <3>3. client' \in ClientRec /\ client'.cursor = client.cursor /\ client'.follows = FALSE
      BY <1>1, <3>1 DEF ClientRec
    <3> QED  BY <1>1, <1>4, <3>2, <3>3 DEF StreamFollows, NothingMissed
  <2> QED  BY <2>2, <2>3
<1>11. CASE SendEvent
  <2> DEFINE s == [stream EXCEPT !.queue = Tail(@)]
  <2>q. PICK seq : seq = Head(stream.queue)  OBVIOUS
  <2>0. PICK of \in Resources :
          /\ \A q \in Resources : changed[q] = seq => q = of
          /\ client' = [client EXCEPT !.cursor = seq, !.seen[of] = changed[of]]
    BY <1>11, <2>q DEF SendEvent
  <2>s. PICK sees : sees = [client.seen EXCEPT ![of] = changed[of]]  OBVIOUS
  <2> DEFINE c == [client EXCEPT !.cursor = seq, !.seen = sees]
  <2>1. stream.open /\ stream.queue # <<>> /\ client' = c /\ stream' = s
    BY <1>11, <2>q, <2>0, <2>s DEF SendEvent
  <2>2. /\ Len(stream.queue) \in Nat /\ Len(stream.queue) >= 1
        /\ seq = stream.queue[1] /\ Tail(stream.queue) \in Seq(Nat)
        /\ Len(Tail(stream.queue)) = Len(stream.queue) - 1
        /\ \A k \in 1 .. Len(stream.queue) - 1 : Tail(stream.queue)[k] = stream.queue[k + 1]
    BY <1>1, <2>q, <2>1
  <2>3. /\ stream.at = client.cursor + Len(stream.queue) /\ stream.at <= log.last
        /\ \A k \in 1 .. Len(stream.queue) : stream.queue[k] = client.cursor + k
    BY <1>1, <2>1 DEF StreamFollows
  <2>4. seq = client.cursor + 1 /\ seq \in Nat /\ seq <= log.last
    <3>1. 1 \in 1 .. Len(stream.queue)  BY <2>2
    <3>2. stream.queue[1] = client.cursor + 1  BY <2>3, <3>1
    <3>3. seq = client.cursor + 1  BY <2>2, <3>2
    <3> QED  BY <1>1, <2>2, <2>3, <3>3
  <2>5. /\ sees \in [Resources -> Nat]
        /\ \A r \in Resources : /\ sees[r] \in {client.seen[r], changed[r]}
                                /\ changed[r] = seq => sees[r] = changed[r]
    BY <1>1, <2>0, <2>s
  <2>6. c \in ClientRec /\ c.cursor = seq /\ c.seen = sees /\ c.follows = client.follows
    BY <1>1, <2>4, <2>5 DEF ClientRec
  <2>7. s \in StreamRec /\ s.open = stream.open /\ s.at = stream.at /\ s.queue = Tail(stream.queue)
    <3> DEFINE q == Tail(stream.queue)
               s1 == [stream EXCEPT !.queue = q]
    <3>1. s = s1 /\ q \in Seq(Nat)  BY <2>2
    <3>q. q = Tail(stream.queue)  OBVIOUS
    <3> HIDE DEF q
    <3>2. s1 \in StreamRec /\ s1.open = stream.open /\ s1.at = stream.at /\ s1.queue = q
      BY <1>1, <3>1 DEF StreamRec
    <3> HIDE DEF s1, s
    <3>3. s \in StreamRec /\ s.open = stream.open /\ s.at = stream.at /\ s.queue = q
      BY <3>1, <3>2
    <3> QED  BY <3>3, <3>q
  <2> HIDE DEF c, s
  <2>8. StreamFollows'
    <3>1. /\ stream'.at = stream.at /\ stream'.queue = Tail(stream.queue)
          /\ client'.cursor = client.cursor + 1 /\ log' = log
      BY <1>2, <2>1, <2>4, <2>6, <2>7
    <3>2. Len(stream'.queue) = Len(stream.queue) - 1  BY <2>2, <3>1
    <3>3. stream'.at = client'.cursor + Len(stream'.queue) /\ stream'.at <= log'.last
      BY <1>1, <2>2, <2>3, <3>1, <3>2
    <3>4. ASSUME NEW k \in 1 .. Len(stream'.queue)
          PROVE  stream'.queue[k] = client'.cursor + k
      <4>1. k \in 1 .. Len(stream.queue) - 1 /\ k + 1 \in 1 .. Len(stream.queue)
        BY <2>2, <3>2, <3>4
      <4>2. stream'.queue[k] = stream.queue[k + 1]  BY <2>2, <3>1, <4>1
      <4> QED  BY <1>1, <2>3, <3>1, <4>1, <4>2
    <3> QED  BY <3>3, <3>4 DEF StreamFollows
  <2>9. NothingMissed'  BY <1>1, <1>2, <2>1, <2>4, <2>5, <2>6 DEF NothingMissed
  <2> QED  BY <1>1, <1>4, <2>1, <2>4, <2>6, <2>7, <2>8, <2>9
<1> QED  BY <1>6, <1>7, <1>8, <1>9, <1>10, <1>11

(* Every step keeps the invariant.                                         *)
LEMMA EventStepInv == ASSUME EventIInv, [EventNext]_eventVars PROVE EventIInv'
<1>1. CASE UNCHANGED eventVars
  <2>1. UNCHANGED <<outbox, inbox, log, changed, client, stream, announced>>
    BY <1>1 DEF eventVars
  <2>2. outbox' \in Seq(OutboxRec)  BY <2>1 DEF EventIInv, EventTyped
  <2> QED  BY <2>1, <2>2, SourceInv DEF Remembered
<1>2. CASE Edit
  <2>1. UNCHANGED <<outbox, inbox, announced>> /\ UNCHANGED clientVars /\ Event("turn")
    BY <1>2 DEF Edit, sourceVars
  <2>2. "turn" \in Resources  BY DEF Resources
  <2>3. Recalled'  BY <2>1 DEF EventIInv, Recalled, Remembered
  <2>4. outbox' \in Seq(OutboxRec) /\ announced' \in [1 .. MaxVersion -> Nat]
    BY <2>1 DEF EventIInv, EventTyped
  <2> QED  BY <2>1, <2>2, <2>3, <2>4, EventAppended
<1> QED  BY <1>1, <1>2, OutboxInv, PublishInv, ClientInv DEF EventNext

(* Who follows a chat's events misses none, and a transition of a phone    *)
(* task is one event, for any retention, batch and number of changes,      *)
(* crashes and broken streams.                                             *)
THEOREM EventSafety == EventSpec => []EventSafe
<1>1. EventIInv => EventSafe
  <2> SUFFICES ASSUME EventIInv PROVE EventSafe  OBVIOUS
  <2>1. announced \in [1 .. MaxVersion -> Nat]  BY DEF EventIInv, EventTyped
  <2>2. AnnouncedOnce  BY <2>1 DEF EventIInv, Recalled, AnnouncedOnce
  <2> QED  BY <2>2 DEF EventIInv, EventSafe
<1> QED  BY <1>1, EventInitInv, EventStepInv, PTL DEF EventSpec

(* The kinds of what a publisher reads, of the inbox, the reference and    *)
(* the log.                                                                *)
OutboxRow == [seq : 1 .. version, version : 0 .. version]

OutboxBatch == batch \in Seq(OutboxRow)

EventKinds ==
    /\ version \in 0 .. MaxVersion /\ Len(outbox) = version
    /\ OutboxBatch /\ inbox \subseteq 1 .. version
    /\ taskRef.seq \in 0 .. version /\ taskRef.version \in 0 .. version
    /\ log.first >= 1 /\ log.first <= log.last + 1

(* The log, the outbox and the clients start typed. *)
LEMMA EventKindsInit == EventInit => EventKinds
<1> SUFFICES ASSUME EventInit PROVE EventKinds  OBVIOUS
<1>1. version \in 0 .. MaxVersion /\ Len(outbox) = version
  BY EventAssumption DEF EventInit
<1>2. OutboxBatch  BY DEF EventInit, OutboxBatch
<1>3. taskRef.seq \in 0 .. version /\ taskRef.version \in 0 .. version  BY DEF EventInit
<1>4. log.first >= 1 /\ log.first <= log.last + 1  BY DEF EventInit
<1> QED  BY <1>1, <1>2, <1>3, <1>4 DEF EventInit, EventKinds

(* A batch stays one when versions are added, and when its head is done.   *)
LEMMA OutboxBatchStays ==
    ASSUME OutboxBatch, version \in Nat, version' \in Nat, version' >= version,
           batch' = batch \/ (batch # <<>> /\ batch' = Tail(batch))
    PROVE  OutboxBatch'
<1>1. PICK R : R = OutboxRow  OBVIOUS
<1>2. PICK S : S = OutboxRow'  OBVIOUS
<1>3. R \subseteq S
  <2>1. 1 .. version \subseteq 1 .. version' /\ 0 .. version \subseteq 0 .. version'  OBVIOUS
  <2> QED  BY <1>1, <1>2, <2>1 DEF OutboxRow
<1>4. batch \in Seq(R)  BY Zenon, <1>1 DEF OutboxBatch
<1>5. batch' \in Seq(R)
  <2>1. CASE batch' = batch  BY Zenon, <1>4, <2>1
  <2>2. CASE batch # <<>> /\ batch' = Tail(batch)
    <3>1. PICK b : b = batch  OBVIOUS
    <3>2. b \in Seq(R) /\ b # <<>>  BY Zenon, <1>4, <2>2, <3>1
    <3>3. Tail(b) \in Seq(R)  BY <3>2
    <3> QED  BY Zenon, <2>2, <3>1, <3>3
  <2> QED  BY Zenon, <2>1, <2>2
<1>6. batch' \in Seq(S)
  <2>1. PICK b : b = batch'  OBVIOUS
  <2>2. b \in Seq(S)
    <3>1. b \in Seq(R)  BY Zenon, <1>5, <2>1
    <3>2. Len(b) \in Nat /\ b \in [1 .. Len(b) -> R]  BY <3>1
    <3>3. b \in [1 .. Len(b) -> S]  BY Zenon, <1>3, <3>2
    <3> QED  BY <3>2, <3>3
  <2> QED  BY Zenon, <2>1, <2>2
<1> QED  BY Zenon, <1>2, <1>6 DEF OutboxBatch

(* An event keeps the log one.                                             *)
LEMMA EventLogStays ==
    ASSUME EventTyped, log.first >= 1, log.first <= log.last + 1, NEW r, Event(r)
    PROVE  log'.first >= 1 /\ log'.first <= log'.last + 1
<1>1. log.first \in Nat /\ log.last \in Nat  BY DEF EventTyped, LogRec
<1>2. PICK first \in Oldest .. log.last + 1 : log' = [last |-> log.last + 1, first |-> first]
  BY DEF Event
<1>3. Oldest \in Nat /\ Oldest >= 1  BY <1>1, EventAssumption DEF Oldest
<1>4. first \in Nat /\ first >= 1 /\ first <= log.last + 1 + 1  BY <1>1, <1>2, <1>3
<1>5. log'.first = first /\ log'.last = log.last + 1  BY <1>2
<1> QED  BY Zenon, <1>4, <1>5

(* Every step keeps the kinds, if a reading of the outbox does so.         *)
LEMMA EventKindsStep ==
    ASSUME EventIInv, EventKinds, [EventNext]_eventVars, ReadOutbox => OutboxBatch'
    PROVE  EventKinds'
<1>0. /\ version \in Nat /\ outbox \in Seq(OutboxRec) /\ EventTyped
      /\ DOMAIN outbox = 1 .. version
  <2>1. outbox \in Seq(OutboxRec) /\ EventTyped  BY Zenon DEF EventIInv, EventTyped
  <2>2. version \in Nat /\ Len(outbox) = version  BY EventAssumption DEF EventKinds
  <2> QED  BY <2>1, <2>2
<1>1. CASE UNCHANGED <<version, outbox, batch, inbox, taskRef>>
  <2>1. UNCHANGED log \/ \E r : Event(r)
    BY Zenon, EventAssumption, <1>1 DEF EventNext, eventVars, Edit, TaskTransition, ReadOutbox, PublishTask,
      MarkPublished, PublisherFails, OutboxAges, TakeSnapshot, RetireSnapshot, Watch, PollEvents,
      SendEvent, StreamBreaks
  <2>2. log'.first >= 1 /\ log'.first <= log'.last + 1  BY Zenon, <1>0, <2>1, EventLogStays DEF EventKinds
  <2>3. OutboxBatch'  BY Zenon, <1>1 DEF EventKinds, OutboxBatch, OutboxRow
  <2> QED  BY Zenon, <1>1, <2>2, <2>3 DEF EventKinds
<1>2. CASE TaskTransition
  <2>1. PICK e : e = [published |-> FALSE, old |-> FALSE]  OBVIOUS
  <2>2. /\ version < MaxVersion /\ version' = version + 1 /\ outbox' = Append(outbox, e)
        /\ UNCHANGED <<batch, inbox, taskRef, log>>
    BY Zenon, <1>2, <2>1 DEF TaskTransition
  <2>3. version' \in 0 .. MaxVersion /\ version' \in Nat /\ version' >= version
    BY <1>0, <2>2, EventAssumption
  <2>4. Len(outbox') = version'
    <3>1. Len(outbox') = Len(outbox) + 1  BY <1>0, <2>2
    <3> QED  BY <2>2, <3>1 DEF EventKinds
  <2>5. OutboxBatch'  BY Zenon, <1>0, <2>2, <2>3, OutboxBatchStays DEF EventKinds
  <2>6. 1 .. version \subseteq 1 .. version' /\ 0 .. version \subseteq 0 .. version'
    BY <1>0, <2>3
  <2>7. inbox' \subseteq 1 .. version'  BY Zenon, <2>2, <2>6 DEF EventKinds
  <2>8. taskRef'.seq \in 0 .. version' /\ taskRef'.version \in 0 .. version'
    BY Zenon, <2>2, <2>6 DEF EventKinds
  <2> QED  BY Zenon, <2>2, <2>3, <2>4, <2>5, <2>7, <2>8 DEF EventKinds
<1>3. CASE ReadOutbox
  BY Zenon, <1>3 DEF ReadOutbox, EventKinds
<1>4. CASE PublishTask /\ ~UNCHANGED <<inbox, taskRef, log>>
  <2>1. PICK e : e = Head(batch)  OBVIOUS
  <2>2. /\ batch # <<>> /\ UNCHANGED <<version, outbox, batch>>
        /\ inbox' = (inbox \union {e.seq}) \ {i \in DOMAIN outbox : outbox[i].old}
        /\ taskRef' = (IF e.seq >= taskRef.seq THEN e ELSE taskRef)
        /\ Event("task")
    BY Zenon, <1>4, <2>1 DEF PublishTask
  <2>3. e \in OutboxRow
    <3>1. PICK R : R = OutboxRow  OBVIOUS
    <3>2. PICK b : b = batch  OBVIOUS
    <3>3. b \in Seq(R) /\ b # <<>>  BY Zenon, <2>2, <3>1, <3>2 DEF EventKinds, OutboxBatch
    <3>4. Head(b) \in R  BY <3>3
    <3> QED  BY Zenon, <2>1, <3>1, <3>2, <3>4
  <2>4. e.seq \in 1 .. version /\ e.version \in 0 .. version  BY <2>3 DEF OutboxRow
  <2>5. e.seq \in 0 .. version  BY <1>0, <2>4
  <2>6. inbox' \subseteq 1 .. version  BY <2>2, <2>4 DEF EventKinds
  <2>7. taskRef' \in {e, taskRef}  BY Zenon, <2>2
  <2>8. taskRef'.seq \in 0 .. version /\ taskRef'.version \in 0 .. version
    BY Zenon, <2>4, <2>5, <2>7 DEF EventKinds
  <2>9. log'.first >= 1 /\ log'.first <= log'.last + 1  BY Zenon, <1>0, <2>2, EventLogStays DEF EventKinds
  <2>10. OutboxBatch'  BY Zenon, <2>2 DEF EventKinds, OutboxBatch, OutboxRow
  <2> QED  BY Zenon, <2>2, <2>6, <2>8, <2>9, <2>10 DEF EventKinds
<1>5. CASE MarkPublished
  <2>1. PICK j : j = Head(batch).seq  OBVIOUS
  <2>2. /\ batch # <<>> /\ batch' = Tail(batch)
        /\ outbox' = [outbox EXCEPT ![j].published = TRUE]
        /\ UNCHANGED <<version, inbox, taskRef, log>>
    BY Zenon, <1>5, <2>1 DEF MarkPublished
  <2>3. Len(outbox') = Len(outbox)  BY <1>0, <2>2
  <2>4. OutboxBatch'
    <3>1. version' \in Nat /\ version' >= version  BY <1>0, <2>2
    <3> QED  BY Zenon, <1>0, <2>2, <3>1, OutboxBatchStays DEF EventKinds
  <2> QED  BY Zenon, <2>2, <2>3, <2>4 DEF EventKinds
<1>6. CASE PublisherFails
  <2>1. OutboxBatch'  BY <1>6 DEF PublisherFails, OutboxBatch
  <2> QED  BY Zenon, <1>6, <2>1 DEF PublisherFails, EventKinds
<1>7. CASE \E i \in 1 .. MaxVersion : OutboxAges(i)
  <2>1. PICK j : OutboxAges(j)  BY Zenon, <1>7
  <2>2. outbox' = [outbox EXCEPT ![j].old = TRUE]  BY Zenon, <2>1 DEF OutboxAges
  <2>3. Len(outbox') = Len(outbox)  BY <1>0, <2>2
  <2>4. UNCHANGED <<version, batch, inbox, taskRef, log>>  BY Zenon, <2>1 DEF OutboxAges
  <2>5. OutboxBatch'  BY Zenon, <2>4 DEF EventKinds, OutboxBatch, OutboxRow
  <2> QED  BY Zenon, <2>3, <2>4, <2>5 DEF EventKinds
<1>8. CASE ~(\/ TaskTransition \/ ReadOutbox \/ MarkPublished \/ PublisherFails
             \/ (PublishTask /\ ~UNCHANGED <<inbox, taskRef, log>>)
             \/ \E i \in 1 .. MaxVersion : OutboxAges(i))
  <2>1. UNCHANGED <<version, outbox, batch, inbox, taskRef>>
    BY Zenon, <1>8 DEF EventNext, eventVars, Edit, PublishTask, TakeSnapshot, RetireSnapshot, Watch,
      PollEvents, SendEvent, StreamBreaks, sourceVars
  <2> QED  BY <1>1, <2>1
<1> QED  BY Zenon, <1>2, <1>3, <1>4, <1>5, <1>6, <1>7, <1>8

(* The kinds and the inductive invariant give the types of the event way. *)
LEMMA EventTypedOK == EventIInv /\ EventKinds => EventTypeOK
<1> SUFFICES ASSUME EventIInv, EventKinds PROVE EventTypeOK  OBVIOUS
<1>1. version \in Nat /\ Len(outbox) = version /\ outbox \in Seq(OutboxRec)
  BY EventAssumption DEF EventKinds, EventIInv, EventTyped
<1>2. DOMAIN outbox = 1 .. version  BY <1>1
<1>3. ASSUME NEW k \in DOMAIN batch
      PROVE  batch[k].seq \in DOMAIN outbox /\ batch[k].version <= version
  <2>1. PICK R : R = OutboxRow  OBVIOUS
  <2>2. batch \in Seq(R)  BY Zenon, <2>1 DEF EventKinds, OutboxBatch
  <2>3. batch[k] \in R  BY <1>3, <2>2
  <2> QED  BY <1>1, <1>2, <2>1, <2>3 DEF OutboxRow
<1>4. log.first \in Nat \ {0} /\ log.first <= log.last + 1
  BY DEF EventKinds, EventIInv, EventTyped, LogRec
<1>5. client.cursor <= log.last /\ \A r \in Resources : changed[r] <= log.last
  BY Zenon DEF EventIInv, EventTyped
<1>6. inbox \subseteq DOMAIN outbox  BY Zenon, <1>2 DEF EventKinds
<1> QED  BY Zenon, <1>3, <1>4, <1>5, <1>6 DEF EventKinds, EventTypeOK
=============================================================================
