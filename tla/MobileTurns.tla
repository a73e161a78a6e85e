---------------------------- MODULE MobileTurns ----------------------------
(***************************************************************************)
(* Turns of the mobile assistant: admission, the engine that runs them     *)
(* under a lease, the journal of tool operations, confirmations, and what  *)
(* cancels work that is under way.                                         *)
(* Code: internal/mobile/conversations and internal/mobile/engine.         *)
(*                                                                         *)
(* One account.  A turn stands for its client message id.  Expiry of the   *)
(* lease and of a prompt are steps of the clock.  An operation of a turn   *)
(* stands for the digest of a tool call; ReadOps change nothing outside,   *)
(* NativeOps commit their effect together with their outcome, ConfirmOps   *)
(* need the owner's approval.                                              *)
(***************************************************************************)
EXTENDS Naturals, FiniteSets

CONSTANTS Turns, Chats, ChatOf, OpsOf, ReadOps, NativeOps, ConfirmOps,
          MaxPending, MaxActive,        \* 5 and 2 in the code
          MaxRounds,                    \* 10 in the code
          MaxFaults                     \* bound: disturbances in a behaviour

Ops     == UNION {OpsOf[t] : t \in Turns}
Waiting == {"queued"}
Active  == {"running", "awaiting_prompt"}
Live    == Waiting \union Active
TurnEnded   == {"completed", "failed", "cancelled", "unknown_outcome"}
Runs    == 1 .. MaxFaults + 1

ASSUME TurnAssumption ==
    /\ IsFiniteSet(Turns) /\ ChatOf \in [Turns -> Chats]
    /\ \A t \in Turns : OpsOf[t] \subseteq Ops
    /\ {MaxPending, MaxActive, MaxRounds} \subseteq Nat \ {0}
    /\ MaxFaults \in Nat

VARIABLES
    turn,      \* mobile_turns
    chat,      \* history generation of each conversation
    journal,   \* mobile_tool_operations
    prompt,    \* mobile_prompts: the confirmation of an operation
    runLease,  \* mobile_runtime
    account,   \* the owner: credential stamp, enabled, session family
    engine,    \* Engine.Run of each process, by the epoch it acquired
    work,      \* Engine.process of each turn
    inflight,  \* calls that left the process and may still take effect
    effects,   \* how often an operation took effect outside
    faults     \* disturbances so far: cancellations, account changes, failures

turnVars == <<turn, chat, journal, prompt, runLease, account, engine, work,
              inflight, effects, faults>>

Disturb == faults < MaxFaults /\ faults' = faults + 1

NoOp   == "none"
NoTurn == [state |-> "none", gen |-> 0, epoch |-> 0, cancel |-> FALSE,
           stamp |-> 0, seq |-> 0]
NoWork == [pc |-> "none", epoch |-> 0, run |-> 0, gen |-> 0, op |-> NoOp,
           rounds |-> 0, out |-> "failed"]
Returned == [NoWork EXCEPT !.pc = "gone"]

TurnInit ==
    /\ turn = [t \in Turns |-> NoTurn]
    /\ chat = [c \in Chats |-> 1]
    /\ journal = [t \in Turns |-> [o \in OpsOf[t] |-> [state |-> "none", epoch |-> 0]]]
    /\ prompt = [t \in Turns |-> [o \in OpsOf[t] |->
                    [state |-> "none", epoch |-> 0, approved |-> FALSE, late |-> FALSE]]]
    /\ runLease = [epoch |-> 0, live |-> FALSE]
    /\ account = [stamp |-> 1, enabled |-> TRUE, family |-> TRUE]
    /\ engine = [r \in Runs |-> "none"]
    /\ work = [t \in Turns |-> NoWork]
    /\ inflight = {}
    /\ effects = [t \in Turns |-> [o \in OpsOf[t] |-> 0]]
    /\ faults = 0

-----------------------------------------------------------------------------
(* The rows.                                                               *)

Unfinished(t) == \E o \in OpsOf[t] : journal[t][o].state \in {"started", "unknown_outcome"}

(* Mutant: an outcome nobody knows counts as nothing done. *)
TouchedKnown(t) == \E o \in OpsOf[t] \ ReadOps : journal[t][o].state = "succeeded"

(* Cancel, Clear and ReconcileSecurity report a turn as cancelled only     *)
(* when nothing it dispatched can have changed anything.                   *)
Touched(t) == \/ Unfinished(t)
              \/ \E o \in OpsOf[t] \ ReadOps : journal[t][o].state = "succeeded"

Halted(t) == [turn[t] EXCEPT !.cancel = TRUE, !.epoch = @ + 1,
                             !.state = IF Touched(t) THEN "unknown_outcome" ELSE "cancelled"]

Invalidated(t) == [o \in OpsOf[t] |->
    IF prompt[t][o].state = "open" THEN [prompt[t][o] EXCEPT !.state = "invalidated"]
    ELSE prompt[t][o]]

Holds(r) == runLease.live /\ runLease.epoch = r

SameAccount(t) == account.enabled /\ turn[t].stamp = account.stamp

(* Repository.fence, with the verifier of the turn's session family.       *)
Fenced(t) ==
    /\ Holds(work[t].run)
    /\ turn[t].gen = work[t].gen
    /\ chat[ChatOf[t]] = turn[t].gen
    /\ turn[t].epoch = work[t].epoch
    /\ turn[t].state \in Active
    /\ ~turn[t].cancel
    /\ SameAccount(t)
    /\ account.family

(* Mutant: any answer counts. *)
ConsentClosed(t, o) == o \in ConfirmOps => prompt[t][o].state \in {"answered", "rejected"}

(* PhoneConsent: the approval, while it has not expired.                   *)
Consent(t, o) == o \in ConfirmOps =>
    /\ prompt[t][o].state = "answered"
    /\ prompt[t][o].approved
    /\ prompt[t][o].epoch = work[t].epoch
    /\ ~prompt[t][o].late

-----------------------------------------------------------------------------
(* Requests of the owner.                                                  *)

Pending == {t \in Turns : turn[t].state \in Waiting}

(* Engine.Accept, Repository.Admit and Accept.  A repeated client message  *)
(* finds its turn and changes nothing.                                     *)
Accept(t) ==
    /\ turn[t].state = "none"
    /\ account.enabled /\ account.family
    /\ Cardinality(Pending) < MaxPending
    /\ turn' = [turn EXCEPT ![t] =
          [state |-> "queued", gen |-> chat[ChatOf[t]], epoch |-> 0, cancel |-> FALSE,
           stamp |-> account.stamp,
           seq |-> 1 + Cardinality({u \in Turns : turn[u].state # "none"})]]
    /\ UNCHANGED <<chat, journal, prompt, runLease, account, engine, work, inflight, effects, faults>>

(* What Repository.Cancel does to a row of the current generation.         *)
CancelRow(t) ==
    \/ /\ turn[t].state \in Live
       /\ turn' = [turn EXCEPT ![t] = Halted(t)]
       /\ prompt' = [prompt EXCEPT ![t] = Invalidated(t)]
    \/ /\ turn[t].state \in TurnEnded
       /\ ~turn[t].cancel
       /\ turn' = [turn EXCEPT ![t].cancel = TRUE, ![t].epoch = @ + 1]
       /\ UNCHANGED prompt
    \/ /\ turn[t].state \in TurnEnded
       /\ turn[t].cancel
       /\ UNCHANGED <<turn, prompt>>

(* The CancelTurn request. *)
CancelTurn(t) ==
    /\ turn[t].state # "none" /\ ~turn[t].cancel
    /\ turn[t].gen = chat[ChatOf[t]]
    /\ CancelRow(t)
    /\ Disturb
    /\ UNCHANGED <<chat, journal, runLease, account, engine, work, inflight, effects>>

(* Repository.Clear: a new history generation. *)
Clear(c) ==
    /\ LET gone == {t \in Turns : ChatOf[t] = c /\ turn[t].state \in Live} IN
       /\ turn' = [t \in Turns |-> IF t \in gone THEN Halted(t) ELSE turn[t]]
       /\ prompt' = [t \in Turns |-> IF ChatOf[t] = c THEN Invalidated(t) ELSE prompt[t]]
    /\ chat' = [chat EXCEPT ![c] = @ + 1]
    /\ Disturb
    /\ UNCHANGED <<journal, runLease, account, engine, work, inflight, effects>>

(* DecideGranted: the owner approves or denies an open confirmation. *)
Decide(t, o, approve) ==
    /\ prompt[t][o].state = "open" /\ ~prompt[t][o].late
    /\ turn[t].gen = chat[ChatOf[t]]
    /\ turn[t].epoch = prompt[t][o].epoch
    /\ turn[t].state = "awaiting_prompt" /\ ~turn[t].cancel
    /\ account.enabled /\ account.family
    /\ prompt' = [prompt EXCEPT ![t][o].state = IF approve THEN "answered" ELSE "rejected",
                                ![t][o].approved = approve]
    /\ turn' = [turn EXCEPT ![t].state = "running"]
    /\ UNCHANGED <<chat, journal, runLease, account, engine, work, inflight, effects, faults>>

(* The password changes, the account is disabled or enabled, or the session *)
(* that sent the messages is revoked.                                      *)
AccountChange ==
    /\ \/ account' = [account EXCEPT !.stamp = @ + 1]
       \/ account' = [account EXCEPT !.enabled = ~@]
       \/ account.family /\ account' = [account EXCEPT !.family = FALSE]
    /\ Disturb
    /\ UNCHANGED <<turn, chat, journal, prompt, runLease, engine, work, inflight, effects>>

-----------------------------------------------------------------------------
(* The engine's loop.                                                      *)

WorkersOf(r) == {t \in Turns : work[t].run = r /\ work[t].pc \notin {"none", "gone"}}

(* AcquireRuntime: work of an earlier engine is given up, never replayed.  *)
AcquireRuntime(r) ==
    /\ ~runLease.live /\ r = runLease.epoch + 1
    /\ runLease' = [epoch |-> r, live |-> TRUE]
    /\ engine' = [engine EXCEPT ![r] = "run"]
    /\ turn' = [t \in Turns |-> IF turn[t].state \in Active
                  THEN [turn[t] EXCEPT !.state = "unknown_outcome", !.epoch = @ + 1]
                  ELSE turn[t]]
    /\ journal' = [t \in Turns |-> [o \in OpsOf[t] |->
                     IF journal[t][o].state = "started"
                     THEN [journal[t][o] EXCEPT !.state = "unknown_outcome"]
                     ELSE journal[t][o]]]
    /\ prompt' = [t \in Turns |-> Invalidated(t)]
    /\ UNCHANGED <<chat, account, work, inflight, effects, faults>>

(* Ten seconds without RenewRuntime. *)
LeaseExpires ==
    /\ runLease.live
    /\ \/ engine[runLease.epoch] = "run" /\ Disturb
       \/ engine[runLease.epoch] # "run" /\ UNCHANGED faults
    /\ runLease' = [runLease EXCEPT !.live = FALSE]
    /\ UNCHANGED <<turn, chat, journal, prompt, account, engine, work, inflight, effects>>

(* Shutdown, or a failed RenewRuntime, Claim or ReconcileSecurity. *)
StopRun(r) ==
    /\ engine[r] = "run"
    /\ \/ Holds(r) /\ Disturb
       \/ ~Holds(r) /\ UNCHANGED faults
    /\ engine' = [engine EXCEPT ![r] = "stopping"]
    /\ UNCHANGED <<turn, chat, journal, prompt, runLease, account, work, inflight, effects>>

(* ReleaseRuntime, once the workers have returned. *)
ReleaseRuntime(r) ==
    /\ engine[r] = "stopping" /\ WorkersOf(r) = {}
    /\ engine' = [engine EXCEPT ![r] = "gone"]
    /\ runLease' = [runLease EXCEPT !.live = @ /\ runLease.epoch # r]
    /\ UNCHANGED <<turn, chat, journal, prompt, account, work, inflight, effects, faults>>

(* The process dies. *)
Crash(r) ==
    /\ engine[r] \in {"run", "stopping"}
    /\ engine' = [engine EXCEPT ![r] = "gone"]
    /\ work' = [t \in Turns |-> IF work[t].run = r THEN Returned
                                ELSE work[t]]
    /\ Disturb
    /\ UNCHANGED <<turn, chat, journal, prompt, runLease, account, inflight, effects>>

(* ReconcileSecurity: turns accepted under other credentials are ended. *)
ReconcileSecurity(r) ==
    /\ engine[r] = "run"
    /\ LET stale == {t \in Turns : turn[t].state \in Live /\ ~SameAccount(t)} IN
       /\ stale # {}
       /\ turn' = [t \in Turns |-> IF t \in stale THEN Halted(t) ELSE turn[t]]
       /\ prompt' = [t \in Turns |-> IF t \in stale THEN Invalidated(t) ELSE prompt[t]]
    /\ UNCHANGED <<chat, journal, runLease, account, engine, work, inflight, effects, faults>>

Runnable == {t \in Turns :
    /\ turn[t].state \in Waiting
    /\ turn[t].gen = chat[ChatOf[t]] /\ ~turn[t].cancel
    /\ \A u \in Turns : ChatOf[u] = ChatOf[t] /\ turn[u].state \in Live
                           => turn[u].seq >= turn[t].seq}

(* Claim and ClaimNext: the oldest runnable turn, two at a time. *)
Claim(r, t) ==
    /\ engine[r] = "run" /\ Holds(r)
    /\ Cardinality({u \in Turns : turn[u].state \in Active}) < MaxActive
    /\ t \in Runnable
    /\ \A u \in Runnable : turn[u].seq >= turn[t].seq
    /\ turn' = [turn EXCEPT ![t].state = "running", ![t].epoch = @ + 1]
    /\ work' = [work EXCEPT ![t] = [NoWork EXCEPT !.pc = "think", !.run = r,
                                       !.epoch = turn[t].epoch + 1, !.gen = turn[t].gen]]
    /\ UNCHANGED <<chat, journal, prompt, runLease, account, engine, inflight, effects, faults>>

-----------------------------------------------------------------------------
(* Engine.process, the worker of one turn.                                 *)

At(t, pc) == work[t].pc = pc

Return(t, out) == work' = [work EXCEPT ![t].pc = "final", ![t].out = out]

NextCall(t) == work' = [work EXCEPT ![t].pc = "think", ![t].op = NoOp]

(* The model answers with text. *)
Answer(t) ==
    /\ At(t, "think") /\ Fenced(t)
    /\ Return(t, "completed")
    /\ UNCHANGED <<turn, chat, journal, prompt, runLease, account, engine, inflight, effects, faults>>

(* The model calls a tool: PrepareTool, and what its row says.  A started  *)
(* or unknown row ends the turn in the code; no worker meets one, because  *)
(* it returns whenever FinishTool fails and a turn is claimed once.        *)
CallTool(t, o) ==
    /\ At(t, "think") /\ Fenced(t) /\ work[t].rounds < MaxRounds
    /\ LET row  == journal[t][o]
           next == [work EXCEPT ![t].rounds = @ + 1, ![t].op = o] IN
       \/ /\ row.state = "none"
          /\ journal' = [journal EXCEPT ![t][o] = [state |-> "prepared", epoch |-> work[t].epoch]]
          /\ work' = [next EXCEPT ![t].pc = IF o \in ConfirmOps THEN "ask" ELSE "ready"]
       \/ /\ row.state \in {"succeeded", "failed"}
          /\ work' = [next EXCEPT ![t].op = NoOp]
          /\ UNCHANGED journal
    /\ UNCHANGED <<turn, chat, prompt, runLease, account, engine, inflight, effects, faults>>

(* confirmTool opens the prompt ... *)
OpenPrompt(t) ==
    /\ At(t, "ask") /\ Fenced(t)
    /\ prompt' = [prompt EXCEPT ![t][work[t].op] =
          [state |-> "open", epoch |-> work[t].epoch, approved |-> FALSE, late |-> FALSE]]
    /\ turn' = [turn EXCEPT ![t].state = "awaiting_prompt"]
    /\ work' = [work EXCEPT ![t].pc = "confirm"]
    /\ UNCHANGED <<chat, journal, runLease, account, engine, inflight, effects, faults>>

(* ... and its time runs out, ... *)
PromptLate(t, o) ==
    /\ prompt[t][o].state \in {"open", "answered"} /\ ~prompt[t][o].late
    /\ prompt' = [prompt EXCEPT ![t][o].late = TRUE]
    /\ UNCHANGED <<turn, chat, journal, runLease, account, engine, work, inflight, effects, faults>>

(* ... which whoever reads it next records (Repository.Prompt). *)
ExpirePrompt(t, o) ==
    /\ prompt[t][o].state = "open" /\ prompt[t][o].late
    /\ prompt' = [prompt EXCEPT ![t][o].state = "expired"]
    /\ turn' = [turn EXCEPT ![t].state =
          IF @ = "awaiting_prompt" /\ turn[t].epoch = prompt[t][o].epoch THEN "running" ELSE @]
    /\ UNCHANGED <<chat, journal, runLease, account, engine, work, inflight, effects, faults>>

(* The poll of confirmTool finds an approval. *)
Confirmed(t) ==
    /\ At(t, "confirm") /\ Fenced(t) /\ Consent(t, work[t].op)
    /\ work' = [work EXCEPT ![t].pc = "ready"]
    /\ UNCHANGED <<turn, chat, journal, prompt, runLease, account, engine, inflight, effects, faults>>

(* The poll finds anything else: RejectPreparedTool closes the operation.  *)
NotConfirmed(t) ==
    LET o == work[t].op IN
    /\ At(t, "confirm") /\ Fenced(t)
    /\ prompt[t][o].state # "open" /\ ~Consent(t, o)
    /\ journal[t][o].state = "prepared" /\ journal[t][o].epoch = work[t].epoch
    /\ journal' = [journal EXCEPT ![t][o].state = "failed"]
    /\ NextCall(t)
    /\ UNCHANGED <<turn, chat, prompt, runLease, account, engine, inflight, effects, faults>>

(* StartTool is committed before the call leaves the process. *)
StartTool(t) ==
    LET o == work[t].op IN
    /\ At(t, "ready") /\ Fenced(t) /\ Consent(t, o)
    /\ journal[t][o].state = "prepared" /\ journal[t][o].epoch = work[t].epoch
    /\ journal' = [journal EXCEPT ![t][o].state = "started"]
    /\ work' = [work EXCEPT ![t].pc = "exec"]
    /\ inflight' = IF o \in NativeOps THEN inflight ELSE inflight \union {<<t, o>>}
    /\ UNCHANGED <<turn, chat, prompt, runLease, account, engine, effects, faults>>

(* The service at the other end carries the call out, whatever has become  *)
(* of the process that made it.                                            *)
Perform(t, o) ==
    /\ <<t, o>> \in inflight
    /\ inflight' = inflight \ {<<t, o>>}
    /\ effects' = [effects EXCEPT ![t][o] = @ + 1]
    /\ UNCHANGED <<turn, chat, journal, prompt, runLease, account, engine, work, faults>>

(* A native tool (Repository.Reminders): effect and outcome in one fenced  *)
(* transaction.                                                            *)
PerformNative(t) ==
    LET o == work[t].op IN
    /\ At(t, "exec") /\ o \in NativeOps /\ Fenced(t) /\ Consent(t, o)
    /\ journal[t][o] = [state |-> "started", epoch |-> work[t].epoch]
    /\ effects' = [effects EXCEPT ![t][o] = @ + 1]
    /\ journal' = [journal EXCEPT ![t][o].state = "succeeded"]
    /\ UNCHANGED <<turn, chat, prompt, runLease, account, engine, work, inflight, faults>>

(* FinishTool with the outcome st; an error ends the turn. *)
FinishTool(t, st) ==
    LET o == work[t].op IN
    IF Fenced(t) /\ journal[t][o].epoch = work[t].epoch
         /\ journal[t][o].state \in {"started"} \union ({st} \intersect {"succeeded"})
    THEN journal' = [journal EXCEPT ![t][o].state = st] /\ NextCall(t)
    ELSE UNCHANGED journal /\ Return(t, "failed")

(* The tool returns: its effect is in place. *)
ToolOk(t) ==
    LET o == work[t].op IN
    /\ At(t, "exec") /\ <<t, o>> \notin inflight /\ effects[t][o] > 0
    /\ FinishTool(t, "succeeded")
    /\ UNCHANGED <<turn, chat, prompt, runLease, account, engine, inflight, effects, faults>>

(* The tool refuses before it dispatches anything (engine.Rejection). *)
ToolRejected(t) ==
    LET o == work[t].op IN
    /\ At(t, "exec") /\ effects[t][o] = 0
    /\ inflight' = inflight \ {<<t, o>>}
    /\ FinishTool(t, "failed")
    /\ UNCHANGED <<turn, chat, prompt, runLease, account, engine, effects, faults>>

(* Any other error, a panic or an oversized result: the call may have taken *)
(* effect or may yet; recording that may fail, too.                        *)
ToolAmbiguous(t) ==
    LET o == work[t].op IN
    /\ At(t, "exec")
    /\ Return(t, "unknown_outcome")
    /\ \/ /\ Fenced(t) /\ journal[t][o].state = "started"
          /\ journal[t][o].epoch = work[t].epoch
          /\ journal' = [journal EXCEPT ![t][o].state = "unknown_outcome"]
       \/ UNCHANGED journal
    /\ UNCHANGED <<turn, chat, prompt, runLease, account, engine, inflight, effects, faults>>

(* A lost fence, a cancelled context, a failed model call, changed policy  *)
(* or a panic ends the turn before a tool was started.                     *)
GiveUp(t) ==
    /\ work[t].pc \in {"think", "ask", "confirm", "ready"}
    /\ \/ Return(t, "failed")
       \/ Return(t, "unknown_outcome")
    /\ UNCHANGED <<turn, chat, journal, prompt, runLease, account, engine, inflight, effects, faults>>

(* The deferred Complete.  A full transcript store leaves "unknown".       *)
Complete(t) ==
    /\ At(t, "final") /\ Fenced(t)
    /\ \E st \in {work[t].out} \union {"unknown_outcome" : x \in {work[t].out} \intersect {"completed"}} :
          turn' = [turn EXCEPT ![t].state = IF Unfinished(t) THEN "unknown_outcome" ELSE st]
    /\ prompt' = [prompt EXCEPT ![t] = Invalidated(t)]
    /\ work' = [work EXCEPT ![t] = Returned]
    /\ UNCHANGED <<chat, journal, runLease, account, engine, inflight, effects, faults>>

(* Complete is fenced: Cancel.  In a cleared chat Cancel conflicts, and    *)
(* process returns an error that ends Engine.Run.                          *)
CompleteFenced(t) ==
    /\ At(t, "final") /\ ~Fenced(t)
    /\ work' = [work EXCEPT ![t] = Returned]
    /\ \/ /\ work[t].gen = chat[ChatOf[t]]
          /\ CancelRow(t)
          /\ UNCHANGED engine
       \/ /\ work[t].gen # chat[ChatOf[t]]
          /\ engine' = [engine EXCEPT ![work[t].run] = "stopping"]
          /\ UNCHANGED <<turn, prompt>>
    /\ UNCHANGED <<chat, journal, runLease, account, inflight, effects, faults>>

(* The store fails both times: the turn stays as it is and the engine stops. *)
CompleteFails(t) ==
    /\ At(t, "final")
    /\ work' = [work EXCEPT ![t] = Returned]
    /\ engine' = [engine EXCEPT ![work[t].run] = "stopping"]
    /\ Disturb
    /\ UNCHANGED <<turn, chat, journal, prompt, runLease, account, inflight, effects>>

Worker(t) ==
    \/ Answer(t) \/ OpenPrompt(t) \/ Confirmed(t) \/ NotConfirmed(t) \/ StartTool(t)
    \/ PerformNative(t) \/ ToolOk(t) \/ ToolRejected(t) \/ ToolAmbiguous(t)
    \/ GiveUp(t) \/ Complete(t) \/ CompleteFenced(t) \/ CompleteFails(t)
    \/ \E o \in OpsOf[t] : CallTool(t, o)

TurnNext ==
    \/ \E t \in Turns : Accept(t) \/ CancelTurn(t) \/ Worker(t)
    \/ \E t \in Turns : \E o \in OpsOf[t] :
          \/ Perform(t, o) \/ PromptLate(t, o) \/ ExpirePrompt(t, o)
          \/ \E approve \in BOOLEAN : Decide(t, o, approve)
    \/ \E c \in Chats : Clear(c)
    \/ \E r \in Runs :
          \/ AcquireRuntime(r) \/ StopRun(r) \/ ReleaseRuntime(r) \/ Crash(r)
          \/ ReconcileSecurity(r) \/ \E t \in Turns : Claim(r, t)
    \/ LeaseExpires
    \/ AccountChange

TurnSpec == TurnInit /\ [][TurnNext]_turnVars

-----------------------------------------------------------------------------
(* Properties.                                                             *)

(* The rows, the engines and the workers have their types. *)
TurnTypeOK ==
    /\ turn \in [Turns -> [state : {"none"} \union Live \union TurnEnded, gen : 0 .. MaxFaults + 1, epoch : Nat,
                           cancel : BOOLEAN, stamp : 0 .. MaxFaults + 1, seq : 0 .. Cardinality(Turns)]]
    /\ chat \in [Chats -> 1 .. MaxFaults + 1]
    /\ runLease \in [epoch : 0 .. MaxFaults + 1, live : BOOLEAN]
    /\ engine \in [Runs -> {"none", "run", "stopping", "gone"}]
    /\ inflight \subseteq UNION {{t} \X OpsOf[t] : t \in Turns}
    /\ \A t \in Turns :
          /\ work[t].pc \in {"none", "think", "ask", "confirm", "ready", "exec", "final", "gone"}
          /\ work[t].run \in 0 .. MaxFaults + 1
          /\ \A o \in OpsOf[t] :
               /\ journal[t][o].state \in {"none", "prepared", "started", "succeeded",
                                           "failed", "unknown_outcome"}
               /\ prompt[t][o].state \in {"none", "open", "answered", "rejected", "expired",
                                          "invalidated"}
               /\ effects[t][o] \in Nat

TurnReport(t) ==
    CASE turn[t].state = "cancelled"             -> "nothing"
      [] turn[t].state \in {"completed", "failed"} -> "clean"
      [] turn[t].state = "unknown_outcome"       -> "maybe"
      [] OTHER                                   -> "open"

Promise == INSTANCE ToolEffects WITH
    EffectOps <- Ops \ ReadOps,
    done      <- [t \in Turns |-> [o \in Ops \ ReadOps |->
                     IF o \in OpsOf[t] THEN effects[t][o] ELSE 0]],
    report    <- [t \in Turns |-> TurnReport(t)]

(* The engine, its journal and its fences implement ToolEffects: however   *)
(* engines crash, leases pass and owners cancel, an operation takes effect *)
(* at most once, "cancelled" means that nothing happened or will, and a    *)
(* completed or failed turn leaves no effect undecided.                    *)
EffectsAtMostOnce == Promise!EffectsSpec

(* The row of a turn that has ended keeps its state: no late Complete,     *)
(* decision or prompt expiry brings it back or rewrites it.                *)
EndedTurnFinal == [][\A t \in Turns : turn[t].state \in TurnEnded => turn'[t].state = turn[t].state]_turnVars

(* Turns of a chat run one at a time and in order, whoever cancels or      *)
(* takes over: a running turn has no unfinished predecessor.               *)
OneTurnPerChat ==
    \A t, u \in Turns :
        (turn[t].state \in Active /\ turn[u].state \in Live /\ ChatOf[t] = ChatOf[u] /\ t # u)
            => turn[u].seq > turn[t].seq

(* Nothing that needs the owner's approval takes effect without it.        *)
ApprovedFirst ==
    \A t \in Turns : \A o \in OpsOf[t] \intersect ConfirmOps :
        effects[t][o] > 0 \/ <<t, o>> \in inflight => prompt[t][o].approved

(* Once failures, cancellations and account changes stop, every accepted   *)
(* turn ends, in the order of its chat: no turn is stuck behind an engine  *)
(* that is gone, a prompt nobody answers or a worker that was fenced off.  *)
TurnSettles == \A t \in Turns : turn[t].state \in Live ~> turn[t].state \in TurnEnded

(* docs/en/mobile-api.md says that clearing a chat fences its pending      *)
(* work.  Engine.Run ends on shutdown, when the process dies, when it      *)
(* loses its lease or when the store fails; a cleared chat is no reason.   *)
EngineOutlivesClear ==
    [][\A r \in Runs : engine[r] = "run" /\ engine'[r] # "run"
            => faults' > faults \/ ~Holds(r)]_turnVars

(* Both at once: turns keep their order and act only on an approval.       *)
TurnSafe == OneTurnPerChat /\ ApprovedFirst
=============================================================================
