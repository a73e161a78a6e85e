----------------------------- MODULE McpClient -----------------------------
(***************************************************************************)
(* Connections to MCP servers and the tool calls made through them: an     *)
(* owner edits, connects and revokes a connection while plans are          *)
(* approved, calls are on the wire, tokens are refreshed and a browser     *)
(* authorization comes back.                                               *)
(* Code: internal/mcpclient (service.go, oauth.go, protocol.go).           *)
(*                                                                         *)
(* One owner and one connection.  The mutex is held within an action; an   *)
(* operation that leaves it is split there.  A request that names an old   *)
(* revision changes nothing and is not a step.                             *)
(***************************************************************************)
EXTENDS Naturals, FiniteSets

CONSTANTS Plans,
          MaxCalls,      \* calls of a connection at once, 2 in the code
          MaxChanges,     \* bound: owner's changes, refreshes and expiries
          MaxBreaks      \* bound: failed writes and restarts

ASSUME McpAssumption == MaxCalls \in Nat \ {0} /\ MaxChanges \in Nat /\ MaxBreaks \in Nat

VARIABLES
    mConn,       \* the connection in memory ...
    mDisk,       \* ... and as saved
    mPolicy,     \* the installation's switch and its revision, and both as saved
    mPlan,       \* plans, in memory only
    mExec,       \* executions in memory ...
    mRow,        \* ... and as saved
    mCall,       \* Invoke of each execution, with the plan's generation and revision
    mCancelled,  \* executions whose context is cancelled
    mAir,        \* calls that reached the wire and may still take effect
    mWorld,      \* how often a call took effect at the server
    mProbes,     \* generations for which a Discover is under way
    mRefresh,    \* a token refresh on the wire
    mFlow,       \* browser authorization: state, callers that read it, exchanges
    mService,    \* "open", "broken" after a failed write, or "closed"
    mEdits, mBreaks

mcpVars == <<mConn, mDisk, mPolicy, mPlan, mExec, mRow, mCall, mCancelled, mAir, mWorld,
             mProbes, mRefresh, mFlow, mService, mEdits, mBreaks>>
mcpCallVars == <<mExec, mRow, mCall, mAir, mWorld>>
mcpAuthVars == <<mProbes, mRefresh, mFlow>>

NoPlan    == [state |-> "none", gen |-> 0, rev |-> 0, late |-> FALSE]
NoExec    == [state |-> "none", side |-> "none"]
Forgotten == [state |-> "forgotten", side |-> "none"]
NoCall    == [pc |-> "none", gen |-> 0, rev |-> 0]
NoRefresh == [gen |-> 0, policy |-> 0]
NoFlow    == [state |-> "none", gen |-> 0, policy |-> 0, readers |-> 0, exchanges |-> 0]
UnderWay  == {"running", "dispatching", "cancel_requested"}

McpInit ==
    /\ mConn = [desired |-> "draft", health |-> "stopped", secured |-> FALSE, oauth |-> FALSE,
                auth |-> "none", due |-> FALSE, allowed |-> FALSE, known |-> FALSE,
                gen |-> 1, rev |-> 1]
    /\ mDisk = mConn
    /\ mPolicy = [on |-> TRUE, rev |-> 1, saved |-> [on |-> TRUE, rev |-> 1]]
    /\ mPlan = [p \in Plans |-> NoPlan]
    /\ mExec = [p \in Plans |-> NoExec] /\ mRow = mExec
    /\ mCall = [p \in Plans |-> NoCall]
    /\ mCancelled = {} /\ mAir = {}
    /\ mWorld = [p \in Plans |-> 0]
    /\ mProbes = {} /\ mRefresh = NoRefresh /\ mFlow = NoFlow
    /\ mService = "open" /\ mEdits = 0 /\ mBreaks = 0

-----------------------------------------------------------------------------
(* Pieces of the operations.                                               *)

InCall == {p \in Plans : mCall[p].pc # "none"}

(* getLocked *)
Usable == mService = "open" /\ mConn.desired # "deleted"

Edited == mEdits < MaxChanges /\ mEdits' = mEdits + 1

Bumped(c) == [c EXCEPT !.gen = @ + 1, !.rev = @ + 1]

(* A write fails: memory keeps the change, nothing more is admitted. *)
WriteFails ==
    /\ mBreaks < MaxBreaks /\ mBreaks' = mBreaks + 1
    /\ mService' = IF mService = "closed" THEN "closed" ELSE "broken"

WriteWorks == UNCHANGED <<mService, mBreaks>>

(* Mutant: the error of a write is ignored. *)
WriteFailedIgnored == FALSE

(* The write of this step failed. *)
WriteFailed == mBreaks' > mBreaks

(* The calls that a step cancels, all of them when a write failed. *)
Cancels(calls) == mCancelled' = mCancelled \union (IF WriteFailed THEN InCall ELSE calls)

(* saveLocked of the connection and of an execution. *)
SaveConn(c) ==
    /\ mConn' = c
    /\ \/ mDisk' = c /\ WriteWorks
       \/ mDisk' = mDisk /\ WriteFails

SaveExec(p, x) ==
    /\ mExec' = [mExec EXCEPT ![p] = x]
    /\ \/ mRow' = [mRow EXCEPT ![p] = x] /\ WriteWorks
       \/ mRow' = mRow /\ WriteFails

(* stopLocked: calls of the connection are cancelled and its plans dropped. *)
Stop ==
    /\ Cancels(InCall)
    /\ mPlan' = [p \in Plans |-> NoPlan]

-----------------------------------------------------------------------------
(* The owner's settings.                                                   *)

(* Update: the connection is disabled; a new destination loses its         *)
(* credentials and catalog.                                                *)
McpUpdate(moved) ==
    /\ Usable /\ Edited
    /\ LET c == [Bumped(mConn) EXCEPT !.desired = "disabled", !.health = "stopped"] IN
       SaveConn(IF ~moved THEN c
                ELSE [c EXCEPT !.secured = FALSE, !.oauth = FALSE, !.auth = "none", !.due = FALSE,
                               !.allowed = FALSE, !.known = FALSE])
    /\ Stop
    /\ UNCHANGED <<mPolicy, mcpCallVars, mcpAuthVars>>

(* SetCredentials: a bearer token or headers, or none. *)
McpSetCredentials(secured) ==
    /\ Usable /\ Edited
    /\ SaveConn([Bumped(mConn) EXCEPT !.desired = "disabled", !.secured = secured, !.oauth = FALSE,
                    !.auth = IF secured THEN "valid" ELSE "none", !.due = FALSE])
    /\ Stop
    /\ UNCHANGED <<mPolicy, mcpCallVars, mcpAuthVars>>

(* Action: disconnect, delete, revoke_auth. *)
McpRevoke(action) ==
    /\ Usable /\ Edited
    /\ LET c == [Bumped(mConn) EXCEPT !.health = "stopped",
                    !.desired = IF action = "delete" THEN "deleted" ELSE "disabled"] IN
       SaveConn(IF action = "disconnect" THEN c
                ELSE [c EXCEPT !.oauth = FALSE, !.auth = "revoked", !.due = FALSE, !.allowed = FALSE])
    /\ Stop
    /\ UNCHANGED <<mPolicy, mcpCallVars, mcpAuthVars>>

(* Action: connect, reconnect, check, refresh_catalog, after refreshAuth.  *)
(* Discover runs outside the mutex.                                        *)
McpConnect(connect) ==
    /\ Usable /\ Edited /\ mPolicy.on
    /\ ~(mConn.oauth /\ mConn.due) /\ mConn.auth # "refresh_failed"
    /\ connect \/ InCall = {}
    /\ SaveConn([Bumped(mConn) EXCEPT !.health = "starting",
                    !.desired = IF connect THEN "enabled" ELSE @])
    /\ Stop
    /\ mProbes' = IF mDisk' = mConn' THEN mProbes \union {mConn.gen + 1} ELSE mProbes
    /\ UNCHANGED <<mPolicy, mcpCallVars, mRefresh, mFlow>>

(* Discover returns; a known descriptor keeps the owner's review. *)
McpDiscovered(gen, ok) ==
    /\ gen \in mProbes
    /\ mProbes' = mProbes \ {gen}
    /\ \/ /\ Usable /\ mConn.gen = gen
          /\ SaveConn(IF ok THEN [mConn EXCEPT !.health = "ready", !.rev = @ + 1, !.known = TRUE,
                                               !.allowed = mConn.known /\ @]
                      ELSE [mConn EXCEPT !.health = "degraded", !.rev = @ + 1])
          /\ Cancels({})
       \/ /\ ~Usable \/ mConn.gen # gen
          /\ UNCHANGED <<mConn, mDisk, mCancelled, mService, mBreaks>>
    /\ UNCHANGED <<mPolicy, mPlan, mcpCallVars, mRefresh, mFlow, mEdits>>

(* Review of a descriptor. *)
McpReview(allow) ==
    /\ Usable /\ Edited /\ mConn.known
    /\ SaveConn([mConn EXCEPT !.allowed = allow, !.rev = @ + 1])
    /\ Stop
    /\ UNCHANGED <<mPolicy, mcpCallVars, mcpAuthVars>>

(* SetEnabledBy: the installation's switch. *)
McpSwitch ==
    /\ mService = "open" /\ Edited
    /\ LET new == [on |-> ~mPolicy.on, rev |-> mPolicy.rev + 1] IN
       \/ WriteWorks /\ mPolicy' = [on |-> new.on, rev |-> new.rev, saved |-> new]
       \/ WriteFails /\ mPolicy' = [on |-> new.on, rev |-> new.rev, saved |-> mPolicy.saved]
    /\ Stop
    /\ UNCHANGED <<mConn, mDisk, mcpCallVars, mcpAuthVars>>

-----------------------------------------------------------------------------
(* Plans and executions.                                                   *)

(* Prepare, after RefreshAuth.  A plan has a fresh identifier. *)
McpPrepare(p) ==
    /\ mPlan[p].state = "none" /\ mExec[p] = NoExec
    /\ Usable /\ mPolicy.on
    /\ mConn.desired = "enabled" /\ mConn.health = "ready" /\ mConn.allowed
    /\ mConn.secured => mConn.auth = "valid"
    /\ ~(mConn.oauth /\ mConn.due) /\ mConn.auth # "refresh_failed"
    /\ mPlan' = [mPlan EXCEPT ![p] = [state |-> "prepared", gen |-> mConn.gen, rev |-> mConn.rev,
                                      late |-> FALSE]]
    /\ UNCHANGED <<mConn, mDisk, mPolicy, mcpCallVars, mCancelled, mcpAuthVars, mService, mEdits, mBreaks>>

(* Approve; a refusal, or an approval that comes late, drops the plan. *)
McpApprove(p, approved) ==
    /\ mService = "open" /\ mPlan[p].state \in {"prepared", "approved"}
    /\ mPlan' = [mPlan EXCEPT ![p] = IF mPlan[p].late \/ ~approved THEN NoPlan
                                     ELSE [@ EXCEPT !.state = "approved"]]
    /\ UNCHANGED <<mConn, mDisk, mPolicy, mcpCallVars, mCancelled, mcpAuthVars, mService, mEdits, mBreaks>>

(* Five minutes pass; the sweep or the next use drops the plan. *)
McpPlanLate(p) ==
    /\ mPlan[p].state # "none" /\ ~mPlan[p].late /\ Edited
    /\ mPlan' = [mPlan EXCEPT ![p].late = TRUE]
    /\ UNCHANGED <<mConn, mDisk, mPolicy, mcpCallVars, mCancelled, mcpAuthVars, mService, mBreaks>>

(* A plan that has an execution is never run again: its execution is the   *)
(* answer.                                                                 *)
McpUnused(p) == mExec[p] \in {NoExec, Forgotten} /\ mPlan[p].state = "approved"

(* execute up to the unlock. *)
McpExecute(p) ==
    /\ McpUnused(p) /\ ~mPlan[p].late
    /\ Usable /\ mPolicy.on
    /\ mConn.gen = mPlan[p].gen /\ mConn.rev = mPlan[p].rev
    /\ mConn.desired = "enabled" /\ mConn.allowed
    /\ Cardinality(InCall) < MaxCalls
    /\ LET x == [state |-> "running", side |-> "not_started"] IN
       \/ /\ WriteWorks
          /\ mExec' = [mExec EXCEPT ![p] = x] /\ mRow' = [mRow EXCEPT ![p] = x]
          /\ mCall' = [mCall EXCEPT ![p] = [pc |-> "invoke", gen |-> mPlan[p].gen, rev |-> mPlan[p].rev]]
          /\ mPlan' = [mPlan EXCEPT ![p].state = "consumed"]
       \/ /\ WriteFails
          /\ UNCHANGED <<mExec, mRow, mCall, mPlan>>
    /\ Cancels({})
    /\ UNCHANGED <<mConn, mDisk, mPolicy, mAir, mWorld, mcpAuthVars, mEdits>>

(* The callback that Invoke makes right before it writes the request. *)
Admitted(p) ==
    /\ Usable /\ mPolicy.on
    /\ mConn.gen = mCall[p].gen /\ mConn.rev = mCall[p].rev
    /\ mConn.desired = "enabled"
    /\ p \notin mCancelled

McpBefore(p) ==
    /\ mCall[p].pc = "invoke"
    /\ \/ /\ Admitted(p)
          /\ SaveExec(p, [state |-> "dispatching", side |-> "possible"])
          /\ mCall' = [mCall EXCEPT ![p].pc = IF WriteFailed THEN "error" ELSE "sent"]
          /\ mAir' = IF WriteFailed THEN mAir ELSE mAir \union {p}
          /\ Cancels({})
       \/ /\ ~Admitted(p)
          /\ mCall' = [mCall EXCEPT ![p].pc = "error"]
          /\ UNCHANGED <<mExec, mRow, mAir, mCancelled, mService, mBreaks>>
    /\ UNCHANGED <<mConn, mDisk, mPolicy, mPlan, mWorld, mcpAuthVars, mEdits>>

(* The server carries the call out, whatever has happened here since. *)
McpTakesEffect(p) ==
    /\ p \in mAir
    /\ mAir' = mAir \ {p}
    /\ mWorld' = [mWorld EXCEPT ![p] = @ + 1]
    /\ UNCHANGED <<mConn, mDisk, mPolicy, mPlan, mExec, mRow, mCall, mCancelled, mcpAuthVars, mService,
                   mEdits, mBreaks>>

(* Invoke returns: an answer, a tool error, a failure or the deadline. *)
McpReturns(p, result) ==
    /\ \/ mCall[p].pc \in {"invoke", "sent"} /\ result = "error"
       \/ mCall[p].pc = "sent" /\ p \notin mAir /\ result \in {"ok", "tool_error"}
    /\ mCall' = [mCall EXCEPT ![p].pc = result]
    /\ UNCHANGED <<mConn, mDisk, mPolicy, mPlan, mExec, mRow, mCancelled, mAir, mWorld, mcpAuthVars,
                   mService, mEdits, mBreaks>>

(* execute after the relock. *)
Revoked(p) == mConn.gen # mCall[p].gen \/ ~mPolicy.on \/ p \in mCancelled

Outcome(p) ==
    IF mCall[p].pc = "error" \/ Revoked(p)
    THEN IF mExec[p].side = "not_started" THEN {[state |-> "failed", side |-> "not_started"]}
         ELSE {[state |-> "unknown_outcome", side |-> "unknown"]}
    ELSE IF mCall[p].pc = "tool_error"
         THEN {[state |-> s, side |-> "possible"] : s \in {"failed", "result_unavailable"}}
         ELSE {[state |-> s, side |-> "provider_reported_complete"] :
                  s \in {"succeeded", "result_unavailable"}}

McpFinish(p) ==
    /\ mCall[p].pc \in {"ok", "tool_error", "error"}
    /\ \E x \in Outcome(p) : SaveExec(p, x)
    /\ mCall' = [mCall EXCEPT ![p] = NoCall]
    /\ Cancels({})
    /\ UNCHANGED <<mConn, mDisk, mPolicy, mPlan, mAir, mWorld, mcpAuthVars, mEdits>>

(* Cancel of a running call. *)
McpCancel(p) ==
    /\ mCall[p].pc # "none" /\ mExec[p].state # "cancel_requested" /\ Edited
    /\ SaveExec(p, [mExec[p] EXCEPT !.state = "cancel_requested"])
    /\ Cancels({p})
    /\ UNCHANGED <<mConn, mDisk, mPolicy, mPlan, mCall, mAir, mWorld, mcpAuthVars>>

(* cleanupExpired: a month after its end an execution is deleted. *)
McpForget(p) ==
    /\ mService = "open" /\ mCall[p].pc = "none"
    /\ mExec[p].state \notin UnderWay \union {"none", "forgotten"} /\ Edited
    /\ mExec' = [mExec EXCEPT ![p] = Forgotten]
    /\ mRow' = [mRow EXCEPT ![p] = Forgotten]
    /\ mPlan' = [mPlan EXCEPT ![p] = NoPlan]
    /\ UNCHANGED <<mConn, mDisk, mPolicy, mCall, mCancelled, mAir, mWorld, mcpAuthVars, mService, mBreaks>>

-----------------------------------------------------------------------------
(* Tokens.                                                                 *)

(* The access token is about to expire. *)
McpTokenDue ==
    /\ mConn.oauth /\ ~mConn.due /\ Edited
    /\ mConn' = [mConn EXCEPT !.due = TRUE] /\ mDisk' = [mDisk EXCEPT !.due = mDisk.oauth]
    /\ UNCHANGED <<mPolicy, mPlan, mcpCallVars, mCancelled, mcpAuthVars, mService, mBreaks>>

(* refreshAuth: one refresh of a connection at a time.  Whether the server *)
(* gave a refresh token is left open.                                      *)
McpRefreshStart ==
    /\ Usable /\ mConn.oauth /\ mConn.due /\ mConn.auth # "refresh_failed"
    /\ mRefresh = NoRefresh
    /\ \/ /\ mPolicy.on
          /\ mRefresh' = [gen |-> mConn.gen, policy |-> mPolicy.rev]
          /\ UNCHANGED <<mConn, mDisk, mCancelled, mService, mEdits, mBreaks>>
       \/ /\ Edited
          /\ SaveConn([mConn EXCEPT !.auth = "expired", !.rev = @ + 1])
          /\ Cancels({})
          /\ UNCHANGED mRefresh
    /\ UNCHANGED <<mPolicy, mPlan, mcpCallVars, mProbes, mFlow>>

(* The token endpoint answers, or does not. *)
McpRefreshDone(ok) ==
    LET same == /\ Usable /\ mPolicy.on
                /\ mConn.gen = mRefresh.gen /\ mPolicy.rev = mRefresh.policy IN
    /\ mRefresh # NoRefresh
    /\ mRefresh' = NoRefresh
    /\ \/ /\ ~same
          /\ UNCHANGED <<mConn, mDisk, mPlan, mCancelled, mService, mBreaks>>
       \/ /\ same /\ ok
          /\ SaveConn([Bumped(mConn) EXCEPT !.auth = "valid", !.due = FALSE])
          /\ Stop
       \/ /\ same /\ ~ok
          /\ SaveConn([mConn EXCEPT !.auth = "refresh_failed", !.rev = @ + 1])
          /\ Cancels({})
          /\ UNCHANGED mPlan
    /\ UNCHANGED <<mPolicy, mcpCallVars, mProbes, mFlow, mEdits>>

(* BeginOAuth: metadata is fetched outside the mutex, then the flow is     *)
(* saved if nothing changed meanwhile.                                     *)
McpBeginOAuth ==
    /\ Usable /\ Edited /\ mFlow = NoFlow
    /\ \/ /\ WriteWorks
          /\ mFlow' = [NoFlow EXCEPT !.state = "open", !.gen = mConn.gen, !.policy = mPolicy.rev]
       \/ WriteFails /\ UNCHANGED mFlow
    /\ Cancels({})
    /\ UNCHANGED <<mConn, mDisk, mPolicy, mPlan, mcpCallVars, mProbes, mRefresh>>

(* FinishOAuth reads the flow without the mutex; the browser may come twice. *)
McpReadFlow ==
    /\ mFlow.state = "open" /\ mFlow.readers < 2
    /\ mFlow' = [mFlow EXCEPT !.readers = @ + 1]
    /\ UNCHANGED <<mConn, mDisk, mPolicy, mPlan, mcpCallVars, mCancelled, mProbes, mRefresh, mService,
                   mEdits, mBreaks>>

FlowCurrent == /\ Usable /\ mPolicy.on
               /\ mConn.gen = mFlow.gen /\ mPolicy.rev = mFlow.policy

FlowUsable == FlowCurrent /\ mFlow.state = "open"

(* The flow is saved as used before the code is exchanged; when that fails *)
(* the saved flow can still be used.                                       *)
McpUseFlow ==
    /\ mFlow.readers > 0
    /\ \/ /\ FlowUsable /\ WriteWorks
          /\ mFlow' = [mFlow EXCEPT !.state = "used", !.readers = @ - 1, !.exchanges = @ + 1]
       \/ /\ \/ FlowUsable /\ WriteFails
             \/ ~FlowUsable /\ WriteWorks
          /\ mFlow' = [mFlow EXCEPT !.readers = @ - 1]
    /\ Cancels({})
    /\ UNCHANGED <<mConn, mDisk, mPolicy, mPlan, mcpCallVars, mProbes, mRefresh, mEdits>>

(* The exchange returns: new credentials, disabled and without any review. *)
McpAuthorized(ok) ==
    /\ mFlow.state = "used"
    /\ mFlow' = [mFlow EXCEPT !.state = "done"]
    /\ \/ /\ ok /\ FlowCurrent
          /\ SaveConn([Bumped(mConn) EXCEPT !.secured = TRUE, !.oauth = TRUE, !.auth = "valid",
                  !.due = FALSE, !.desired = "disabled", !.health = "stopped", !.allowed = FALSE])
          /\ Stop
       \/ /\ ~(ok /\ FlowCurrent)
          /\ UNCHANGED <<mConn, mDisk, mPlan, mCancelled, mService, mBreaks>>
    /\ UNCHANGED <<mPolicy, mcpCallVars, mProbes, mRefresh, mEdits>>

-----------------------------------------------------------------------------
(* Close: no more work is admitted and everything is cancelled. *)
McpClose ==
    /\ mService # "closed" /\ mBreaks < MaxBreaks
    /\ mService' = "closed"
    /\ mCancelled' = mCancelled \union InCall
    /\ UNCHANGED <<mConn, mDisk, mPolicy, mPlan, mcpCallVars, mcpAuthVars, mEdits, mBreaks>>

(* Mutant: New loads the executions as they are. *)
McpRestartKeeping ==
    /\ \/ mBreaks < MaxBreaks /\ mBreaks' = mBreaks + 1
       \/ mService # "open" /\ InCall = {} /\ UNCHANGED mBreaks
    /\ mExec' = mRow /\ mConn' = mDisk
    /\ mPlan' = [p \in Plans |-> NoPlan]
    /\ mCall' = [p \in Plans |-> NoCall]
    /\ mCancelled' = {} /\ mProbes' = {} /\ mRefresh' = NoRefresh
    /\ mService' = "open"
    /\ mPolicy' = [mPolicy EXCEPT !.on = mPolicy.saved.on, !.rev = mPolicy.saved.rev]
    /\ UNCHANGED <<mRow, mFlow, mDisk, mAir, mWorld, mEdits>>

(* The process ends, drained or not, and New loads what is saved: an       *)
(* execution that was under way has an unknown outcome.                    *)
McpRestart ==
    /\ \/ mBreaks < MaxBreaks /\ mBreaks' = mBreaks + 1
       \/ mService # "open" /\ InCall = {} /\ UNCHANGED mBreaks
    /\ mRow' = [p \in Plans |-> IF mRow[p].state \in UnderWay
                                THEN [state |-> "unknown_outcome", side |-> "unknown"] ELSE mRow[p]]
    /\ mExec' = mRow'
    /\ mConn' = [mDisk EXCEPT !.health = IF mDisk.desired = "enabled" THEN "stopped" ELSE @]
    /\ mPlan' = [p \in Plans |-> NoPlan]
    /\ mCall' = [p \in Plans |-> NoCall]
    /\ mCancelled' = {} /\ mProbes' = {} /\ mRefresh' = NoRefresh
    /\ mFlow' = [mFlow EXCEPT !.readers = 0, !.state = IF @ = "used" THEN "done" ELSE @]
    /\ mService' = "open"
    /\ mPolicy' = [mPolicy EXCEPT !.on = mPolicy.saved.on, !.rev = mPolicy.saved.rev]
    /\ UNCHANGED <<mDisk, mAir, mWorld, mEdits>>

McpWork(p) == McpBefore(p) \/ McpFinish(p) \/ McpReturns(p, "error")

McpNext ==
    \/ \E b \in BOOLEAN : \/ McpUpdate(b) \/ McpSetCredentials(b) \/ McpConnect(b) \/ McpReview(b)
                          \/ McpRefreshDone(b) \/ McpAuthorized(b)
                          \/ \E g \in mProbes : McpDiscovered(g, b)
                          \/ \E p \in Plans : McpApprove(p, b)
    \/ \E action \in {"disconnect", "delete", "revoke_auth"} : McpRevoke(action)
    \/ \E p \in Plans : \/ McpPrepare(p) \/ McpPlanLate(p) \/ McpExecute(p) \/ McpWork(p)
                        \/ McpTakesEffect(p) \/ McpCancel(p) \/ McpForget(p)
                        \/ \E result \in {"ok", "tool_error"} : McpReturns(p, result)
    \/ McpSwitch \/ McpTokenDue \/ McpRefreshStart \/ McpBeginOAuth \/ McpReadFlow \/ McpUseFlow
    \/ McpClose \/ McpRestart

McpSpec == McpInit /\ [][McpNext]_mcpVars

-----------------------------------------------------------------------------
(* Properties.                                                             *)

(* The states have their types, memory is never behind the file, and a     *)
(* call on its way has an execution that says so.                          *)
McpTypeOK ==
    /\ mConn.desired \in {"draft", "disabled", "enabled", "deleted"}
    /\ mConn.health \in {"stopped", "starting", "ready", "degraded"}
    /\ mConn.auth \in {"none", "valid", "expired", "refresh_failed", "revoked"}
    /\ mDisk.gen <= mConn.gen /\ mDisk.rev <= mConn.rev
    /\ \A p \in Plans : /\ mPlan[p].state \in {"none", "prepared", "approved", "consumed"}
                        /\ mCall[p].pc \in {"none", "invoke", "sent", "ok", "tool_error", "error"}
                        /\ mCall[p].pc # "none" => mExec[p].state \in UnderWay
    /\ mAir \subseteq Plans /\ mCancelled \subseteq Plans
    /\ mFlow.readers \in 0 .. 2

(* An approved plan reaches the server at most once, whoever repeats the   *)
(* request, cancels it or restarts the service (service.go:953).           *)
McpAtMostOnce == \A p \in Plans : mWorld[p] + Cardinality(mAir \intersect {p}) <= 1

(* What is saved about a call is true: "not started" means that nothing is *)
(* on the wire, and a completed call has taken effect.                     *)
McpTruthful == \A p \in Plans :
    /\ mRow[p].side = "not_started" => p \notin mAir /\ mWorld[p] = 0
    /\ mRow[p].side = "provider_reported_complete" => mWorld[p] = 1

(* A call goes on the wire only while the owner's review of the tool and   *)
(* the credentials stand, though the callback compares revisions only.     *)
McpSentUnderReview ==
    [][\A p \in mAir' \ mAir :
          mConn.allowed /\ mConn.auth \in {"none", "valid", "revoked"}
                        /\ (mConn.auth = "revoked" => ~mConn.secured)]_mcpVars

(* The authorization code is exchanged once, though the browser may return *)
(* twice and the service may restart in between.                           *)
McpCodeOnce == mFlow.exchanges <= 1

(* Every execution ends. *)
McpSettles == \A p \in Plans : mExec[p].state \in UnderWay ~> mExec[p].state \notin UnderWay

(* What an approval of a tool call is worth, however saves fail, callers   *)
(* repeat and the service restarts: one call, a true record, one exchange. *)
McpSafe == McpAtMostOnce /\ McpTruthful /\ McpCodeOnce
=============================================================================
