--------------------------- MODULE ConnectorProofs ---------------------------
(***************************************************************************)
(* Proofs about what the assistant connects to.  MCP: a plan that was      *)
(* approved is called at most once, under the review and the credentials   *)
(* it was approved under, and what is recorded of it is true.  Channels:   *)
(* what is registered as running runs.                                     *)
(***************************************************************************)
EXTENDS McpClient, ChannelManager, HttpFetch, Artifacts, ModelRuntime,
        FiniteSetTheorems, TLAPS

(* The types of the connection, of a plan and of an execution.             *)
ConnRec == [desired : {"draft", "disabled", "enabled", "deleted"},
            health : {"stopped", "starting", "ready", "degraded"},
            secured : BOOLEAN, oauth : BOOLEAN,
            auth : {"none", "valid", "expired", "refresh_failed", "revoked"},
            due : BOOLEAN, allowed : BOOLEAN, known : BOOLEAN, gen : Nat, rev : Nat]
PolicyRec == [on : BOOLEAN, rev : Nat, saved : [on : BOOLEAN, rev : Nat]]
PlanRec == [state : {"none", "prepared", "approved", "consumed"}, gen : Nat, rev : Nat,
            late : BOOLEAN]
EndStates   == {"failed", "unknown_outcome", "result_unavailable", "succeeded"}
Sides   == {"not_started", "possible", "unknown", "provider_reported_complete"}
McpExecRec == {NoExec, Forgotten} \union [state : UnderWay \union EndStates, side : Sides]
CallRec == [pc : {"none", "invoke", "sent", "ok", "tool_error", "error"}, gen : Nat, rev : Nat]

McpTyped ==
    /\ mConn \in ConnRec /\ mDisk \in ConnRec
    /\ mDisk.gen <= mConn.gen /\ mDisk.rev <= mConn.rev
    /\ mPolicy \in PolicyRec
    /\ mPlan \in [Plans -> PlanRec] /\ mExec \in [Plans -> McpExecRec]
    /\ mRow \in [Plans -> McpExecRec] /\ mCall \in [Plans -> CallRec]
    /\ mCancelled \subseteq Plans /\ mAir \subseteq Plans
    /\ mWorld \in [Plans -> Nat]
    /\ mProbes \subseteq Nat
    /\ mService \in {"open", "broken", "closed"}
    /\ mBreaks \in Nat

(* Only a token of an authorization server is refreshed, and it is a       *)
(* credential.                                                             *)
ConnOk(c) ==
    /\ c.auth \in {"expired", "refresh_failed"} => c.oauth
    /\ c.oauth => c.secured

Reviewed(c) == c.allowed /\ (c.secured => c.auth = "valid")
                 /\ c.auth \notin {"expired", "refresh_failed"}

(* A plan or a call names a revision that has been; while it is the        *)
(* present one, what was looked at when the plan was made still stands.    *)
Names(x) == /\ x.rev <= mConn.rev
            /\ x.rev = mConn.rev => Reviewed(mConn)

McpRefreshOk ==
    /\ mRefresh \in [gen : Nat, policy : Nat] /\ mRefresh.gen <= mConn.gen
    /\ mRefresh # NoRefresh /\ mRefresh.gen = mConn.gen => mConn.oauth

FlowTyped ==
    mFlow \in [state : {"none", "open", "used", "done"}, gen : Nat, policy : Nat,
               readers : 0 .. 2, exchanges : 0 .. 1]

FlowOk ==
    /\ FlowTyped
    /\ mFlow.state \in {"none", "open"} => mFlow.exchanges = 0

Quiet(p) == p \notin mAir /\ mWorld[p] = 0

(* An execution or its row does not say "not started" of a call that was   *)
(* sent, nor "complete" of one that had no effect.                         *)
TrueOf(p, x) ==
    /\ x.side = "not_started" => Quiet(p)
    /\ x.side = "provider_reported_complete" => mWorld[p] = 1

PlanInv(p) ==
    /\ mPlan[p].state # "none" => Names(mPlan[p]) /\ mExec[p] # Forgotten
    /\ mCall[p].pc # "none" => Names(mCall[p])

McpExecInv(p) ==
    /\ mWorld[p] <= 1 /\ (p \in mAir => mWorld[p] = 0)
    /\ mExec[p] = NoExec <=> mRow[p] = NoExec
    /\ mExec[p] = Forgotten <=> mRow[p] = Forgotten
    /\ mExec[p] = NoExec => Quiet(p)
    /\ TrueOf(p, mExec[p]) /\ TrueOf(p, mRow[p])
    /\ mCall[p].pc # "none" => mExec[p].state \in UnderWay
    /\ mCall[p].pc = "invoke" => mExec[p].side = "not_started"
    /\ mCall[p].pc \in {"sent", "ok", "tool_error"} => mExec[p].side = "possible"
    /\ mCall[p].pc = "sent" => p \in mAir \/ mWorld[p] = 1
    /\ mCall[p].pc = "ok" => mWorld[p] = 1

McpIInv ==
    /\ McpTyped /\ ConnOk(mConn) /\ ConnOk(mDisk) /\ McpRefreshOk /\ FlowOk
    /\ \A p \in Plans : PlanInv(p) /\ McpExecInv(p)

-----------------------------------------------------------------------------
(* The connection.                                                         *)

(* The first state. *)
LEMMA McpInitInv == McpInit => McpIInv
<1> SUFFICES ASSUME McpInit PROVE McpIInv  OBVIOUS
<1>1. /\ mConn \in ConnRec /\ mDisk = mConn /\ mConn.gen = 1 /\ mConn.rev = 1
      /\ mConn.oauth = FALSE /\ mConn.auth = "none"
  BY DEF McpInit, ConnRec
<1>2. NoPlan \in PlanRec /\ NoCall \in CallRec /\ NoExec \in McpExecRec
      /\ NoRefresh \in [gen : Nat, policy : Nat]
  BY DEF NoPlan, PlanRec, NoCall, CallRec, McpExecRec, NoRefresh
<1>3. /\ mPlan = [p \in Plans |-> NoPlan] /\ mCall = [p \in Plans |-> NoCall]
      /\ mExec = [p \in Plans |-> NoExec] /\ mRow = mExec /\ mCancelled = {} /\ mAir = {}
      /\ mWorld = [p \in Plans |-> 0] /\ mProbes = {} /\ mRefresh = NoRefresh
      /\ mFlow = NoFlow /\ mService = "open" /\ mBreaks = 0
      /\ mPolicy = [on |-> TRUE, rev |-> 1, saved |-> [on |-> TRUE, rev |-> 1]]
  BY DEF McpInit
<1>4. McpTyped
  <2>1. mPolicy \in PolicyRec  BY <1>3 DEF PolicyRec
  <2> QED  BY <1>1, <1>2, <1>3, <2>1 DEF McpTyped
<1>5. ConnOk(mConn) /\ ConnOk(mDisk)  BY <1>1 DEF ConnOk
<1>6. McpRefreshOk /\ FlowOk  BY <1>1, <1>2, <1>3 DEF McpRefreshOk, FlowOk, FlowTyped, NoRefresh, NoFlow
<1>7. ASSUME NEW p \in Plans PROVE PlanInv(p) /\ McpExecInv(p)
  <2>1. /\ mPlan[p].state = "none" /\ mCall[p].pc = "none" /\ mExec[p] = NoExec
        /\ mRow[p] = NoExec /\ Quiet(p)
    BY <1>3 DEF NoPlan, NoCall, Quiet
  <2>2. NoExec # Forgotten /\ NoExec.side = "none"  BY DEF NoExec, Forgotten
  <2>3. PlanInv(p)  BY <2>1 DEF PlanInv
  <2>4. TrueOf(p, mExec[p]) /\ TrueOf(p, mRow[p])  BY <2>1, <2>2 DEF TrueOf
  <2> QED  BY <2>1, <2>2, <2>3, <2>4 DEF McpExecInv, Quiet
<1> QED  BY <1>4, <1>5, <1>6, <1>7 DEF McpIInv

(* The executions stay as they are. *)
LEMMA ExecKept ==
    ASSUME UNCHANGED mcpCallVars, NEW p \in Plans, McpExecInv(p) PROVE McpExecInv(p)'
<1>1. UNCHANGED <<mExec, mRow, mCall, mAir, mWorld>>  BY DEF mcpCallVars
<1>2. /\ mExec'[p] = mExec[p] /\ mRow'[p] = mRow[p] /\ mCall'[p] = mCall[p]
      /\ mWorld'[p] = mWorld[p] /\ Quiet(p)' = Quiet(p)
  BY <1>1 DEF Quiet
<1>3. TrueOf(p, mExec[p])' /\ TrueOf(p, mRow[p])'
  BY <1>1, <1>2 DEF TrueOf, McpExecInv
<1> QED  BY <1>1, <1>2, <1>3 DEF McpExecInv

(* The connection is saved under a new revision. *)
LEMMA ConnSaved ==
    ASSUME McpIInv, NEW c \in ConnRec, SaveConn(c), ConnOk(c),
           c.rev = mConn.rev + 1, c.gen = mConn.gen \/ c.gen = mConn.gen + 1,
           c.gen = mConn.gen /\ mConn.oauth => c.oauth,
           mPlan' = mPlan \/ mPlan' = [p \in Plans |-> NoPlan],
           mCancelled' \subseteq Plans, UNCHANGED mcpCallVars, mPolicy' \in PolicyRec,
           mProbes' \subseteq Nat, mRefresh' = mRefresh \/ mRefresh' = NoRefresh, FlowOk'
    PROVE  McpIInv'
<1>1. /\ McpTyped /\ ConnOk(mConn) /\ ConnOk(mDisk) /\ McpRefreshOk
      /\ \A p \in Plans : PlanInv(p) /\ McpExecInv(p)
  BY DEF McpIInv
<1>2. /\ mConn' = c /\ mDisk' \in {c, mDisk} /\ mBreaks' \in Nat
      /\ mService' \in {"open", "broken", "closed"}
  BY <1>1 DEF SaveConn, WriteWorks, WriteFails, McpTyped
<1>3. mConn.gen \in Nat /\ mConn.rev \in Nat /\ mDisk \in ConnRec
      /\ mDisk.gen <= mConn.gen /\ mDisk.rev <= mConn.rev /\ mDisk.gen \in Nat /\ mDisk.rev \in Nat
  BY <1>1 DEF McpTyped, ConnRec
<1>4. mConn' \in ConnRec /\ mDisk' \in ConnRec
      /\ mDisk'.gen <= mConn'.gen /\ mDisk'.rev <= mConn'.rev
  BY <1>2, <1>3
<1>5. ConnOk(mConn)' /\ ConnOk(mDisk)'
  <2>1. ConnOk(mConn')  BY <1>2
  <2>2. ConnOk(mDisk')  BY <1>1, <1>2
  <2> QED  BY <2>1, <2>2 DEF ConnOk
<1>6. mPlan' \in [Plans -> PlanRec]
      /\ \A p \in Plans : mPlan'[p].state # "none" => mPlan'[p] = mPlan[p]
  <2>1. NoPlan \in PlanRec /\ NoPlan.state = "none"  BY DEF NoPlan, PlanRec
  <2> QED  BY <1>1, <2>1 DEF McpTyped
<1>7. McpRefreshOk'
  <2>1. CASE mRefresh' = NoRefresh
    <3>1. mConn'.gen \in Nat  BY <1>4 DEF ConnRec
    <3> QED  BY <2>1, <3>1 DEF McpRefreshOk, NoRefresh
  <2>2. CASE mRefresh' = mRefresh
    <3>1. mRefresh \in [gen : Nat, policy : Nat] /\ mRefresh.gen <= mConn.gen
          /\ (mRefresh # NoRefresh /\ mRefresh.gen = mConn.gen => mConn.oauth)
      BY <1>1 DEF McpRefreshOk
    <3>2. mRefresh.gen <= c.gen  BY <1>3, <3>1
    <3>3. mRefresh # NoRefresh /\ mRefresh.gen = c.gen => c.oauth  BY <1>3, <3>1
    <3> QED  BY <1>2, <2>2, <3>1, <3>2, <3>3 DEF McpRefreshOk
  <2> QED  BY <2>1, <2>2
<1>8. McpTyped'
  <2>1. UNCHANGED <<mExec, mRow, mCall, mAir, mWorld>>  BY DEF mcpCallVars
  <2> QED  BY <1>1, <1>2, <1>4, <1>6, <2>1 DEF McpTyped
<1>9. ASSUME NEW p \in Plans PROVE PlanInv(p)' /\ McpExecInv(p)'
  <2>1. McpExecInv(p)'  BY <1>1, ExecKept
  <2>2. mExec'[p] = mExec[p] /\ mCall'[p] = mCall[p]  BY DEF mcpCallVars
  <2>3. mPlan[p].state # "none" => mPlan[p].rev <= mConn.rev /\ mExec[p] # Forgotten
    BY <1>1 DEF PlanInv, Names
  <2>4. mCall[p].pc # "none" => mCall[p].rev <= mConn.rev  BY <1>1 DEF PlanInv, Names
  <2>5. mPlan[p].rev \in Nat /\ mCall[p].rev \in Nat
    <3>1. mPlan[p] \in PlanRec /\ mCall[p] \in CallRec  BY <1>1 DEF McpTyped
    <3> QED  BY <3>1 DEF PlanRec, CallRec
  <2>6. mConn'.rev = mConn.rev + 1  BY <1>2
  <2>7. mPlan'[p].state # "none" => Names(mPlan[p])' /\ mExec'[p] # Forgotten
    BY <1>3, <1>6, <2>2, <2>3, <2>5, <2>6 DEF Names
  <2>8. mCall'[p].pc # "none" => Names(mCall[p])'
    BY <1>3, <2>2, <2>4, <2>5, <2>6 DEF Names
  <2> QED  BY <2>1, <2>7, <2>8 DEF PlanInv
<1> QED  BY <1>5, <1>7, <1>8, <1>9 DEF McpIInv

(* A new generation and revision. *)
LEMMA BumpedRow ==
    ASSUME NEW c \in ConnRec
    PROVE  /\ Bumped(c) \in ConnRec /\ Bumped(c).rev = c.rev + 1 /\ Bumped(c).gen = c.gen + 1
           /\ Bumped(c).oauth = c.oauth /\ Bumped(c).secured = c.secured
           /\ Bumped(c).auth = c.auth
<1> DEFINE a == [c EXCEPT !.gen = @ + 1]
           b == [a EXCEPT !.rev = @ + 1]
<1>1. /\ a \in ConnRec /\ a.rev = c.rev /\ a.gen = c.gen + 1 /\ a.oauth = c.oauth
      /\ a.secured = c.secured /\ a.auth = c.auth
  BY DEF ConnRec
<1>2. Bumped(c) = b  BY DEF Bumped
<1> HIDE DEF a
<1>3. /\ b \in ConnRec /\ b.rev = c.rev + 1 /\ b.gen = c.gen + 1 /\ b.oauth = c.oauth
      /\ b.secured = c.secured /\ b.auth = c.auth
  BY <1>1 DEF ConnRec
<1> QED  BY <1>2, <1>3

(* The calls a step cancels are calls. *)
LEMMA Cancelled ==
    ASSUME McpTyped, NEW calls, calls \subseteq Plans, Cancels(calls)
    PROVE  mCancelled' \subseteq Plans
BY DEF McpTyped, Cancels, InCall

(* Update, SetCredentials, disconnect, delete and revoke. *)
LEMMA SettingsInv ==
    ASSUME McpIInv, NEW b \in BOOLEAN, NEW action \in {"disconnect", "delete", "revoke_auth"},
           McpUpdate(b) \/ McpSetCredentials(b) \/ McpRevoke(action)
    PROVE  McpIInv'
<1>1. /\ McpTyped /\ mConn \in ConnRec /\ ConnOk(mConn) /\ FlowOk
      /\ mPolicy \in PolicyRec /\ mProbes \subseteq Nat
  BY DEF McpIInv, McpTyped
<1> DEFINE g == Bumped(mConn)
<1>2. /\ g \in ConnRec /\ g.rev = mConn.rev + 1 /\ g.gen = mConn.gen + 1
      /\ g.oauth = mConn.oauth /\ g.secured = mConn.secured /\ g.auth = mConn.auth
  BY <1>1, BumpedRow
<1> HIDE DEF g
<1>3. ASSUME NEW c, SaveConn(c), Stop, c \in ConnRec, c.rev = g.rev, c.gen = g.gen, ConnOk(c),
             UNCHANGED <<mPolicy, mcpCallVars, mcpAuthVars>>
      PROVE  McpIInv'
  <2>1. mConn.gen \in Nat  BY <1>1 DEF ConnRec
  <2>2. c.gen = mConn.gen + 1 /\ c.gen # mConn.gen /\ c.rev = mConn.rev + 1
    BY <1>2, <1>3, <2>1
  <2>3. mCancelled' \subseteq Plans
    BY <1>1, <1>3, Cancelled DEF Stop, InCall
  <2>4. mPlan' = [p \in Plans |-> NoPlan]  BY <1>3 DEF Stop
  <2>5. UNCHANGED <<mPolicy, mProbes, mRefresh, mFlow, mcpCallVars>>  BY <1>3 DEF mcpAuthVars
  <2>6. FlowOk'  BY <1>1, <2>5 DEF FlowOk, FlowTyped
  <2> QED  BY <1>1, <1>3, <2>2, <2>3, <2>4, <2>5, <2>6, ConnSaved
<1>4. CASE McpUpdate(b)
  <2> DEFINE c == [g EXCEPT !.desired = "disabled", !.health = "stopped"]
             d == [c EXCEPT !.secured = FALSE, !.oauth = FALSE, !.auth = "none", !.due = FALSE,
                            !.allowed = FALSE, !.known = FALSE]
  <2>1. /\ SaveConn(IF ~b THEN c ELSE d) /\ Stop
        /\ UNCHANGED <<mPolicy, mcpCallVars, mcpAuthVars>>
    BY <1>4 DEF McpUpdate, g
  <2>2. /\ c \in ConnRec /\ c.rev = g.rev /\ c.gen = g.gen /\ c.oauth = mConn.oauth
        /\ c.secured = mConn.secured /\ c.auth = mConn.auth
    BY <1>2 DEF ConnRec
  <2>3. ConnOk(c)  BY <1>1, <2>2 DEF ConnOk
  <2> HIDE DEF c
  <2>4. d \in ConnRec /\ d.rev = g.rev /\ d.gen = g.gen /\ d.oauth = FALSE /\ d.auth = "none"
    BY <2>2 DEF ConnRec
  <2>5. ConnOk(d)  BY <2>4 DEF ConnOk
  <2> HIDE DEF d
  <2> QED  BY <1>3, <2>1, <2>2, <2>3, <2>4, <2>5
<1>5. CASE McpSetCredentials(b)
  <2> DEFINE c == [g EXCEPT !.desired = "disabled", !.secured = b, !.oauth = FALSE,
                            !.auth = IF b THEN "valid" ELSE "none", !.due = FALSE]
  <2>1. SaveConn(c) /\ Stop /\ UNCHANGED <<mPolicy, mcpCallVars, mcpAuthVars>>
    BY <1>5 DEF McpSetCredentials, g
  <2>2. /\ c \in ConnRec /\ c.rev = g.rev /\ c.gen = g.gen /\ c.oauth = FALSE
        /\ c.auth \in {"valid", "none"}
    BY <1>2 DEF ConnRec
  <2>3. ConnOk(c)  BY <2>2 DEF ConnOk
  <2> HIDE DEF c
  <2> QED  BY <1>3, <2>1, <2>2, <2>3
<1>6. CASE McpRevoke(action)
  <2> DEFINE c == [g EXCEPT !.health = "stopped",
                            !.desired = IF action = "delete" THEN "deleted" ELSE "disabled"]
             d == [c EXCEPT !.oauth = FALSE, !.auth = "revoked", !.due = FALSE, !.allowed = FALSE]
  <2>1. /\ SaveConn(IF action = "disconnect" THEN c ELSE d) /\ Stop
        /\ UNCHANGED <<mPolicy, mcpCallVars, mcpAuthVars>>
    BY <1>6 DEF McpRevoke, g
  <2>2. /\ c \in ConnRec /\ c.rev = g.rev /\ c.gen = g.gen /\ c.oauth = mConn.oauth
        /\ c.secured = mConn.secured /\ c.auth = mConn.auth
    BY <1>2 DEF ConnRec
  <2>3. ConnOk(c)  BY <1>1, <2>2 DEF ConnOk
  <2> HIDE DEF c
  <2>4. d \in ConnRec /\ d.rev = g.rev /\ d.gen = g.gen /\ d.oauth = FALSE /\ d.auth = "revoked"
    BY <2>2 DEF ConnRec
  <2>5. ConnOk(d)  BY <2>4 DEF ConnOk
  <2> HIDE DEF d
  <2> QED  BY <1>3, <2>1, <2>2, <2>3, <2>4, <2>5
<1> QED  BY <1>4, <1>5, <1>6

(* The connection and the calls stay as they are. *)
LEMMA PlansMove ==
    ASSUME McpIInv, UNCHANGED <<mConn, mDisk, mcpCallVars>>,
           mPlan' \in [Plans -> PlanRec],
           \A p \in Plans : mPlan'[p].state # "none" => Names(mPlan'[p]) /\ mExec[p] # Forgotten,
           mPolicy' \in PolicyRec, mCancelled' \subseteq Plans, mProbes' \subseteq Nat,
           mService' \in {"open", "broken", "closed"}, mBreaks' \in Nat, McpRefreshOk', FlowOk'
    PROVE  McpIInv'
<1>1. /\ McpTyped /\ ConnOk(mConn) /\ ConnOk(mDisk)
      /\ \A p \in Plans : PlanInv(p) /\ McpExecInv(p)
  BY DEF McpIInv
<1>2. UNCHANGED <<mExec, mRow, mCall, mAir, mWorld>>  BY DEF mcpCallVars
<1>3. McpTyped'  BY <1>1, <1>2 DEF McpTyped
<1>4. ConnOk(mConn)' /\ ConnOk(mDisk)'  BY <1>1 DEF ConnOk
<1>5. ASSUME NEW p \in Plans PROVE PlanInv(p)' /\ McpExecInv(p)'
  <2>1. McpExecInv(p)'  BY <1>1, ExecKept
  <2>2. mCall'[p].pc # "none" => Names(mCall[p])'  BY <1>1, <1>2 DEF PlanInv, Names
  <2>3. mPlan'[p].state # "none" => Names(mPlan[p])' /\ mExec'[p] # Forgotten
    BY <1>2 DEF Names
  <2> QED  BY <2>1, <2>2, <2>3 DEF PlanInv
<1> QED  BY <1>3, <1>4, <1>5 DEF McpIInv

(* The plans, kept or dropped, name what they named. *)
LEMMA PlansDropped ==
    ASSUME McpIInv, mPlan' = mPlan \/ mPlan' = [p \in Plans |-> NoPlan]
    PROVE  /\ mPlan' \in [Plans -> PlanRec]
           /\ \A p \in Plans : mPlan'[p].state # "none" => Names(mPlan'[p]) /\ mExec[p] # Forgotten
<1>1. mPlan \in [Plans -> PlanRec] /\ \A p \in Plans : PlanInv(p)  BY DEF McpIInv, McpTyped
<1>2. NoPlan \in PlanRec /\ NoPlan.state = "none"  BY DEF NoPlan, PlanRec
<1>3. CASE mPlan' = mPlan  BY <1>1, <1>3 DEF PlanInv
<1>4. CASE mPlan' = [p \in Plans |-> NoPlan]  BY <1>2, <1>4
<1> QED  BY <1>3, <1>4

(* A connection or a check begins; a descriptor is reviewed. *)
LEMMA ConnectInv ==
    ASSUME McpIInv, NEW b \in BOOLEAN, McpConnect(b) \/ McpReview(b)
    PROVE  McpIInv'
<1>1. /\ McpTyped /\ mConn \in ConnRec /\ ConnOk(mConn) /\ FlowOk
      /\ mPolicy \in PolicyRec /\ mProbes \subseteq Nat /\ mConn.gen \in Nat
  BY DEF McpIInv, McpTyped, ConnRec
<1>2. CASE McpConnect(b)
  <2> DEFINE g == Bumped(mConn)
             c == [g EXCEPT !.health = "starting", !.desired = IF b THEN "enabled" ELSE @]
  <2>1. /\ SaveConn(c) /\ Stop /\ UNCHANGED <<mPolicy, mcpCallVars, mRefresh, mFlow>>
        /\ mProbes' \subseteq mProbes \union {mConn.gen + 1}
    BY <1>2 DEF McpConnect
  <2>2. /\ g \in ConnRec /\ g.rev = mConn.rev + 1 /\ g.gen = mConn.gen + 1
        /\ g.oauth = mConn.oauth /\ g.secured = mConn.secured /\ g.auth = mConn.auth
    BY <1>1, BumpedRow
  <2> HIDE DEF g
  <2>3. /\ c \in ConnRec /\ c.rev = mConn.rev + 1 /\ c.gen = mConn.gen + 1
        /\ c.oauth = mConn.oauth /\ c.secured = mConn.secured /\ c.auth = mConn.auth
    BY <2>2 DEF ConnRec
  <2> HIDE DEF c
  <2>4. ConnOk(c) /\ (c.gen = mConn.gen /\ mConn.oauth => c.oauth)  BY <1>1, <2>3 DEF ConnOk
  <2>5. mCancelled' \subseteq Plans /\ mPlan' = [p \in Plans |-> NoPlan]
    BY <1>1, <2>1, Cancelled DEF Stop, InCall
  <2>6. mProbes' \subseteq Nat /\ FlowOk' /\ mPolicy' \in PolicyRec  BY <1>1, <2>1 DEF FlowOk, FlowTyped
  <2> QED  BY <2>1, <2>3, <2>4, <2>5, <2>6, ConnSaved
<1>3. CASE McpReview(b)
  <2> DEFINE c == [mConn EXCEPT !.allowed = b, !.rev = @ + 1]
  <2>1. SaveConn(c) /\ Stop /\ UNCHANGED <<mPolicy, mcpCallVars, mcpAuthVars>>
    BY <1>3 DEF McpReview
  <2> DEFINE a == [mConn EXCEPT !.rev = @ + 1]
  <2>2. /\ a \in ConnRec /\ a.rev = mConn.rev + 1 /\ a.gen = mConn.gen
        /\ a.oauth = mConn.oauth /\ a.secured = mConn.secured /\ a.auth = mConn.auth
    BY <1>1 DEF ConnRec
  <2>3. c = [a EXCEPT !.allowed = b]  BY <1>1 DEF ConnRec
  <2> HIDE DEF a, c
  <2>4. /\ c \in ConnRec /\ c.rev = mConn.rev + 1 /\ c.gen = mConn.gen
        /\ c.oauth = mConn.oauth /\ c.secured = mConn.secured /\ c.auth = mConn.auth
    BY <2>2, <2>3 DEF ConnRec
  <2>5. ConnOk(c) /\ (c.gen = mConn.gen /\ mConn.oauth => c.oauth)  BY <1>1, <2>4 DEF ConnOk
  <2>6. mCancelled' \subseteq Plans /\ mPlan' = [p \in Plans |-> NoPlan]
    BY <1>1, <2>1, Cancelled DEF Stop, InCall
  <2>7. UNCHANGED <<mPolicy, mProbes, mRefresh, mFlow, mcpCallVars>>  BY <2>1 DEF mcpAuthVars
  <2>8. FlowOk'  BY <1>1, <2>7 DEF FlowOk, FlowTyped
  <2> QED  BY <1>1, <2>1, <2>4, <2>5, <2>6, <2>7, <2>8, ConnSaved
<1> QED  BY <1>2, <1>3

(* A discovery returns, in time or too late. *)
LEMMA DiscoveredInv ==
    ASSUME McpIInv, NEW g, NEW ok \in BOOLEAN, McpDiscovered(g, ok) PROVE McpIInv'
<1>1. /\ McpTyped /\ mConn \in ConnRec /\ ConnOk(mConn) /\ FlowOk /\ McpRefreshOk
      /\ mPolicy \in PolicyRec /\ mProbes \subseteq Nat /\ mBreaks \in Nat
      /\ mService \in {"open", "broken", "closed"} /\ mCancelled \subseteq Plans
  BY DEF McpIInv, McpTyped
<1>2. /\ mProbes' \subseteq mProbes
      /\ UNCHANGED <<mPolicy, mPlan, mcpCallVars, mRefresh, mFlow, mEdits>>
  BY DEF McpDiscovered
<1>3. mProbes' \subseteq Nat /\ FlowOk' /\ mPolicy' \in PolicyRec  BY <1>1, <1>2 DEF FlowOk, FlowTyped
<1> DEFINE a == [mConn EXCEPT !.rev = @ + 1]
           c == IF ok THEN [a EXCEPT !.health = "ready", !.known = TRUE,
                                     !.allowed = mConn.known /\ @]
                ELSE [a EXCEPT !.health = "degraded"]
<1>4. CASE SaveConn(c) /\ Cancels({})
  <2>1. /\ a \in ConnRec /\ a.rev = mConn.rev + 1 /\ a.gen = mConn.gen
        /\ a.oauth = mConn.oauth /\ a.secured = mConn.secured /\ a.auth = mConn.auth
    BY <1>1 DEF ConnRec
  <2>2. (mConn.known /\ a.allowed) \in BOOLEAN  BY <1>1, <2>1 DEF ConnRec
  <2> DEFINE k == mConn.known /\ a.allowed
  <2>3. c = IF ok THEN [a EXCEPT !.health = "ready", !.known = TRUE, !.allowed = k]
            ELSE [a EXCEPT !.health = "degraded"]
    OBVIOUS
  <2> HIDE DEF a, c, k
  <2>4. /\ c \in ConnRec /\ c.rev = mConn.rev + 1 /\ c.gen = mConn.gen
        /\ c.oauth = mConn.oauth /\ c.secured = mConn.secured /\ c.auth = mConn.auth
    BY <2>1, <2>2, <2>3 DEF ConnRec, k
  <2>5. ConnOk(c) /\ (c.gen = mConn.gen /\ mConn.oauth => c.oauth)  BY <1>1, <2>4 DEF ConnOk
  <2>6. mCancelled' \subseteq Plans  BY <1>1, <1>4, Cancelled
  <2> QED  BY <1>2, <1>3, <1>4, <2>4, <2>5, <2>6, ConnSaved
<1>5. CASE UNCHANGED <<mConn, mDisk, mCancelled, mService, mBreaks>>
  <2>1. McpRefreshOk'  BY <1>1, <1>2, <1>5 DEF McpRefreshOk
  <2>2. UNCHANGED <<mConn, mDisk, mcpCallVars>> /\ mPlan' = mPlan  BY <1>2, <1>5
  <2>3. /\ mCancelled' \subseteq Plans /\ mBreaks' \in Nat
        /\ mService' \in {"open", "broken", "closed"}
    BY <1>1, <1>5
  <2> QED  BY <1>3, <2>1, <2>2, <2>3, PlansDropped, PlansMove
<1>6. \/ SaveConn(c) /\ Cancels({})
      \/ UNCHANGED <<mConn, mDisk, mCancelled, mService, mBreaks>>
  <2>1. c = IF ok THEN [mConn EXCEPT !.health = "ready", !.rev = @ + 1, !.known = TRUE,
                                     !.allowed = mConn.known /\ @]
            ELSE [mConn EXCEPT !.health = "degraded", !.rev = @ + 1]
    BY <1>1 DEF ConnRec
  <2> HIDE DEF c
  <2> QED  BY <2>1 DEF McpDiscovered
<1> QED  BY <1>4, <1>5, <1>6

(* Tokens and browser authorizations. *)
LEMMA TokenInv ==
    ASSUME McpIInv, NEW ok \in BOOLEAN,
           McpRefreshStart \/ McpRefreshDone(ok) \/ McpAuthorized(ok)
    PROVE  McpIInv'
<1>1. /\ McpTyped /\ mConn \in ConnRec /\ ConnOk(mConn) /\ FlowOk /\ McpRefreshOk
      /\ mPolicy \in PolicyRec /\ mProbes \subseteq Nat /\ mBreaks \in Nat
      /\ mService \in {"open", "broken", "closed"} /\ mCancelled \subseteq Plans
      /\ mConn.gen \in Nat /\ mConn.rev \in Nat
  BY DEF McpIInv, McpTyped, ConnRec
<1>2. ASSUME NEW c, SaveConn(c), c \in ConnRec, c.rev = mConn.rev + 1,
             c.gen = mConn.gen \/ c.gen = mConn.gen + 1,
             c.gen = mConn.gen /\ mConn.oauth => c.oauth, ConnOk(c),
             \/ Stop
             \/ Cancels({}) /\ mPlan' = mPlan,
             mRefresh' = mRefresh \/ mRefresh' = NoRefresh, FlowOk',
             UNCHANGED <<mPolicy, mcpCallVars, mProbes>>
      PROVE  McpIInv'
  <2>1. CASE Stop
    <3>1. mCancelled' \subseteq Plans /\ mPlan' = [p \in Plans |-> NoPlan]
      BY <1>1, <2>1, Cancelled DEF Stop, InCall
    <3> QED  BY <1>1, <1>2, <3>1, ConnSaved
  <2>2. CASE Cancels({}) /\ mPlan' = mPlan
    <3>1. mCancelled' \subseteq Plans  BY <1>1, <2>2, Cancelled
    <3> QED  BY <1>1, <1>2, <2>2, <3>1, ConnSaved
  <2> QED  BY <1>2, <2>1, <2>2
<1>3. ASSUME UNCHANGED <<mConn, mDisk, mPlan, mCancelled, mService, mBreaks, mPolicy,
                         mcpCallVars, mProbes>>, McpRefreshOk', FlowOk'
      PROVE  McpIInv'
  BY <1>1, <1>3, PlansDropped, PlansMove
<1>4. ASSUME NEW s \in {"expired", "refresh_failed"}, mConn.oauth
      PROVE  LET c == [mConn EXCEPT !.auth = s, !.rev = @ + 1] IN
             /\ c \in ConnRec /\ c.rev = mConn.rev + 1 /\ c.gen = mConn.gen
             /\ c.oauth /\ ConnOk(c)
  <2> DEFINE a == [mConn EXCEPT !.rev = @ + 1]
             c == [mConn EXCEPT !.auth = s, !.rev = @ + 1]
  <2>1. /\ a \in ConnRec /\ a.rev = mConn.rev + 1 /\ a.gen = mConn.gen
        /\ a.oauth = mConn.oauth /\ a.secured = mConn.secured
    BY <1>1 DEF ConnRec
  <2>2. c = [a EXCEPT !.auth = s]  BY <1>1 DEF ConnRec
  <2> HIDE DEF a, c
  <2>3. /\ c \in ConnRec /\ c.rev = mConn.rev + 1 /\ c.gen = mConn.gen
        /\ c.oauth = mConn.oauth /\ c.secured = mConn.secured
    BY <2>1, <2>2 DEF ConnRec
  <2>4. c.oauth /\ ConnOk(c)  BY <1>1, <1>4, <2>3 DEF ConnOk
  <2> QED  BY <2>3, <2>4 DEF c
<1>5. CASE McpRefreshStart
  <2>1. mConn.oauth /\ UNCHANGED <<mPolicy, mPlan, mcpCallVars, mProbes, mFlow>>
    BY <1>5 DEF McpRefreshStart
  <2>2. FlowOk'  BY <1>1, <2>1 DEF FlowOk, FlowTyped
  <2>3. CASE mRefresh' = [gen |-> mConn.gen, policy |-> mPolicy.rev]
             /\ UNCHANGED <<mConn, mDisk, mCancelled, mService, mEdits, mBreaks>>
    <3>1. McpRefreshOk'  BY <1>1, <2>1, <2>3 DEF McpRefreshOk, PolicyRec
    <3> QED  BY <1>3, <2>1, <2>2, <2>3, <3>1
  <2>4. CASE /\ SaveConn([mConn EXCEPT !.auth = "expired", !.rev = @ + 1])
             /\ Cancels({}) /\ UNCHANGED mRefresh
    BY <1>2, <1>4, <2>1, <2>2, <2>4
  <2> QED  BY <1>5, <2>3, <2>4 DEF McpRefreshStart
<1>6. CASE McpRefreshDone(ok)
  <2>1. /\ mRefresh # NoRefresh /\ mRefresh' = NoRefresh
        /\ UNCHANGED <<mPolicy, mcpCallVars, mProbes, mFlow, mEdits>>
    BY <1>6 DEF McpRefreshDone
  <2>2. FlowOk'  BY <1>1, <2>1 DEF FlowOk, FlowTyped
  <2>3. CASE UNCHANGED <<mConn, mDisk, mPlan, mCancelled, mService, mBreaks>>
    <3>1. McpRefreshOk'  BY <1>1, <2>1, <2>3 DEF McpRefreshOk, NoRefresh
    <3> QED  BY <1>3, <2>1, <2>2, <2>3, <3>1
  <2>4. CASE SaveConn([Bumped(mConn) EXCEPT !.auth = "valid", !.due = FALSE]) /\ Stop
    <3> DEFINE g == Bumped(mConn)
               c == [g EXCEPT !.auth = "valid", !.due = FALSE]
    <3>1. /\ g \in ConnRec /\ g.rev = mConn.rev + 1 /\ g.gen = mConn.gen + 1
          /\ g.oauth = mConn.oauth /\ g.secured = mConn.secured
      BY <1>1, BumpedRow
    <3> HIDE DEF g
    <3>2. /\ c \in ConnRec /\ c.rev = mConn.rev + 1 /\ c.gen = mConn.gen + 1
          /\ c.oauth = mConn.oauth /\ c.secured = mConn.secured /\ c.auth = "valid"
      BY <3>1 DEF ConnRec
    <3>3. SaveConn(c)  BY <2>4 DEF g
    <3> HIDE DEF c
    <3>4. ConnOk(c) /\ (c.gen = mConn.gen /\ mConn.oauth => c.oauth)
      BY <1>1, <3>2 DEF ConnOk
    <3> QED  BY <1>2, <2>1, <2>2, <2>4, <3>2, <3>3, <3>4
  <2>5. CASE /\ mConn.gen = mRefresh.gen
             /\ SaveConn([mConn EXCEPT !.auth = "refresh_failed", !.rev = @ + 1])
             /\ Cancels({}) /\ UNCHANGED mPlan
    <3>1. mConn.oauth  BY <1>1, <2>1, <2>5 DEF McpRefreshOk
    <3> QED  BY <1>2, <1>4, <2>1, <2>2, <2>5, <3>1
  <2> QED  BY <1>6, <2>3, <2>4, <2>5 DEF McpRefreshDone
<1>7. CASE McpAuthorized(ok)
  <2>1. /\ mFlow.state = "used" /\ mFlow' = [mFlow EXCEPT !.state = "done"]
        /\ UNCHANGED <<mPolicy, mcpCallVars, mProbes, mRefresh, mEdits>>
    BY <1>7 DEF McpAuthorized
  <2>2. FlowOk'  BY <1>1, <2>1 DEF FlowOk, FlowTyped
  <2>3. CASE UNCHANGED <<mConn, mDisk, mPlan, mCancelled, mService, mBreaks>>
    <3>1. McpRefreshOk'  BY <1>1, <2>1, <2>3 DEF McpRefreshOk
    <3> QED  BY <1>3, <2>1, <2>2, <2>3, <3>1
  <2>4. CASE /\ SaveConn([Bumped(mConn) EXCEPT !.secured = TRUE, !.oauth = TRUE, !.auth = "valid",
                 !.due = FALSE, !.desired = "disabled", !.health = "stopped", !.allowed = FALSE])
             /\ Stop
    <3> DEFINE g == Bumped(mConn)
               c == [g EXCEPT !.secured = TRUE, !.oauth = TRUE, !.auth = "valid", !.due = FALSE,
                       !.desired = "disabled", !.health = "stopped", !.allowed = FALSE]
    <3>1. g \in ConnRec /\ g.rev = mConn.rev + 1 /\ g.gen = mConn.gen + 1
      BY <1>1, BumpedRow
    <3> HIDE DEF g
    <3>2. /\ c \in ConnRec /\ c.rev = mConn.rev + 1 /\ c.gen = mConn.gen + 1
          /\ c.oauth = TRUE /\ c.secured = TRUE /\ c.auth = "valid"
      BY <3>1 DEF ConnRec
    <3>3. SaveConn(c)  BY <2>4 DEF g
    <3> HIDE DEF c
    <3>4. ConnOk(c) /\ (c.gen = mConn.gen /\ mConn.oauth => c.oauth)
      BY <3>2 DEF ConnOk
    <3> QED  BY <1>2, <2>1, <2>2, <2>4, <3>2, <3>3, <3>4
  <2> QED  BY <1>7, <2>3, <2>4 DEF McpAuthorized
<1> QED  BY <1>5, <1>6, <1>7

(* The switch, the flow's steps and the end of the service. *)
LEMMA FlowInv ==
    ASSUME McpIInv, McpSwitch \/ McpBeginOAuth \/ McpReadFlow \/ McpUseFlow \/ McpClose
    PROVE  McpIInv'
<1>1. /\ McpTyped /\ FlowOk /\ McpRefreshOk
      /\ mPolicy \in PolicyRec /\ mProbes \subseteq Nat /\ mBreaks \in Nat
      /\ mService \in {"open", "broken", "closed"} /\ mCancelled \subseteq Plans
  BY DEF McpIInv, McpTyped
<1>2. /\ UNCHANGED <<mConn, mDisk, mcpCallVars, mProbes, mRefresh>>
      /\ mPlan' = mPlan \/ mPlan' = [p \in Plans |-> NoPlan]
  BY DEF McpSwitch, McpBeginOAuth, McpReadFlow, McpUseFlow, McpClose, Stop, mcpAuthVars
<1>3. McpRefreshOk'  BY <1>1, <1>2 DEF McpRefreshOk
<1>4. mPolicy' \in PolicyRec
  <2>1. CASE McpSwitch
    <3> DEFINE new == [on |-> ~mPolicy.on, rev |-> mPolicy.rev + 1]
    <3>1. mPolicy.rev \in Nat /\ mPolicy.saved \in [on : BOOLEAN, rev : Nat]
      BY <1>1 DEF PolicyRec
    <3>2. new \in [on : BOOLEAN, rev : Nat]
      <4>1. (~mPolicy.on) \in BOOLEAN  OBVIOUS
      <4> QED  BY <3>1, <4>1
    <3>3. \E old \in {new, mPolicy.saved} : mPolicy' = [on |-> new.on, rev |-> new.rev, saved |-> old]
      BY <2>1 DEF McpSwitch
    <3> HIDE DEF new
    <3> QED  BY <3>1, <3>2, <3>3 DEF PolicyRec
  <2> QED  BY <1>1, <2>1 DEF McpBeginOAuth, McpReadFlow, McpUseFlow, McpClose
<1>5. mService' \in {"open", "broken", "closed"} /\ mBreaks' \in Nat
  BY <1>1 DEF McpSwitch, McpBeginOAuth, McpReadFlow, McpUseFlow, McpClose, WriteWorks, WriteFails
<1>6. mCancelled' \subseteq Plans
  <2>1. CASE McpSwitch  BY <1>1, <2>1, Cancelled DEF McpSwitch, Stop, InCall
  <2>2. CASE McpBeginOAuth \/ McpUseFlow
    BY <1>1, <2>2, Cancelled DEF McpBeginOAuth, McpUseFlow
  <2> QED  BY <1>1, <2>1, <2>2 DEF McpReadFlow, McpClose, InCall
<1>7. FlowOk'
  <2>1. CASE McpSwitch \/ McpClose
    <3>1. mFlow' = mFlow  BY <2>1 DEF McpSwitch, McpClose, mcpAuthVars
    <3> QED  BY <1>1, <3>1 DEF FlowOk, FlowTyped
  <2>2. CASE McpBeginOAuth /\ mFlow' # mFlow
    <3>1. /\ mFlow' = [state |-> "open", gen |-> mConn.gen, policy |-> mPolicy.rev,
                       readers |-> 0, exchanges |-> 0]
          /\ mConn.gen \in Nat
      BY <1>1, <2>2 DEF McpBeginOAuth, NoFlow, McpTyped, ConnRec
    <3>2. mPolicy.rev \in Nat  BY <1>1 DEF PolicyRec
    <3> DEFINE f == [state |-> "open", gen |-> mConn.gen, policy |-> mPolicy.rev,
                     readers |-> 0, exchanges |-> 0]
    <3>3. f \in [state : {"none", "open", "used", "done"}, gen : Nat, policy : Nat,
                 readers : 0 .. 2, exchanges : 0 .. 1]
      BY <3>1, <3>2
    <3>4. f.exchanges = 0 /\ mFlow' = f  BY <3>1
    <3> HIDE DEF f
    <3> QED  BY <3>3, <3>4 DEF FlowOk, FlowTyped
  <2>3. CASE McpReadFlow  BY <1>1, <2>3 DEF McpReadFlow, FlowOk, FlowTyped
  <2>4. CASE McpUseFlow
    <3> DEFINE R == [state : {"none", "open", "used", "done"}, gen : Nat, policy : Nat,
                     readers : 0 .. 2, exchanges : 0 .. 1]
               f == [mFlow EXCEPT !.readers = @ - 1]
               d == [mFlow EXCEPT !.state = "used"]
               e == [d EXCEPT !.readers = @ - 1]
               k == [e EXCEPT !.exchanges = 1]
    <3>1. mFlow.readers > 0  BY <2>4 DEF McpUseFlow
    <3>2. /\ mFlow \in R /\ (mFlow.state \in {"none", "open"} => mFlow.exchanges = 0)
      BY <1>1 DEF FlowOk, FlowTyped
    <3>3. /\ f \in R /\ f.state = mFlow.state /\ f.exchanges = mFlow.exchanges
      BY <3>1, <3>2
    <3>4. FlowUsable => mFlow.exchanges = 0  BY <3>2 DEF FlowUsable
    <3>5. mFlow' \in {k, f}
      <4>1. FlowUsable => mFlow.exchanges + 1 = 1  BY <3>4
      <4>2. d.exchanges = mFlow.exchanges /\ e.exchanges = mFlow.exchanges  BY <3>2
      <4>3. FlowUsable => [e EXCEPT !.exchanges = @ + 1] = k  BY <4>1, <4>2
      <4>4. \/ FlowUsable /\ mFlow' = [e EXCEPT !.exchanges = @ + 1]
            \/ mFlow' = f
        BY <2>4 DEF McpUseFlow
      <4> QED  BY <4>3, <4>4
    <3>6. d \in R /\ d.readers = mFlow.readers /\ d.state = "used"  BY <3>2
    <3> HIDE DEF d, f
    <3>7. e \in R /\ e.state = "used"  BY <3>1, <3>6
    <3> HIDE DEF e
    <3>8. k \in R /\ k.state = "used"  BY <3>7
    <3> HIDE DEF k
    <3> QED  BY <3>2, <3>3, <3>5, <3>8 DEF FlowOk, FlowTyped
  <2>5. CASE mFlow' = mFlow  BY <1>1, <2>5 DEF FlowOk, FlowTyped
  <2> QED  BY <2>1, <2>2, <2>3, <2>4, <2>5
<1> QED  BY <1>1, <1>2, <1>3, <1>4, <1>5, <1>6, <1>7, PlansDropped, PlansMove
-----------------------------------------------------------------------------
(* Plans.                                                                  *)

(* A plan is made under what the owner has reviewed. *)
LEMMA PreparedReview ==
    ASSUME McpIInv, NEW p \in Plans, McpPrepare(p) PROVE Reviewed(mConn)
<1>1. mConn \in ConnRec /\ ConnOk(mConn)  BY DEF McpIInv, McpTyped
<1>2. /\ mConn.allowed /\ (mConn.secured => mConn.auth = "valid")
      /\ mConn.auth # "refresh_failed"
  BY DEF McpPrepare
<1>3. CASE mConn.secured  BY <1>2, <1>3 DEF Reviewed
<1>4. CASE ~mConn.secured
  <2>1. ~mConn.oauth  BY <1>1, <1>4 DEF ConnOk
  <2>2. mConn.auth # "expired"  BY <1>1, <2>1 DEF ConnOk
  <2> QED  BY <1>2, <2>2 DEF Reviewed
<1> QED  BY <1>3, <1>4

(* A plan is prepared, approved or dropped, or its time runs out.          *)
LEMMA PlanStepInv ==
    ASSUME McpIInv, NEW p \in Plans, NEW b \in BOOLEAN,
           McpPrepare(p) \/ McpApprove(p, b) \/ McpPlanLate(p)
    PROVE  McpIInv'
<1>1. /\ McpTyped /\ FlowOk /\ McpRefreshOk /\ mPlan \in [Plans -> PlanRec]
      /\ mPolicy \in PolicyRec /\ mProbes \subseteq Nat /\ mBreaks \in Nat
      /\ mService \in {"open", "broken", "closed"} /\ mCancelled \subseteq Plans
      /\ mConn \in ConnRec /\ \A q \in Plans : PlanInv(q)
  BY DEF McpIInv, McpTyped
<1>2. UNCHANGED <<mConn, mDisk, mPolicy, mcpCallVars, mCancelled, mProbes, mRefresh, mFlow,
                  mService, mBreaks>>
  BY DEF McpPrepare, McpApprove, McpPlanLate, mcpAuthVars
<1>3. McpRefreshOk' /\ FlowOk'  BY <1>1, <1>2 DEF McpRefreshOk, FlowOk, FlowTyped
<1>4. \E x \in PlanRec : /\ mPlan' = [mPlan EXCEPT ![p] = x]
                         /\ x.state # "none" => Names(x) /\ mExec[p] # Forgotten
  <2>1. CASE McpPrepare(p)
    <3> DEFINE x == [state |-> "prepared", gen |-> mConn.gen, rev |-> mConn.rev, late |-> FALSE]
    <3>1. x \in PlanRec /\ x.rev = mConn.rev  BY <1>1 DEF PlanRec, ConnRec
    <3>2. mPlan' = [mPlan EXCEPT ![p] = x] /\ mExec[p] = NoExec  BY <2>1 DEF McpPrepare
    <3>3. Reviewed(mConn)  BY <2>1, PreparedReview
    <3>4. Names(x)
      <4>1. mConn.rev \in Nat  BY <1>1 DEF ConnRec
      <4> QED  BY <3>1, <3>3, <4>1 DEF Names
    <3>5. mExec[p] # Forgotten  BY <3>2 DEF NoExec, Forgotten
    <3> HIDE DEF x
    <3> QED  BY <3>1, <3>2, <3>4, <3>5
  <2>2. CASE McpApprove(p, b)
    <3> DEFINE y == [mPlan[p] EXCEPT !.state = "approved"]
    <3>1. mPlan[p] \in PlanRec /\ mPlan[p].state # "none"
      BY <1>1, <2>2 DEF McpApprove
    <3>2. y \in PlanRec /\ y.rev = mPlan[p].rev  BY <3>1 DEF PlanRec
    <3>3. Names(mPlan[p]) /\ mExec[p] # Forgotten  BY <1>1, <3>1 DEF PlanInv
    <3>4. Names(y)  BY <3>2, <3>3 DEF Names
    <3>5. mPlan' = [mPlan EXCEPT ![p] = IF mPlan[p].late \/ ~b THEN NoPlan ELSE y]
      BY <1>1, <2>2 DEF McpApprove
    <3>6. NoPlan \in PlanRec /\ NoPlan.state = "none"  BY DEF NoPlan, PlanRec
    <3> HIDE DEF y
    <3> QED  BY <3>2, <3>3, <3>4, <3>5, <3>6
  <2>3. CASE McpPlanLate(p)
    <3> DEFINE y == [mPlan[p] EXCEPT !.late = TRUE]
    <3>1. mPlan[p] \in PlanRec /\ mPlan[p].state # "none"
      BY <1>1, <2>3 DEF McpPlanLate
    <3>2. y \in PlanRec /\ y.rev = mPlan[p].rev  BY <3>1 DEF PlanRec
    <3>3. Names(mPlan[p]) /\ mExec[p] # Forgotten  BY <1>1, <3>1 DEF PlanInv
    <3>4. Names(y)  BY <3>2, <3>3 DEF Names
    <3>5. mPlan' = [mPlan EXCEPT ![p] = y]  BY <1>1, <2>3 DEF McpPlanLate
    <3> HIDE DEF y
    <3> QED  BY <3>2, <3>3, <3>4, <3>5
  <2> QED  BY <2>1, <2>2, <2>3
<1>5. /\ mPlan' \in [Plans -> PlanRec]
      /\ \A q \in Plans : mPlan'[q].state # "none" => Names(mPlan'[q]) /\ mExec[q] # Forgotten
  <2>1. PICK x \in PlanRec : /\ mPlan' = [mPlan EXCEPT ![p] = x]
                             /\ x.state # "none" => Names(x) /\ mExec[p] # Forgotten
    BY <1>4
  <2>2. mPlan' \in [Plans -> PlanRec] /\ mPlan'[p] = x
        /\ \A q \in Plans \ {p} : mPlan'[q] = mPlan[q]
    BY <1>1, <2>1
  <2>3. \A q \in Plans : mPlan[q].state # "none" => Names(mPlan[q]) /\ mExec[q] # Forgotten
    BY <1>1 DEF PlanInv
  <2> QED  BY <2>1, <2>2, <2>3
<1> QED  BY <1>1, <1>2, <1>3, <1>5, PlansMove

(* A token is about to expire: no revision changes, and nothing that was   *)
(* looked at.                                                              *)
LEMMA TokenDueInv == ASSUME McpIInv, McpTokenDue PROVE McpIInv'
<1>1. /\ McpTyped /\ ConnOk(mConn) /\ ConnOk(mDisk) /\ FlowOk /\ McpRefreshOk
      /\ \A p \in Plans : PlanInv(p) /\ McpExecInv(p)
      /\ mConn \in ConnRec /\ mDisk \in ConnRec
      /\ mDisk.gen <= mConn.gen /\ mDisk.rev <= mConn.rev
  BY DEF McpIInv, McpTyped
<1>2. /\ mConn' = [mConn EXCEPT !.due = TRUE] /\ mDisk' = [mDisk EXCEPT !.due = mDisk.oauth]
      /\ UNCHANGED <<mPolicy, mPlan, mExec, mRow, mCall, mAir, mWorld, mcpCallVars, mCancelled,
                     mProbes, mRefresh, mFlow, mService, mBreaks>>
  BY DEF McpTokenDue, mcpAuthVars, mcpCallVars
<1>3. /\ mConn' \in ConnRec /\ mConn'.gen = mConn.gen /\ mConn'.rev = mConn.rev
      /\ mConn'.oauth = mConn.oauth /\ mConn'.secured = mConn.secured
      /\ mConn'.auth = mConn.auth /\ mConn'.allowed = mConn.allowed
  BY <1>1, <1>2 DEF ConnRec
<1>4. /\ mDisk' \in ConnRec /\ mDisk'.gen = mDisk.gen /\ mDisk'.rev = mDisk.rev
      /\ mDisk'.oauth = mDisk.oauth /\ mDisk'.secured = mDisk.secured
      /\ mDisk'.auth = mDisk.auth
  BY <1>1, <1>2 DEF ConnRec
<1>5. ConnOk(mConn)' /\ ConnOk(mDisk)'  BY <1>1, <1>3, <1>4 DEF ConnOk
<1>6. FlowOk' /\ McpRefreshOk'
  BY <1>1, <1>2, <1>3 DEF FlowOk, FlowTyped, McpRefreshOk
<1>7. McpTyped'
  BY <1>1, <1>2, <1>3, <1>4 DEF McpTyped
<1>8. ASSUME NEW p \in Plans PROVE PlanInv(p)' /\ McpExecInv(p)'
  <2>1. McpExecInv(p)'  BY <1>1, <1>2, ExecKept
  <2>2. \A x : Names(x) => x.rev <= mConn'.rev /\ (x.rev = mConn'.rev => Reviewed(mConn'))
    BY <1>3 DEF Names, Reviewed
  <2> QED  BY <1>1, <1>2, <2>1, <2>2 DEF PlanInv, Names, Reviewed
<1> QED  BY <1>5, <1>6, <1>7, <1>8 DEF McpIInv

(* After a restart nothing is under way, and what was is said to be unknown. *)
LEMMA RestartInv == ASSUME McpIInv, McpRestart PROVE McpIInv'
<1>1. /\ McpTyped /\ ConnOk(mDisk) /\ FlowOk /\ mDisk \in ConnRec
      /\ \A p \in Plans : McpExecInv(p)
  BY DEF McpIInv, McpTyped
<1> DEFINE h == IF mDisk.desired = "enabled" THEN "stopped" ELSE mDisk.health
           U == [state |-> "unknown_outcome", side |-> "unknown"]
<1>2. /\ mRow' = [p \in Plans |-> IF mRow[p].state \in UnderWay THEN U ELSE mRow[p]]
      /\ mExec' = mRow' /\ mPlan' = [p \in Plans |-> NoPlan] /\ mCall' = [p \in Plans |-> NoCall]
      /\ mCancelled' = {} /\ mProbes' = {} /\ mRefresh' = NoRefresh /\ mService' = "open"
      /\ UNCHANGED <<mDisk, mAir, mWorld, mEdits>>
      /\ mPolicy' = [mPolicy EXCEPT !.on = mPolicy.saved.on, !.rev = mPolicy.saved.rev]
      /\ mConn' = [mDisk EXCEPT !.health = h]
      /\ mFlow' = [mFlow EXCEPT !.readers = 0, !.state = IF @ = "used" THEN "done" ELSE @]
      /\ mBreaks' \in {mBreaks, mBreaks + 1}
  BY DEF McpRestart
<1>3. /\ mConn' \in ConnRec /\ mConn'.gen = mDisk.gen /\ mConn'.rev = mDisk.rev
      /\ mConn'.oauth = mDisk.oauth /\ mConn'.secured = mDisk.secured /\ mConn'.auth = mDisk.auth
  <2>1. h \in {"stopped", "starting", "ready", "degraded"}  BY <1>1 DEF ConnRec
  <2> DEFINE c == [mDisk EXCEPT !.health = h]
  <2>2. mConn' = c /\ mDisk \in ConnRec  BY <1>1, <1>2
  <2> HIDE DEF h
  <2>3. /\ c \in ConnRec /\ c.gen = mDisk.gen /\ c.rev = mDisk.rev
        /\ c.oauth = mDisk.oauth /\ c.secured = mDisk.secured /\ c.auth = mDisk.auth
    BY <2>1, <2>2 DEF ConnRec
  <2> HIDE DEF c
  <2> QED  BY <2>2, <2>3
<1>4. ConnOk(mConn)' /\ ConnOk(mDisk)'  BY <1>1, <1>2, <1>3 DEF ConnOk
<1>5. FlowOk'
  <2> DEFINE f == [mFlow EXCEPT !.readers = 0]
             s == IF f.state = "used" THEN "done" ELSE f.state
             k == [f EXCEPT !.state = s]
  <2>1. FlowTyped /\ (mFlow.state \in {"none", "open"} => mFlow.exchanges = 0)
    BY <1>1 DEF FlowOk
  <2>2. /\ f \in [state : {"none", "open", "used", "done"}, gen : Nat, policy : Nat,
                 readers : 0 .. 2, exchanges : 0 .. 1]
        /\ f.state = mFlow.state /\ f.exchanges = mFlow.exchanges
    BY <2>1 DEF FlowTyped
  <2>3. mFlow' = k  BY <1>2, <2>1 DEF FlowTyped
  <2> HIDE DEF f
  <2>4. s \in {"none", "open", "done"} /\ (s # "done" => s = f.state)  BY <2>2
  <2> HIDE DEF s
  <2>5. /\ k \in [state : {"none", "open", "used", "done"}, gen : Nat, policy : Nat,
                 readers : 0 .. 2, exchanges : 0 .. 1]
        /\ k.state = s /\ k.exchanges = f.exchanges
    BY <2>2, <2>4
  <2> HIDE DEF k
  <2> QED  BY <2>1, <2>2, <2>3, <2>4, <2>5 DEF FlowOk, FlowTyped
<1>6. NoPlan \in PlanRec /\ NoPlan.state = "none" /\ NoCall \in CallRec /\ NoCall.pc = "none"
      /\ NoRefresh \in [gen : Nat, policy : Nat] /\ NoRefresh.gen = 0
  BY DEF NoPlan, PlanRec, NoCall, CallRec, NoRefresh
<1>7. McpRefreshOk'
  <2>1. mConn'.gen \in Nat  BY <1>3 DEF ConnRec
  <2> QED  BY <1>2, <1>6, <2>1 DEF McpRefreshOk
<1>8. U \in McpExecRec /\ U # NoExec /\ U # Forgotten /\ U.side = "unknown"
  BY DEF McpExecRec, EndStates, Sides, NoExec, Forgotten
<1>9. /\ NoExec.state \notin UnderWay /\ Forgotten.state \notin UnderWay
      /\ NoExec # Forgotten
  BY DEF NoExec, Forgotten, UnderWay
<1> HIDE DEF U, h
<1>10. McpTyped'
  <2>1. mRow' \in [Plans -> McpExecRec]  BY <1>1, <1>2, <1>8 DEF McpTyped
  <2>2. mDisk'.gen <= mConn'.gen /\ mDisk'.rev <= mConn'.rev
    BY <1>1, <1>2, <1>3 DEF ConnRec
  <2>3. mBreaks' \in Nat  BY <1>1, <1>2 DEF McpTyped
  <2>4. mPolicy' \in PolicyRec
    <3>1. mPolicy \in PolicyRec  BY <1>1 DEF McpTyped
    <3>2. mPolicy' = [on |-> mPolicy.saved.on, rev |-> mPolicy.saved.rev, saved |-> mPolicy.saved]
      BY <1>2, <3>1 DEF PolicyRec
    <3> QED  BY <3>1, <3>2 DEF PolicyRec
  <2> QED  BY <1>1, <1>2, <1>3, <1>6, <2>1, <2>2, <2>3, <2>4 DEF McpTyped
<1>11. ASSUME NEW p \in Plans PROVE PlanInv(p)' /\ McpExecInv(p)'
  <2>1. mPlan'[p].state = "none" /\ mCall'[p].pc = "none"  BY <1>2, <1>6
  <2>2. mExec'[p] = mRow'[p] /\ mRow'[p] = IF mRow[p].state \in UnderWay THEN U ELSE mRow[p]
    BY <1>2
  <2>3. Quiet(p)' = Quiet(p) /\ mWorld'[p] = mWorld[p] /\ mAir' = mAir  BY <1>2 DEF Quiet
  <2>4. mRow'[p] = NoExec => Quiet(p)'
    BY <1>1, <1>8, <1>9, <2>2, <2>3 DEF McpExecInv
  <2>5. TrueOf(p, mRow[p])'  BY <1>1, <1>8, <2>2, <2>3 DEF McpExecInv, TrueOf
  <2>6. TrueOf(p, mExec[p])'  BY <2>2, <2>5 DEF TrueOf
  <2>7. PlanInv(p)'  BY <2>1 DEF PlanInv
  <2>8. McpExecInv(p)'  BY <1>1, <2>1, <2>2, <2>3, <2>4, <2>5, <2>6 DEF McpExecInv
  <2> QED  BY <2>7, <2>8
<1> QED  BY <1>4, <1>5, <1>7, <1>10, <1>11 DEF McpIInv
-----------------------------------------------------------------------------
(* Calls.                                                                  *)

(* A step about the execution of one plan. *)
LEMMA McpCallStep ==
    ASSUME McpIInv, NEW p \in Plans,
           UNCHANGED <<mConn, mDisk, mPolicy, mProbes, mRefresh, mFlow>>,
           mExec' \in [Plans -> McpExecRec], mRow' \in [Plans -> McpExecRec],
           mCall' \in [Plans -> CallRec], mPlan' \in [Plans -> PlanRec],
           mWorld' \in [Plans -> Nat], mAir' \subseteq Plans,
           \A q \in Plans \ {p} :
              /\ mExec'[q] = mExec[q] /\ mRow'[q] = mRow[q] /\ mCall'[q] = mCall[q]
              /\ mPlan'[q] = mPlan[q] /\ mWorld'[q] = mWorld[q]
              /\ q \in mAir' <=> q \in mAir,
           mCancelled' \subseteq Plans, mService' \in {"open", "broken", "closed"},
           mBreaks' \in Nat, PlanInv(p)', McpExecInv(p)'
    PROVE  McpIInv'
<1>1. /\ McpTyped /\ ConnOk(mConn) /\ ConnOk(mDisk) /\ FlowOk /\ McpRefreshOk
      /\ \A q \in Plans : PlanInv(q) /\ McpExecInv(q)
  BY DEF McpIInv
<1>2. ConnOk(mConn)' /\ ConnOk(mDisk)' /\ FlowOk' /\ McpRefreshOk'
  BY <1>1 DEF ConnOk, FlowOk, FlowTyped, McpRefreshOk
<1>3. McpTyped'  BY <1>1 DEF McpTyped
<1>4. ASSUME NEW q \in Plans, q # p PROVE PlanInv(q)' /\ McpExecInv(q)'
  <2>1. /\ mExec'[q] = mExec[q] /\ mRow'[q] = mRow[q] /\ mCall'[q] = mCall[q]
        /\ mPlan'[q] = mPlan[q] /\ mWorld'[q] = mWorld[q] /\ (q \in mAir' <=> q \in mAir)
    BY <1>4
  <2>2. PlanInv(q) /\ McpExecInv(q)  BY <1>1
  <2>3. PlanInv(q)'  BY <2>1, <2>2 DEF PlanInv, Names
  <2>4. Quiet(q)' = Quiet(q)  BY <2>1 DEF Quiet
  <2>5. TrueOf(q, mExec[q])' /\ TrueOf(q, mRow[q])'
    BY <2>1, <2>2, <2>4 DEF McpExecInv, TrueOf
  <2> QED  BY <2>1, <2>2, <2>3, <2>4, <2>5 DEF McpExecInv
<1> QED  BY <1>2, <1>3, <1>4 DEF McpIInv

(* An execution is saved, in memory at least.                              *)
LEMMA ExecSaved ==
    ASSUME McpTyped, NEW p \in Plans, NEW x \in McpExecRec, SaveExec(p, x)
    PROVE  /\ mExec' \in [Plans -> McpExecRec] /\ mRow' \in [Plans -> McpExecRec]
           /\ mExec'[p] = x /\ (mRow'[p] = x \/ (mRow'[p] = mRow[p] /\ WriteFailed))
           /\ \A q \in Plans \ {p} : mExec'[q] = mExec[q] /\ mRow'[q] = mRow[q]
           /\ mService' \in {"open", "broken", "closed"} /\ mBreaks' \in Nat
BY DEF McpTyped, SaveExec, WriteWorks, WriteFails, WriteFailed

(* An approved plan is carried out: its execution is its first.            *)
LEMMA ExecuteInv == ASSUME McpIInv, NEW p \in Plans, McpExecute(p) PROVE McpIInv'
<1>1. /\ McpTyped /\ PlanInv(p) /\ McpExecInv(p)
      /\ mExec \in [Plans -> McpExecRec] /\ mRow \in [Plans -> McpExecRec]
      /\ mCall \in [Plans -> CallRec] /\ mPlan \in [Plans -> PlanRec]
      /\ mWorld \in [Plans -> Nat] /\ mAir \subseteq Plans /\ mBreaks \in Nat
      /\ mService \in {"open", "broken", "closed"}
  BY DEF McpIInv, McpTyped
<1>2. /\ mPlan[p].state = "approved" /\ mExec[p] \in {NoExec, Forgotten}
      /\ Cancels({})
      /\ UNCHANGED <<mConn, mDisk, mPolicy, mAir, mWorld, mProbes, mRefresh, mFlow>>
  BY DEF McpExecute, McpUnused, mcpAuthVars
<1>3. Names(mPlan[p]) /\ mExec[p] = NoExec /\ Quiet(p)
  BY <1>1, <1>2 DEF PlanInv, McpExecInv
<1>4. mCancelled' \subseteq Plans  BY <1>1, <1>2, Cancelled
<1> DEFINE x == [state |-> "running", side |-> "not_started"]
           k == [pc |-> "invoke", gen |-> mPlan[p].gen, rev |-> mPlan[p].rev]
           n == [mPlan[p] EXCEPT !.state = "consumed"]
<1>5. /\ x \in McpExecRec /\ x # NoExec /\ x # Forgotten /\ x.state \in UnderWay
      /\ x.side = "not_started"
  BY DEF McpExecRec, UnderWay, Sides, NoExec, Forgotten
<1>6. mPlan[p] \in PlanRec  BY <1>1
<1>7. k \in CallRec /\ k.pc = "invoke" /\ k.rev = mPlan[p].rev  BY <1>6 DEF CallRec, PlanRec
<1>8. n \in PlanRec /\ n.rev = mPlan[p].rev  BY <1>6 DEF PlanRec
<1>9. CASE /\ WriteWorks
           /\ mExec' = [mExec EXCEPT ![p] = x] /\ mRow' = [mRow EXCEPT ![p] = x]
           /\ mCall' = [mCall EXCEPT ![p] = k] /\ mPlan' = [mPlan EXCEPT ![p].state = "consumed"]
  <2>1. mPlan' = [mPlan EXCEPT ![p] = n]  BY <1>1, <1>9
  <2> HIDE DEF x, k, n
  <2>2. /\ mExec' \in [Plans -> McpExecRec] /\ mRow' \in [Plans -> McpExecRec]
        /\ mCall' \in [Plans -> CallRec] /\ mPlan' \in [Plans -> PlanRec]
        /\ mExec'[p] = x /\ mRow'[p] = x /\ mCall'[p] = k /\ mPlan'[p] = n
        /\ \A q \in Plans \ {p} :
              /\ mExec'[q] = mExec[q] /\ mRow'[q] = mRow[q] /\ mCall'[q] = mCall[q]
              /\ mPlan'[q] = mPlan[q]
    BY <1>1, <1>5, <1>7, <1>8, <1>9, <2>1
  <2>3. mWorld' = mWorld /\ mAir' = mAir /\ mBreaks' = mBreaks /\ mService' = mService
    BY <1>2, <1>9 DEF WriteWorks
  <2>4. Names(mPlan[p])' /\ Names(mCall[p])'
    <3>1. mConn' = mConn  BY <1>2
    <3>2. mPlan'[p].rev = mPlan[p].rev /\ mCall'[p].rev = mPlan[p].rev
      BY <1>7, <1>8, <2>2
    <3> QED  BY <1>3, <3>1, <3>2 DEF Names
  <2>5. PlanInv(p)'  BY <1>5, <2>2, <2>4 DEF PlanInv
  <2>6. Quiet(p)'  BY <1>3, <2>3 DEF Quiet
  <2>7. TrueOf(p, mExec[p])' /\ TrueOf(p, mRow[p])'
    <3>1. x.side # "provider_reported_complete"  BY <1>5
    <3> QED  BY <2>2, <2>6, <3>1 DEF TrueOf
  <2>8. McpExecInv(p)'  BY <1>5, <1>7, <2>2, <2>6, <2>7 DEF McpExecInv, Quiet
  <2> QED  BY <1>1, <1>2, <1>4, <2>2, <2>3, <2>5, <2>8, McpCallStep
<1>10. CASE WriteFails /\ UNCHANGED <<mExec, mRow, mCall, mPlan>>
  <2>1. mBreaks' \in Nat /\ mService' \in {"open", "broken", "closed"}
    BY <1>1, <1>10 DEF WriteFails
  <2>2. PlanInv(p)'  BY <1>1, <1>2, <1>10 DEF PlanInv, Names
  <2>3. McpExecInv(p)'
    <3>1. UNCHANGED mcpCallVars  BY <1>2, <1>10 DEF mcpCallVars
    <3> QED  BY <1>1, <3>1, ExecKept
  <2> QED  BY <1>1, <1>2, <1>4, <1>10, <2>1, <2>2, <2>3, McpCallStep
<1> QED  BY <1>9, <1>10 DEF McpExecute

(* The callback: what is sent is recorded first.                           *)
LEMMA BeforeInv == ASSUME McpIInv, NEW p \in Plans, McpBefore(p) PROVE McpIInv'
<1>1. /\ McpTyped /\ PlanInv(p) /\ McpExecInv(p)
      /\ mExec \in [Plans -> McpExecRec] /\ mRow \in [Plans -> McpExecRec]
      /\ mCall \in [Plans -> CallRec] /\ mPlan \in [Plans -> PlanRec]
      /\ mWorld \in [Plans -> Nat] /\ mAir \subseteq Plans /\ mBreaks \in Nat
      /\ mService \in {"open", "broken", "closed"} /\ mCancelled \subseteq Plans
  BY DEF McpIInv, McpTyped
<1>2. /\ mCall[p].pc = "invoke"
      /\ UNCHANGED <<mConn, mDisk, mPolicy, mPlan, mWorld, mProbes, mRefresh, mFlow>>
  BY DEF McpBefore, mcpAuthVars
<1>3. /\ Names(mCall[p]) /\ mExec[p].state \in UnderWay /\ mExec[p].side = "not_started"
      /\ Quiet(p)
  BY <1>1, <1>2 DEF PlanInv, McpExecInv, TrueOf
<1>4. ASSUME NEW s \in {"sent", "error"}
      PROVE  LET k == [mCall[p] EXCEPT !.pc = s] IN
             k \in CallRec /\ k.pc = s /\ k.rev = mCall[p].rev
  <2>1. mCall[p] \in CallRec  BY <1>1
  <2> QED  BY <2>1 DEF CallRec
<1>5. ASSUME NEW k \in CallRec, mCall' = [mCall EXCEPT ![p] = k], k.rev = mCall[p].rev,
             mExec'[p] # Forgotten
      PROVE  /\ mCall' \in [Plans -> CallRec] /\ mCall'[p] = k
             /\ \A q \in Plans \ {p} : mCall'[q] = mCall[q]
             /\ PlanInv(p)'
  <2>1. mCall' \in [Plans -> CallRec] /\ mCall'[p] = k
        /\ \A q \in Plans \ {p} : mCall'[q] = mCall[q]
    BY <1>1, <1>5
  <2>2. mConn' = mConn /\ mPlan' = mPlan  BY <1>2
  <2>3. Names(mCall[p])'  BY <1>3, <1>5, <2>1, <2>2 DEF Names
  <2>4. mPlan'[p].state # "none" => Names(mPlan[p])'  BY <1>1, <2>2 DEF PlanInv, Names
  <2> QED  BY <1>5, <2>1, <2>3, <2>4 DEF PlanInv
<1> DEFINE x == [state |-> "dispatching", side |-> "possible"]
<1>6. /\ x \in McpExecRec /\ x # NoExec /\ x # Forgotten /\ x.state \in UnderWay
      /\ x.side = "possible"
  BY DEF McpExecRec, UnderWay, Sides, NoExec, Forgotten
<1>7. CASE /\ SaveExec(p, x)
           /\ mCall' = [mCall EXCEPT ![p].pc = IF WriteFailed THEN "error" ELSE "sent"]
           /\ mAir' = IF WriteFailed THEN mAir ELSE mAir \union {p}
           /\ Cancels({})
  <2> DEFINE s == IF WriteFailed THEN "error" ELSE "sent"
             k == [mCall[p] EXCEPT !.pc = s]
  <2>0. mCall' = [mCall EXCEPT ![p] = k]  BY <1>1, <1>7
  <2>1. s \in {"sent", "error"} /\ (s = "sent" <=> ~WriteFailed)  OBVIOUS
  <2> HIDE DEF s, x
  <2>2. k \in CallRec /\ k.pc = s /\ k.rev = mCall[p].rev  BY <1>4, <2>1
  <2> HIDE DEF k
  <2>3. /\ mExec' \in [Plans -> McpExecRec] /\ mRow' \in [Plans -> McpExecRec]
        /\ mExec'[p] = x /\ (mRow'[p] = x \/ (mRow'[p] = mRow[p] /\ WriteFailed))
        /\ \A q \in Plans \ {p} : mExec'[q] = mExec[q] /\ mRow'[q] = mRow[q]
        /\ mService' \in {"open", "broken", "closed"} /\ mBreaks' \in Nat
    BY <1>1, <1>6, <1>7, ExecSaved
  <2>4. /\ mCall' \in [Plans -> CallRec] /\ mCall'[p] = k
        /\ \A q \in Plans \ {p} : mCall'[q] = mCall[q]
        /\ PlanInv(p)'
    BY <1>5, <1>6, <2>0, <2>2, <2>3
  <2>5. mCancelled' \subseteq Plans  BY <1>1, <1>7, Cancelled
  <2>6. mWorld' = mWorld /\ mWorld'[p] = 0  BY <1>2, <1>3 DEF Quiet
  <2>7. /\ mAir' \subseteq Plans /\ \A q \in Plans \ {p} : q \in mAir' <=> q \in mAir
        /\ (WriteFailed => p \notin mAir') /\ (~WriteFailed => p \in mAir')
    BY <1>1, <1>3, <1>7 DEF Quiet
  <2>8. McpExecInv(p)'
    <3>1. mRow[p] # NoExec /\ mRow[p] # Forgotten
      <4>1. mExec[p] # NoExec /\ mExec[p] # Forgotten
        BY <1>3 DEF NoExec, Forgotten, UnderWay
      <4> QED  BY <1>1, <4>1 DEF McpExecInv
    <3>2. TrueOf(p, mExec[p])'  BY <1>6, <2>3 DEF TrueOf
    <3>3. TrueOf(p, mRow[p])'
      <4>1. CASE mRow'[p] = x  BY <1>6, <4>1 DEF TrueOf
      <4>2. CASE mRow'[p] = mRow[p] /\ WriteFailed
        <5>1. Quiet(p)'  BY <2>6, <2>7, <4>2 DEF Quiet
        <5>2. mRow[p].side # "provider_reported_complete"
          BY <1>1, <1>3 DEF McpExecInv, TrueOf, Quiet
        <5> QED  BY <4>2, <5>1, <5>2 DEF TrueOf
      <4> QED  BY <2>3, <4>1, <4>2
    <3>4. mCall'[p].pc = s  BY <2>2, <2>4
    <3> QED  BY <1>6, <2>1, <2>3, <2>6, <2>7, <3>1, <3>2, <3>3, <3>4 DEF McpExecInv
  <2> QED  BY <1>1, <1>2, <2>3, <2>4, <2>5, <2>6, <2>7, <2>8, McpCallStep
<1>8. CASE /\ mCall' = [mCall EXCEPT ![p].pc = "error"]
           /\ UNCHANGED <<mExec, mRow, mAir, mCancelled, mService, mBreaks>>
  <2> DEFINE k == [mCall[p] EXCEPT !.pc = "error"]
  <2>0. mCall' = [mCall EXCEPT ![p] = k]  BY <1>1, <1>8
  <2>1. k \in CallRec /\ k.pc = "error" /\ k.rev = mCall[p].rev  BY <1>4
  <2> HIDE DEF k
  <2>2. mExec'[p] # Forgotten  BY <1>3, <1>8 DEF Forgotten, UnderWay
  <2>3. /\ mCall' \in [Plans -> CallRec] /\ mCall'[p] = k
        /\ \A q \in Plans \ {p} : mCall'[q] = mCall[q]
        /\ PlanInv(p)'
    BY <1>5, <2>0, <2>1, <2>2
  <2>4. /\ mExec' = mExec /\ mRow' = mRow /\ mAir' = mAir /\ mWorld' = mWorld /\ mPlan' = mPlan
        /\ UNCHANGED <<mCancelled, mService, mBreaks>>
    BY <1>2, <1>8
  <2>5. McpExecInv(p)'
    <3>1. TrueOf(p, mExec[p])' /\ TrueOf(p, mRow[p])' /\ Quiet(p)' = Quiet(p)
      BY <1>1, <2>4 DEF McpExecInv, TrueOf, Quiet
    <3>2. mCall'[p].pc = "error"  BY <2>1, <2>3
    <3> QED  BY <1>1, <1>3, <2>4, <3>1, <3>2 DEF McpExecInv
  <2> QED  BY <1>1, <1>2, <2>3, <2>4, <2>5, McpCallStep
<1> QED  BY <1>7, <1>8 DEF McpBefore

(* The server carries a call out: for the first time.                      *)
LEMMA TakesEffectInv == ASSUME McpIInv, NEW p \in Plans, McpTakesEffect(p) PROVE McpIInv'
<1>1. /\ McpTyped /\ PlanInv(p) /\ McpExecInv(p)
      /\ mExec \in [Plans -> McpExecRec] /\ mRow \in [Plans -> McpExecRec]
      /\ mCall \in [Plans -> CallRec] /\ mPlan \in [Plans -> PlanRec]
      /\ mWorld \in [Plans -> Nat] /\ mAir \subseteq Plans /\ mBreaks \in Nat
      /\ mService \in {"open", "broken", "closed"} /\ mCancelled \subseteq Plans
  BY DEF McpIInv, McpTyped
<1>2. /\ p \in mAir /\ mAir' = mAir \ {p} /\ mWorld' = [mWorld EXCEPT ![p] = @ + 1]
      /\ UNCHANGED <<mConn, mDisk, mPolicy, mPlan, mExec, mRow, mCall, mCancelled, mProbes,
                     mRefresh, mFlow, mService, mBreaks>>
  BY DEF McpTakesEffect, mcpAuthVars
<1>3. mWorld[p] = 0  BY <1>1, <1>2 DEF McpExecInv
<1>4. /\ mWorld' \in [Plans -> Nat] /\ mWorld'[p] = 1
      /\ \A q \in Plans \ {p} : mWorld'[q] = mWorld[q] /\ (q \in mAir' <=> q \in mAir)
  BY <1>1, <1>2, <1>3
<1>5. PlanInv(p)'  BY <1>1, <1>2 DEF PlanInv, Names
<1>6. McpExecInv(p)'
  <2>1. ~Quiet(p) /\ p \notin mAir'  BY <1>2 DEF Quiet
  <2>2. mExec[p] # NoExec /\ mExec[p].side # "not_started" /\ mRow[p].side # "not_started"
    BY <1>1, <2>1 DEF McpExecInv, TrueOf
  <2>3. TrueOf(p, mExec[p])' /\ TrueOf(p, mRow[p])'
    BY <1>2, <1>4, <2>2 DEF TrueOf
  <2>4. /\ mExec'[p] = mExec[p] /\ mRow'[p] = mRow[p] /\ mCall'[p] = mCall[p]
    BY <1>2
  <2> QED  BY <1>1, <1>4, <2>1, <2>2, <2>3, <2>4 DEF McpExecInv
<1> QED  BY <1>1, <1>2, <1>4, <1>5, <1>6, McpCallStep

(* Invoke returns.                                                         *)
LEMMA ReturnsInv ==
    ASSUME McpIInv, NEW p \in Plans, NEW result \in {"ok", "tool_error", "error"},
           McpReturns(p, result)
    PROVE  McpIInv'
<1>1. /\ McpTyped /\ PlanInv(p) /\ McpExecInv(p)
      /\ mExec \in [Plans -> McpExecRec] /\ mRow \in [Plans -> McpExecRec]
      /\ mCall \in [Plans -> CallRec] /\ mPlan \in [Plans -> PlanRec]
      /\ mWorld \in [Plans -> Nat] /\ mAir \subseteq Plans /\ mBreaks \in Nat
      /\ mService \in {"open", "broken", "closed"} /\ mCancelled \subseteq Plans
  BY DEF McpIInv, McpTyped
<1> DEFINE k == [mCall[p] EXCEPT !.pc = result]
<1>2. /\ mCall' = [mCall EXCEPT ![p] = k]
      /\ \/ mCall[p].pc \in {"invoke", "sent"} /\ result = "error"
         \/ mCall[p].pc = "sent" /\ p \notin mAir /\ result \in {"ok", "tool_error"}
      /\ UNCHANGED <<mConn, mDisk, mPolicy, mPlan, mExec, mRow, mAir, mWorld, mCancelled,
                     mProbes, mRefresh, mFlow, mService, mBreaks>>
  BY <1>1 DEF McpReturns, mcpAuthVars
<1>3. k \in CallRec /\ k.pc = result /\ k.rev = mCall[p].rev
  <2>1. mCall[p] \in CallRec  BY <1>1
  <2> QED  BY <2>1 DEF CallRec
<1> HIDE DEF k
<1>4. /\ mCall' \in [Plans -> CallRec] /\ mCall'[p] = k
      /\ \A q \in Plans \ {p} : mCall'[q] = mCall[q]
  BY <1>1, <1>2, <1>3
<1>5. /\ mExec' = mExec /\ mRow' = mRow /\ mAir' = mAir /\ mWorld' = mWorld /\ mPlan' = mPlan
      /\ mConn' = mConn
  BY <1>2
<1>6. mCall[p].pc # "none" /\ mCall'[p].pc = result /\ mCall'[p].rev = mCall[p].rev
  BY <1>2, <1>3, <1>4
<1>7. PlanInv(p)'  BY <1>1, <1>5, <1>6 DEF PlanInv, Names
<1>8. McpExecInv(p)'
  <2>1. TrueOf(p, mExec[p])' /\ TrueOf(p, mRow[p])' /\ Quiet(p)' = Quiet(p)
    BY <1>1, <1>5 DEF McpExecInv, TrueOf, Quiet
  <2> QED  BY <1>1, <1>2, <1>5, <1>6, <2>1 DEF McpExecInv
<1> QED  BY <1>1, <1>2, <1>4, <1>5, <1>7, <1>8, McpCallStep

(* The outcome of a call is a true record of it.                           *)
LEMMA OutcomeTrue ==
    ASSUME McpIInv, NEW p \in Plans, mCall[p].pc \in {"ok", "tool_error", "error"},
           NEW x \in Outcome(p)
    PROVE  x \in McpExecRec /\ x # NoExec /\ x # Forgotten /\ TrueOf(p, x)
<1>1. McpExecInv(p)  BY DEF McpIInv
<1>2. CASE x = [state |-> "failed", side |-> "not_started"] /\ mExec[p].side = "not_started"
  <2>1. Quiet(p)  BY <1>1, <1>2 DEF McpExecInv, TrueOf
  <2> QED  BY <1>2, <2>1 DEF McpExecRec, EndStates, Sides, NoExec, Forgotten, TrueOf
<1>3. CASE x = [state |-> "unknown_outcome", side |-> "unknown"]
  BY <1>3 DEF McpExecRec, EndStates, Sides, NoExec, Forgotten, TrueOf
<1>4. CASE \E s \in {"failed", "result_unavailable"} : x = [state |-> s, side |-> "possible"]
  BY <1>4 DEF McpExecRec, EndStates, Sides, NoExec, Forgotten, TrueOf
<1>5. CASE /\ mCall[p].pc = "ok"
           /\ \E s \in {"succeeded", "result_unavailable"} :
                 x = [state |-> s, side |-> "provider_reported_complete"]
  <2>1. mWorld[p] = 1  BY <1>1, <1>5 DEF McpExecInv
  <2> QED  BY <1>5, <2>1 DEF McpExecRec, EndStates, Sides, NoExec, Forgotten, TrueOf
<1> QED  BY <1>2, <1>3, <1>4, <1>5 DEF Outcome

(* A call's outcome is recorded; the owner cancels one under way.          *)
LEMMA RecordInv ==
    ASSUME McpIInv, NEW p \in Plans, McpFinish(p) \/ McpCancel(p) PROVE McpIInv'
<1>1. /\ McpTyped /\ PlanInv(p) /\ McpExecInv(p)
      /\ mExec \in [Plans -> McpExecRec] /\ mRow \in [Plans -> McpExecRec]
      /\ mCall \in [Plans -> CallRec] /\ mPlan \in [Plans -> PlanRec]
      /\ mWorld \in [Plans -> Nat] /\ mAir \subseteq Plans /\ mBreaks \in Nat
      /\ mService \in {"open", "broken", "closed"} /\ mCancelled \subseteq Plans
  BY DEF McpIInv, McpTyped
<1>2. /\ mCall[p].pc # "none"
      /\ UNCHANGED <<mConn, mDisk, mPolicy, mPlan, mAir, mWorld, mProbes, mRefresh, mFlow>>
  BY DEF McpFinish, McpCancel, mcpAuthVars
<1>3. mExec[p] # NoExec /\ mExec[p] # Forgotten /\ mRow[p] # NoExec /\ mRow[p] # Forgotten
  <2>1. mExec[p].state \in UnderWay  BY <1>1, <1>2 DEF McpExecInv
  <2>2. mExec[p] # NoExec /\ mExec[p] # Forgotten  BY <2>1 DEF NoExec, Forgotten, UnderWay
  <2> QED  BY <1>1, <2>2 DEF McpExecInv
<1>4. ASSUME NEW x \in McpExecRec, x # NoExec, x # Forgotten, TrueOf(p, x), SaveExec(p, x),
             NEW k \in CallRec, mCall' = [mCall EXCEPT ![p] = k],
             \/ k.pc = "none"
             \/ k = mCall[p] /\ x.side = mExec[p].side /\ x.state \in UnderWay,
             mCancelled' \subseteq Plans
      PROVE  McpIInv'
  <2>1. /\ mExec' \in [Plans -> McpExecRec] /\ mRow' \in [Plans -> McpExecRec]
        /\ mExec'[p] = x /\ (mRow'[p] = x \/ mRow'[p] = mRow[p])
        /\ \A q \in Plans \ {p} : mExec'[q] = mExec[q] /\ mRow'[q] = mRow[q]
        /\ mService' \in {"open", "broken", "closed"} /\ mBreaks' \in Nat
    BY <1>1, <1>4, ExecSaved
  <2>2. /\ mCall' \in [Plans -> CallRec] /\ mCall'[p] = k
        /\ \A q \in Plans \ {p} : mCall'[q] = mCall[q]
    BY <1>1, <1>4
  <2>3. PlanInv(p)'
    <3>1. mConn' = mConn /\ mPlan' = mPlan  BY <1>2
    <3>2. mPlan'[p].state # "none" => Names(mPlan[p])'
      BY <1>1, <3>1 DEF PlanInv, Names
    <3>3. mCall'[p].pc # "none" => Names(mCall[p])'
      BY <1>1, <1>4, <2>2, <3>1 DEF PlanInv, Names
    <3> QED  BY <1>4, <2>1, <3>2, <3>3 DEF PlanInv
  <2>4. mAir' = mAir /\ mWorld' = mWorld  BY <1>2
  <2>5. TrueOf(p, x) /\ TrueOf(p, mRow[p])  BY <1>1, <1>4 DEF McpExecInv
  <2>6. TrueOf(p, mExec[p])' /\ TrueOf(p, mRow[p])'
    BY <2>1, <2>4, <2>5 DEF TrueOf, Quiet
  <2>7. mRow'[p] # NoExec /\ mRow'[p] # Forgotten  BY <1>3, <1>4, <2>1
  <2>8. McpExecInv(p)'
    BY <1>1, <1>4, <2>1, <2>2, <2>4, <2>6, <2>7 DEF McpExecInv
  <2> QED  BY <1>1, <1>2, <1>4, <2>1, <2>2, <2>3, <2>4, <2>8, McpCallStep
<1>5. CASE McpFinish(p)
  <2>1. PICK x \in Outcome(p) : SaveExec(p, x)  BY <1>5 DEF McpFinish
  <2>2. /\ mCall[p].pc \in {"ok", "tool_error", "error"}
        /\ mCall' = [mCall EXCEPT ![p] = NoCall] /\ Cancels({})
    BY <1>5 DEF McpFinish
  <2>3. x \in McpExecRec /\ x # NoExec /\ x # Forgotten /\ TrueOf(p, x)  BY <2>2, OutcomeTrue
  <2>4. NoCall \in CallRec /\ NoCall.pc = "none"  BY DEF NoCall, CallRec
  <2>5. mCancelled' \subseteq Plans  BY <1>1, <2>2, Cancelled
  <2> QED  BY <1>4, <2>1, <2>2, <2>3, <2>4, <2>5
<1>6. CASE McpCancel(p)
  <2> DEFINE x == [mExec[p] EXCEPT !.state = "cancel_requested"]
             k == mCall[p]
  <2>1. SaveExec(p, x) /\ Cancels({p}) /\ mCall' = mCall  BY <1>6 DEF McpCancel
  <2>2. mExec[p] \in [state : UnderWay \union EndStates, side : Sides]
    BY <1>1, <1>3 DEF McpExecRec
  <2>3. /\ x \in [state : UnderWay \union EndStates, side : Sides]
        /\ x.state = "cancel_requested" /\ x.side = mExec[p].side
    BY <2>2 DEF UnderWay
  <2>4. x \in McpExecRec /\ x # NoExec /\ x # Forgotten /\ x.state \in UnderWay
    BY <2>3 DEF McpExecRec, NoExec, Forgotten, UnderWay
  <2>5. TrueOf(p, x)  BY <1>1, <2>3 DEF McpExecInv, TrueOf
  <2>6. mCancelled' \subseteq Plans  BY <1>1, <2>1, Cancelled
  <2>7. k \in CallRec /\ mCall' = [mCall EXCEPT ![p] = k]  BY <1>1, <2>1
  <2>8. k = mCall[p]  OBVIOUS
  <2> HIDE DEF x, k
  <2> QED  BY <1>4, <2>1, <2>3, <2>4, <2>5, <2>6, <2>7, <2>8
<1> QED  BY <1>5, <1>6

(* A month later the execution is deleted, and its plan with it.           *)
LEMMA ForgetInv == ASSUME McpIInv, NEW p \in Plans, McpForget(p) PROVE McpIInv'
<1>1. /\ McpTyped /\ PlanInv(p) /\ McpExecInv(p)
      /\ mExec \in [Plans -> McpExecRec] /\ mRow \in [Plans -> McpExecRec]
      /\ mCall \in [Plans -> CallRec] /\ mPlan \in [Plans -> PlanRec]
      /\ mWorld \in [Plans -> Nat] /\ mAir \subseteq Plans /\ mBreaks \in Nat
      /\ mService \in {"open", "broken", "closed"} /\ mCancelled \subseteq Plans
  BY DEF McpIInv, McpTyped
<1>2. /\ mCall[p].pc = "none"
      /\ mExec' = [mExec EXCEPT ![p] = Forgotten] /\ mRow' = [mRow EXCEPT ![p] = Forgotten]
      /\ mPlan' = [mPlan EXCEPT ![p] = NoPlan]
      /\ UNCHANGED <<mConn, mDisk, mPolicy, mCall, mCancelled, mAir, mWorld, mProbes, mRefresh,
                     mFlow, mService, mBreaks>>
  BY DEF McpForget, mcpAuthVars
<1>3. /\ Forgotten \in McpExecRec /\ Forgotten # NoExec /\ Forgotten.side = "none"
      /\ NoPlan \in PlanRec /\ NoPlan.state = "none"
  BY DEF McpExecRec, Forgotten, NoExec, NoPlan, PlanRec
<1>4. /\ mExec' \in [Plans -> McpExecRec] /\ mRow' \in [Plans -> McpExecRec]
      /\ mPlan' \in [Plans -> PlanRec]
      /\ mExec'[p] = Forgotten /\ mRow'[p] = Forgotten /\ mPlan'[p] = NoPlan
      /\ \A q \in Plans \ {p} :
            mExec'[q] = mExec[q] /\ mRow'[q] = mRow[q] /\ mPlan'[q] = mPlan[q]
  BY <1>1, <1>2, <1>3
<1>5. PlanInv(p)'  BY <1>2, <1>3, <1>4 DEF PlanInv
<1>6. TrueOf(p, mExec[p])' /\ TrueOf(p, mRow[p])'  BY <1>3, <1>4 DEF TrueOf
<1>7. mAir' = mAir /\ mWorld' = mWorld /\ mCall' = mCall  BY <1>2
<1>8. McpExecInv(p)'  BY <1>1, <1>2, <1>3, <1>4, <1>6, <1>7 DEF McpExecInv
<1> QED  BY <1>1, <1>2, <1>4, <1>5, <1>7, <1>8, McpCallStep

(* Every step keeps the invariant.                                         *)
LEMMA McpStepInv == ASSUME McpIInv, [McpNext]_mcpVars PROVE McpIInv'
<1>1. CASE UNCHANGED mcpVars
  <2>1. /\ UNCHANGED <<mConn, mDisk, mPolicy, mPlan, mExec, mRow, mCall, mCancelled, mAir, mWorld,
                       mProbes, mRefresh, mFlow, mService, mEdits, mBreaks>>
        /\ UNCHANGED <<mConn, mDisk, mcpCallVars>>
    BY <1>1 DEF mcpVars, mcpCallVars
  <2>2. /\ mPolicy \in PolicyRec /\ mCancelled \subseteq Plans /\ mProbes \subseteq Nat
        /\ mService \in {"open", "broken", "closed"} /\ mBreaks \in Nat /\ McpRefreshOk /\ FlowOk
    BY DEF McpIInv, McpTyped
  <2>3. McpRefreshOk' /\ FlowOk'  BY <2>1, <2>2 DEF McpRefreshOk, FlowOk, FlowTyped
  <2>4. /\ mPlan' \in [Plans -> PlanRec]
        /\ \A p \in Plans : mPlan'[p].state # "none" => Names(mPlan'[p]) /\ mExec[p] # Forgotten
    BY <2>1, PlansDropped
  <2> QED  BY <2>1, <2>2, <2>3, <2>4, PlansMove
<1>2. ASSUME NEW b \in BOOLEAN,
             \/ McpUpdate(b) \/ McpSetCredentials(b) \/ McpConnect(b) \/ McpReview(b)
             \/ McpRefreshDone(b) \/ McpAuthorized(b)
             \/ \E g \in mProbes : McpDiscovered(g, b)
             \/ \E p \in Plans : McpApprove(p, b)
      PROVE  McpIInv'
  <2>1. CASE McpUpdate(b) \/ McpSetCredentials(b)
    <3> DEFINE action == "disconnect"
    <3>1. action \in {"disconnect", "delete", "revoke_auth"}  OBVIOUS
    <3> HIDE DEF action
    <3> QED  BY <2>1, <3>1, SettingsInv
  <2>2. CASE McpConnect(b) \/ McpReview(b)  BY <2>2, ConnectInv
  <2>3. CASE McpRefreshDone(b) \/ McpAuthorized(b)  BY <2>3, TokenInv
  <2>4. CASE \E g \in mProbes : McpDiscovered(g, b)  BY <2>4, DiscoveredInv
  <2>5. CASE \E p \in Plans : McpApprove(p, b)  BY <2>5, PlanStepInv
  <2> QED  BY <1>2, <2>1, <2>2, <2>3, <2>4, <2>5
<1>3. ASSUME NEW action \in {"disconnect", "delete", "revoke_auth"}, McpRevoke(action)
      PROVE  McpIInv'
  <2>1. TRUE \in BOOLEAN  OBVIOUS
  <2> QED  BY <1>3, <2>1, SettingsInv
<1>4. ASSUME NEW p \in Plans,
             \/ McpPrepare(p) \/ McpPlanLate(p) \/ McpExecute(p) \/ McpWork(p)
             \/ McpTakesEffect(p) \/ McpCancel(p) \/ McpForget(p)
             \/ \E result \in {"ok", "tool_error"} : McpReturns(p, result)
      PROVE  McpIInv'
  <2>1. CASE McpPrepare(p) \/ McpPlanLate(p)
    <3>1. TRUE \in BOOLEAN  OBVIOUS
    <3> QED  BY <2>1, <3>1, PlanStepInv
  <2>2. CASE McpExecute(p)  BY <2>2, ExecuteInv
  <2>3. CASE McpWork(p)
    <3>1. CASE McpBefore(p)  BY <3>1, BeforeInv
    <3>2. CASE McpFinish(p)  BY <3>2, RecordInv
    <3>3. CASE McpReturns(p, "error")
      <4>1. "error" \in {"ok", "tool_error", "error"}  OBVIOUS
      <4> QED  BY <3>3, <4>1, ReturnsInv
    <3> QED  BY <2>3, <3>1, <3>2, <3>3 DEF McpWork
  <2>4. CASE McpTakesEffect(p)  BY <2>4, TakesEffectInv
  <2>5. CASE McpCancel(p)  BY <2>5, RecordInv
  <2>6. CASE McpForget(p)  BY <2>6, ForgetInv
  <2>7. ASSUME NEW result \in {"ok", "tool_error"}, McpReturns(p, result)  PROVE McpIInv'
    <3>1. result \in {"ok", "tool_error", "error"}  OBVIOUS
    <3> QED  BY <2>7, <3>1, ReturnsInv
  <2> QED  BY <1>4, <2>1, <2>2, <2>3, <2>4, <2>5, <2>6, <2>7
<1>5. CASE McpSwitch \/ McpBeginOAuth \/ McpReadFlow \/ McpUseFlow \/ McpClose
  BY <1>5, FlowInv
<1>6. CASE McpTokenDue  BY <1>6, TokenDueInv
<1>7. CASE McpRefreshStart
  <2>1. TRUE \in BOOLEAN  OBVIOUS
  <2> QED  BY <1>7, <2>1, TokenInv
<1>8. CASE McpRestart  BY <1>8, RestartInv
<1> QED  BY <1>1, <1>2, <1>3, <1>4, <1>5, <1>6, <1>7, <1>8 DEF McpNext

(* The invariant holds in every reachable state: the revision of a plan    *)
(* vouches for its review, and memory and file agree with the wire.        *)
THEOREM McpInductive == McpSpec => []McpIInv
<1> QED  BY McpInitInv, McpStepInv, PTL DEF McpSpec

(* What the invariant says of calls, records and authorization codes.      *)
LEMMA McpIInvSafe == McpIInv => McpSafe
<1> SUFFICES ASSUME McpIInv PROVE McpSafe  OBVIOUS
<1>1. /\ McpTyped /\ FlowOk /\ \A p \in Plans : McpExecInv(p)
  BY DEF McpIInv
<1>2. ASSUME NEW p \in Plans PROVE mWorld[p] + Cardinality(mAir \intersect {p}) <= 1
  <2>1. mWorld[p] \in Nat /\ mWorld[p] <= 1 /\ (p \in mAir => mWorld[p] = 0)
    BY <1>1 DEF McpExecInv, McpTyped
  <2>2. CASE p \in mAir
    <3>1. mAir \intersect {p} = {p}  BY <2>2
    <3>2. Cardinality(mAir \intersect {p}) = 1  BY <3>1, FS_Singleton
    <3> QED  BY <2>1, <2>2, <3>2
  <2>3. CASE p \notin mAir
    <3>1. mAir \intersect {p} = {}  BY <2>3
    <3>2. Cardinality(mAir \intersect {p}) = 0  BY <3>1, FS_EmptySet
    <3> QED  BY <2>1, <3>2
  <2> QED  BY <2>2, <2>3
<1>3. McpTruthful  BY <1>1 DEF McpTruthful, McpExecInv, TrueOf, Quiet
<1>4. McpCodeOnce  BY <1>1 DEF McpCodeOnce, FlowOk, FlowTyped
<1> QED  BY <1>2, <1>3, <1>4 DEF McpSafe, McpAtMostOnce

(* An approved plan is called at most once, what is saved of it is true,   *)
(* and a code is exchanged once, for any number of plans, failed writes    *)
(* and restarts.                                                           *)
THEOREM McpSafety == McpSpec => []McpSafe
<1> QED  BY McpInductive, McpIInvSafe, PTL

(* The invariant contains the types.                                       *)
LEMMA McpTypedOK == McpIInv => McpTypeOK
<1> SUFFICES ASSUME McpIInv PROVE McpTypeOK  OBVIOUS
<1>1. McpTyped /\ FlowTyped /\ \A p \in Plans : McpExecInv(p)
  BY DEF McpIInv, FlowOk
<1>2. ASSUME NEW p \in Plans
      PROVE  /\ mPlan[p].state \in {"none", "prepared", "approved", "consumed"}
             /\ mCall[p].pc \in {"none", "invoke", "sent", "ok", "tool_error", "error"}
             /\ mCall[p].pc # "none" => mExec[p].state \in UnderWay
  BY <1>1 DEF McpTyped, PlanRec, CallRec, McpExecInv
<1> QED  BY <1>1, <1>2 DEF McpTyped, McpTypeOK, ConnRec, FlowTyped

(* A step that puts a call on the wire is the callback of that call, and   *)
(* the revision it compares vouches for the review.                        *)
LEMMA SentReviewed ==
    ASSUME McpIInv, [McpNext]_mcpVars, NEW p \in mAir' \ mAir
    PROVE  mConn.allowed /\ mConn.auth \in {"none", "valid", "revoked"}
                         /\ (mConn.auth = "revoked" => ~mConn.secured)
<1>1. PICK q \in Plans : McpBefore(q) /\ mAir' = mAir \union {q}
  <2>1. ~UNCHANGED mAir  OBVIOUS
  <2>2. CASE \E q \in Plans : McpBefore(q)
    BY <2>1, <2>2 DEF McpBefore
  <2>3. CASE ~\E q \in Plans : McpBefore(q)
    <3>1. \A q \in Plans : ~McpTakesEffect(q)  BY DEF McpTakesEffect
    <3>2. UNCHANGED mAir
      BY <2>3, <3>1 DEF McpNext, mcpVars, McpUpdate, McpSetCredentials, McpConnect, McpReview,
         McpRefreshDone, McpAuthorized, McpDiscovered, McpApprove, McpRevoke, McpPrepare,
         McpPlanLate, McpExecute, McpWork, McpCancel, McpForget, McpReturns, McpFinish,
         McpSwitch, McpTokenDue, McpRefreshStart, McpBeginOAuth, McpReadFlow, McpUseFlow,
         McpClose, McpRestart, mcpCallVars
    <3> QED  BY <2>1, <3>2
  <2> QED  BY <2>2, <2>3
<1>2. Admitted(q) /\ mCall[q].pc = "invoke"  BY <1>1 DEF McpBefore
<1>3. Names(mCall[q])  BY <1>2 DEF McpIInv, PlanInv
<1>4. Reviewed(mConn)  BY <1>2, <1>3 DEF Admitted, Names
<1>5. mConn.secured \in BOOLEAN
      /\ mConn.auth \in {"none", "valid", "expired", "refresh_failed", "revoked"}
  BY DEF McpIInv, McpTyped, ConnRec
<1> QED  BY <1>4, <1>5 DEF Reviewed

(* No call goes on the wire without a standing review and credentials.     *)
THEOREM McpSentReviewed == McpSpec => McpSentUnderReview
<1>1. ASSUME McpIInv, [McpNext]_mcpVars
      PROVE  [\A p \in mAir' \ mAir :
                mConn.allowed /\ mConn.auth \in {"none", "valid", "revoked"}
                              /\ (mConn.auth = "revoked" => ~mConn.secured)]_mcpVars
  BY <1>1, SentReviewed
<1> QED  BY <1>1, McpInductive, PTL DEF McpSpec, McpSentUnderReview

-----------------------------------------------------------------------------
(* Channels.                                                               *)

RunRec    == [state : {"none", "live", "exiting", "gone"}, cancelled : BOOLEAN, ver : Nat]
CallerRec == [pc : {"idle", "update", "disable", "stop", "wait", "start", "launch", "remove"},
              ver : Nat, then : {"idle", "start", "remove"}, waits : 0 .. MaxStarts]

ChannelIInv ==
    /\ chRunning \in 0 .. MaxStarts /\ chStored \in [enabled : BOOLEAN, ver : Nat]
    /\ chRun \in [ChRuns -> RunRec]
    /\ chCaller \in [Callers -> CallerRec]
    /\ RegisteredRuns

(* The request's program counter moves on.                                 *)
LEMMA CallerMoves ==
    ASSUME chCaller \in [Callers -> CallerRec], NEW c \in Callers,
           NEW pc \in {"idle", "update", "disable", "stop", "wait", "start", "launch", "remove"},
           ChGoto(c, pc)
    PROVE  chCaller' \in [Callers -> CallerRec]
<1>1. ChIdle \in CallerRec
  BY ChannelAssumption DEF ChIdle, CallerRec
<1>2. [chCaller[c] EXCEPT !.pc = pc] \in CallerRec  BY DEF CallerRec
<1> DEFINE r == IF pc = "idle" THEN ChIdle ELSE [chCaller[c] EXCEPT !.pc = pc]
<1>3. r \in CallerRec  BY <1>1, <1>2
<1>4. chCaller' = [chCaller EXCEPT ![c] = r]  BY DEF ChGoto
<1> HIDE DEF r
<1> QED  BY <1>3, <1>4

(* The first state.                                                        *)
LEMMA ChannelInitInv == ChannelInit => ChannelIInv
BY ChannelAssumption DEF ChannelInit, ChannelIInv, RegisteredRuns, RunRec, CallerRec, ChIdle

(* A step of one request.                                                  *)
LEMMA CallerInv ==
    ASSUME ChannelIInv, NEW c \in Callers,
           \/ \E enabled \in BOOLEAN : ChSave(c, enabled)
           \/ ChDelete(c) \/ ChCredential(c) \/ ChStep(c)
    PROVE  ChannelIInv'
<1>1. /\ chRunning \in 0 .. MaxStarts /\ chStored \in [enabled : BOOLEAN, ver : Nat]
      /\ chRun \in [ChRuns -> RunRec]
      /\ chCaller \in [Callers -> CallerRec] /\ chCaller[c] \in CallerRec
      /\ RegisteredRuns
  BY DEF ChannelIInv
<1>2. ChIdle \in CallerRec  BY ChannelAssumption DEF ChIdle, CallerRec
<1>3. ASSUME NEW enabled \in BOOLEAN, ChSave(c, enabled) PROVE ChannelIInv'
  <2> DEFINE r == [pc |-> IF enabled THEN "update" ELSE "disable",
                   ver |-> chStored.ver + 1, then |-> "idle", waits |-> 0]
  <2>1. r \in CallerRec  BY <1>1, ChannelAssumption DEF CallerRec
  <2>2. chCaller' = [chCaller EXCEPT ![c] = r]  BY <1>3 DEF ChSave
  <2> HIDE DEF r
  <2>3. chCaller' \in [Callers -> CallerRec]  BY <1>1, <2>1, <2>2
  <2>4. chStored' = [enabled |-> enabled, ver |-> chStored.ver + 1]
        /\ chStored.ver + 1 \in Nat /\ chRunning' = chRunning /\ chRun' = chRun
    BY <1>1, <1>3 DEF ChSave
  <2> QED  BY <1>1, <2>3, <2>4 DEF ChannelIInv, RegisteredRuns
<1>4. CASE ChDelete(c)
  <2> DEFINE r == [ChIdle EXCEPT !.pc = "stop", !.then = "remove"]
  <2>1. r \in CallerRec  BY <1>2 DEF CallerRec
  <2>2. chCaller' = [chCaller EXCEPT ![c] = r] /\ UNCHANGED <<chStored, chRunning, chRun>>
    BY <1>4 DEF ChDelete
  <2> HIDE DEF r
  <2> QED  BY <1>1, <2>1, <2>2 DEF ChannelIInv, RegisteredRuns
<1>5. CASE ChCredential(c)
  <2> DEFINE r == [pc |-> "stop", ver |-> chRun[chRunning].ver, then |-> "start", waits |-> 0]
  <2>1. chRunning \in ChRuns  BY <1>1, <1>5 DEF ChCredential, ChRuns
  <2>2. chRun[chRunning].ver \in Nat  BY <1>1, <2>1 DEF RunRec
  <2>3. r \in CallerRec  BY <2>2, ChannelAssumption DEF CallerRec
  <2>4. chCaller' = [chCaller EXCEPT ![c] = r] /\ UNCHANGED <<chStored, chRunning, chRun>>
    BY <1>5 DEF ChCredential
  <2> HIDE DEF r
  <2> QED  BY <1>1, <2>3, <2>4 DEF ChannelIInv, RegisteredRuns
<1>6. CASE ChLook(c)
  <2> DEFINE r == IF chCaller[c].pc = "disable"
                  THEN IF chRunning # 0 THEN [chCaller[c] EXCEPT !.pc = "stop", !.then = "idle"]
                       ELSE ChIdle
                  ELSE IF chRunning # 0 THEN [chCaller[c] EXCEPT !.pc = "stop", !.then = "start"]
                       ELSE [chCaller[c] EXCEPT !.pc = "start"]
  <2>1. r \in CallerRec  BY <1>1, <1>2 DEF CallerRec
  <2>2. chCaller' = [chCaller EXCEPT ![c] = r] /\ UNCHANGED <<chStored, chRunning, chRun>>
    BY <1>6 DEF ChLook
  <2> HIDE DEF r
  <2> QED  BY <1>1, <2>1, <2>2 DEF ChannelIInv, RegisteredRuns
<1>7. CASE ChStop(c)
  <2>1. CASE chRunning = 0
    <3>1. ChGoto(c, chCaller[c].then) /\ UNCHANGED <<chStored, chRunning, chRun>>
      BY <1>7, <2>1 DEF ChStop
    <3>2. chCaller[c].then \in {"idle", "start", "remove"}  BY <1>1 DEF CallerRec
    <3>3. chCaller' \in [Callers -> CallerRec]  BY <1>1, <3>1, <3>2, CallerMoves
    <3> QED  BY <1>1, <3>1, <3>3 DEF ChannelIInv, RegisteredRuns
  <2>2. CASE chRunning # 0
    <3> DEFINE r == [chCaller[c] EXCEPT !.pc = "wait", !.waits = chRunning]
               g == [chRun[chRunning] EXCEPT !.cancelled = TRUE]
    <3>1. chRunning \in ChRuns  BY <1>1, <2>2 DEF ChRuns
    <3>2. r \in CallerRec  BY <1>1 DEF CallerRec
    <3>3. g \in RunRec  BY <1>1, <3>1 DEF RunRec
    <3>4. /\ chRunning' = 0 /\ chRun' = [chRun EXCEPT ![chRunning] = g]
          /\ chCaller' = [chCaller EXCEPT ![c] = r] /\ chStored' = chStored
      BY <1>1, <1>7, <2>2, <3>1 DEF ChStop, RunRec, CallerRec
    <3> HIDE DEF r, g
    <3>5. chRun' \in [ChRuns -> RunRec] /\ chCaller' \in [Callers -> CallerRec]
      BY <1>1, <3>1, <3>2, <3>3, <3>4
    <3> QED  BY <1>1, <3>4, <3>5, ChannelAssumption DEF ChannelIInv, RegisteredRuns
  <2> QED  BY <2>1, <2>2
<1>8. CASE ChWaited(c) \/ ChRemove(c) \/ ChCheck(c)
  <2>1. \E pc \in {"idle", "start", "remove", "launch"} : ChGoto(c, pc)
    BY <1>1, <1>8 DEF ChWaited, ChRemove, ChCheck, CallerRec
  <2>2. chCaller' \in [Callers -> CallerRec]  BY <1>1, <2>1, CallerMoves
  <2>3. chStored' \in [enabled : BOOLEAN, ver : Nat] /\ chRunning' = chRunning /\ chRun' = chRun
    BY <1>1, <1>8 DEF ChWaited, ChRemove, ChCheck
  <2> QED  BY <1>1, <2>2, <2>3 DEF ChannelIInv, RegisteredRuns
<1>9. CASE ChLaunch(c)
  <2>1. ChGoto(c, "idle") /\ chStored' = chStored  BY <1>9 DEF ChLaunch
  <2>2. chCaller' \in [Callers -> CallerRec]  BY <1>1, <2>1, CallerMoves
  <2>3. CASE UNCHANGED <<chRunning, chRun>>
    BY <1>1, <2>1, <2>2, <2>3 DEF ChannelIInv, RegisteredRuns
  <2>4. CASE ~UNCHANGED <<chRunning, chRun>>
    <3> DEFINE r == [state |-> "live", cancelled |-> FALSE, ver |-> chCaller[c].ver]
    <3>1. r \in RunRec /\ r.state = "live" /\ r.cancelled = FALSE
      BY <1>1 DEF RunRec, CallerRec
    <3>2. PICK g \in ChRuns : chRunning' = g /\ chRun' = [chRun EXCEPT ![g] = r]
      BY <1>9, <2>4 DEF ChLaunch
    <3> HIDE DEF r
    <3>3. chRun' \in [ChRuns -> RunRec] /\ chRun'[chRunning'] = r  BY <1>1, <3>1, <3>2
    <3>4. chRunning' \in 0 .. MaxStarts  BY <3>2, ChannelAssumption DEF ChRuns
    <3> QED  BY <1>1, <2>1, <2>2, <3>1, <3>3, <3>4 DEF ChannelIInv, RegisteredRuns
  <2> QED  BY <2>3, <2>4
<1> QED  BY <1>3, <1>4, <1>5, <1>6, <1>7, <1>8, <1>9 DEF ChStep

(* A goroutine's channel returns, and the goroutine ends.                  *)
LEMMA RunInv ==
    ASSUME ChannelIInv, NEW g \in ChRuns, ChReturns(g) \/ ChExits(g) PROVE ChannelIInv'
<1>1. /\ chRunning \in 0 .. MaxStarts /\ chStored \in [enabled : BOOLEAN, ver : Nat]
      /\ chRun \in [ChRuns -> RunRec] /\ chCaller \in [Callers -> CallerRec]
      /\ RegisteredRuns
  BY DEF ChannelIInv
<1>2. UNCHANGED <<chStored, chCaller>>  BY DEF ChReturns, ChExits
<1>3. CASE ChReturns(g)
  <2> DEFINE r == [chRun[g] EXCEPT !.state = "exiting"]
  <2>1. /\ r \in RunRec /\ r.state = "exiting" /\ r.cancelled = chRun[g].cancelled
    BY <1>1 DEF RunRec
  <2>2. chRun' = [chRun EXCEPT ![g] = r] /\ chRunning' = chRunning
    BY <1>3 DEF ChReturns
  <2> HIDE DEF r
  <2>3. chRun' \in [ChRuns -> RunRec]  BY <1>1, <2>1, <2>2
  <2>4. chRunning # 0 => chRunning \in ChRuns  BY <1>1 DEF ChRuns
  <2>5. RegisteredRuns'  BY <1>1, <2>1, <2>2, <2>4 DEF RegisteredRuns
  <2> QED  BY <1>1, <1>2, <2>2, <2>3, <2>5 DEF ChannelIInv
<1>4. CASE ChExits(g)
  <2> DEFINE r == [chRun[g] EXCEPT !.state = "gone"]
  <2>1. r \in RunRec  BY <1>1 DEF RunRec
  <2>2. chRun' = [chRun EXCEPT ![g] = r] /\ chRunning' = 0  BY <1>4 DEF ChExits
  <2> HIDE DEF r
  <2>3. chRun' \in [ChRuns -> RunRec]  BY <1>1, <2>1, <2>2
  <2> QED  BY <1>1, <1>2, <2>2, <2>3, ChannelAssumption DEF ChannelIInv, RegisteredRuns
<1> QED  BY <1>3, <1>4

(* Every step keeps the invariant.                                         *)
LEMMA ChannelStepInv == ASSUME ChannelIInv, [ChannelNext]_channelVars PROVE ChannelIInv'
<1>1. CASE UNCHANGED channelVars
  BY <1>1 DEF channelVars, ChannelIInv, RegisteredRuns
<1>2. CASE ChannelNext  BY <1>2, CallerInv, RunInv DEF ChannelNext
<1> QED  BY <1>1, <1>2

(* No entry outlives its goroutine, for any number of requests that        *)
(* register, remove and restart an instance at once.                       *)
THEOREM ChannelSafety == ChannelSpec => []RegisteredRuns
<1>1. ChannelIInv => RegisteredRuns  BY DEF ChannelIInv
<1> QED  BY <1>1, ChannelInitInv, ChannelStepInv, PTL DEF ChannelSpec

(* The invariant contains the types.                                       *)
LEMMA ChannelTyped == ChannelIInv => ChannelTypeOK
BY DEF ChannelIInv, ChannelTypeOK, RunRec, CallerRec

-----------------------------------------------------------------------------
(* The HTTP tool.  Of a run under way: what the user said to it, and, once *)
(* it was cleared, that nothing is missing for its step; of a request that *)
(* left: that it was covered, by the origin its secrets are bound to now.  *)

HtRecord(t) ==
    t = [pc |-> t.pc, step |-> t.step, org |-> t.org, hops |-> t.hops, perm |-> t.perm,
         bind |-> t.bind, egress |-> t.egress, plain |-> t.plain, loc |-> t.loc,
         good |-> t.good, declared |-> t.declared, size |-> t.size, limit |-> t.limit,
         asked |-> t.asked, out |-> t.out]

HtTyped(r, t) ==
    /\ HtRecord(t)
    /\ t.step \in DOMAIN HtPlan[r] /\ t.size \in Nat /\ t.limit \in Nat
    /\ t.loc \in HtOrigins \union {"none"}
    /\ t.bind \in [HtSecrets -> HtOrigins \union {"none"}]

HtUnderWay == {"clear", "ask", "send", "wait", "body", "big", "open", "read", "pause"}

HtMayChange(r, i, o, said) ==
    \/ <<r, "mutation", i>> \in said
    \/ \E g \in {o, "all"} : <<"always", "mutation", g>> \in said

HtBoundOk(r, t) ==
    t.pc \in HtUnderWay =>
       /\ t.org \in HtOrigins \ {"none"}
       /\ \A k \in HtPlan[r][t.step].secrets : t.bind[k] \in HtOrigins \ {"none"}

HtSaidOk(r, t, said) ==
    /\ t.pc \in HtUnderWay /\ t.perm => HtMayChange(r, t.step, t.org, said)
    /\ \A p \in t.egress : <<r, "egress", p>> \in said
    /\ \A o \in t.plain : <<r, "plain", o>> \in said

HtBytesOk(r, t, said) ==
    /\ t.asked => t.limit <= HtCap /\ <<r, "bytes", t.limit>> \in said
    /\ t.size > HtAskAt => \E m \in t.size .. HtCap : <<r, "bytes", m>> \in said

HtClearedOk(r, t) ==
    t.pc \in {"send", "wait"} =>
       /\ HtPlan[r][t.step].mut => t.perm
       /\ HtPlan[r][t.step].secrets # {} /\ t.org \in HtPlain => t.org \in t.plain
       /\ \A k \in HtPlan[r][t.step].secrets :
             t.bind[k] = t.org \/ <<t.bind[k], t.org>> \in t.egress

HtRunOk(r, t, said) ==
    HtTyped(r, t) /\ HtBoundOk(r, t) /\ HtSaidOk(r, t, said) /\ HtBytesOk(r, t, said)
      /\ HtClearedOk(r, t)

HtSentOk(x, t, said) ==
    /\ x.run \in HtRuns /\ x.step \in DOMAIN HtPlan[x.run] /\ x.step <= t.step
    /\ x.secrets = HtPlan[x.run][x.step].secrets
    /\ x.mut => HtMayChange(x.run, x.step, x.to, said)
    /\ x.secrets # {} /\ x.to \in HtPlain => <<x.run, "plain", x.to>> \in said
    /\ \A k \in x.secrets :
          /\ t.bind[k] \in HtOrigins \ {"none"}
          /\ x.to = t.bind[k] \/ <<x.run, "egress", <<t.bind[k], x.to>>>> \in said

HtLeftOpen == {"outcome_unknown", "timed_out", "cancelled"}

HtIInv ==
    /\ htRun = [r \in HtRuns |-> htRun[r]]
    /\ \A r \in HtRuns : HtRunOk(r, htRun[r], htSaid)
    /\ \A x \in htSent : HtSentOk(x, htRun[x.run], htSaid)
    /\ \A g \in htGrants : <<"always", "mutation", g>> \in htSaid
    /\ \A d \in htDoubt : /\ d[1] \in HtRuns
                          /\ htRun[d[1]].pc = "done" /\ htRun[d[1]].out \in HtLeftOpen

(* What the plan gives a step.                                             *)
LEMMA HtPlanned ==
    ASSUME NEW r \in HtRuns, NEW i \in DOMAIN HtPlan[r]
    PROVE  /\ HtPlan[r][i] \in HtSteps
           /\ DOMAIN HtPlan[r] = 1 .. Len(HtPlan[r]) /\ Len(HtPlan[r]) \in Nat
           /\ i \in Nat /\ (i # Len(HtPlan[r]) => i + 1 \in DOMAIN HtPlan[r])
BY HtAssumption

(* The first state.                                                        *)
LEMMA HtInitInv == HtInit => HtIInv
<1> SUFFICES ASSUME HtInit PROVE HtIInv  OBVIOUS
<1>1. ASSUME NEW r \in HtRuns PROVE HtRunOk(r, htRun[r], htSaid)
  <2>0. htRun[r] = HtFresh  BY DEF HtInit
  <2>1. 1 \in DOMAIN HtPlan[r]  BY HtAssumption
  <2>2. HtTyped(r, HtFresh)
    BY <2>1, HtAssumption DEF HtTyped, HtRecord, HtFresh, HtSecrets
  <2>3. /\ HtBoundOk(r, HtFresh) /\ HtSaidOk(r, HtFresh, htSaid)
        /\ HtBytesOk(r, HtFresh, htSaid) /\ HtClearedOk(r, HtFresh)
    BY HtAssumption DEF HtBoundOk, HtSaidOk, HtBytesOk, HtClearedOk, HtFresh, HtUnderWay
  <2> QED  BY <2>0, <2>2, <2>3 DEF HtRunOk
<1>2. htRun = [r \in HtRuns |-> htRun[r]]  BY DEF HtInit
<1> QED  BY <1>1, <1>2 DEF HtInit, HtIInv

(* What the user said stays said.                                          *)
LEMMA HtSaidStays ==
    ASSUME NEW r, NEW t, NEW said, NEW more, said \subseteq more, HtRunOk(r, t, said)
    PROVE  HtRunOk(r, t, more)
<1>1. HtSaidOk(r, t, more)  BY Zenon DEF HtRunOk, HtSaidOk, HtMayChange
<1>2. HtBytesOk(r, t, more)  BY Zenon DEF HtRunOk, HtBytesOk
<1> QED  BY <1>1, <1>2 DEF HtRunOk

(* A request that was covered stays covered.                               *)
LEMMA HtSentStays ==
    ASSUME NEW x, NEW t, NEW u, NEW said, NEW more, said \subseteq more, HtSentOk(x, t, said),
           t.step \in Nat, u.step \in Nat, u.step >= t.step,
           \A k \in x.secrets : u.bind[k] = t.bind[k]
    PROVE  HtSentOk(x, u, more)
<1>1. x.step <= u.step
  <2>1. x.step \in Nat  BY HtPlanned DEF HtSentOk
  <2> QED  BY <2>1 DEF HtSentOk
<1> QED  BY Zenon, <1>1 DEF HtSentOk, HtMayChange

(* A step of one run: what has to be shown of it.                          *)
LEMMA HtMoves ==
    ASSUME HtIInv, NEW r \in HtRuns, NEW u, htRun[r].pc # "done",
           htRun' = [htRun EXCEPT ![r] = u], HtRunOk(r, u, htSaid'),
           htSaid \subseteq htSaid',
           \A x \in htSent' : x \in htSent \/ (x.run = r /\ HtSentOk(x, u, htSaid')),
           \A g \in htGrants' : g \in htGrants \/ <<"always", "mutation", g>> \in htSaid',
           u.step >= htRun[r].step,
           \A k \in HtSecrets : \/ u.bind[k] = htRun[r].bind[k]
                                \/ htRun[r].bind[k] = "none"
                                \/ k = "var" /\ HtStepOf(r).takes,
           \A d \in htDoubt' : d \in htDoubt \/ (d[1] = r /\ u.pc = "done" /\ u.out \in HtLeftOpen)
    PROVE  HtIInv'
<1>1. htRun' = [q \in HtRuns |-> htRun'[q]]  BY DEF HtIInv
<1>2. htRun'[r] = u /\ \A q \in HtRuns : q # r => htRun'[q] = htRun[q]  BY DEF HtIInv
<1>3. ASSUME NEW q \in HtRuns PROVE HtRunOk(q, htRun'[q], htSaid')
  <2>1. CASE q = r  BY <1>2, <2>1
  <2>2. CASE q # r
    <3>1. HtRunOk(q, htRun[q], htSaid)  BY DEF HtIInv
    <3>2. HtRunOk(q, htRun[q], htSaid')  BY <3>1, HtSaidStays
    <3> QED  BY <1>2, <2>2, <3>2
  <2> QED  BY <2>1, <2>2
<1>4. ASSUME NEW x \in htSent' PROVE HtSentOk(x, htRun'[x.run], htSaid')
  <2>1. CASE x.run = r /\ HtSentOk(x, u, htSaid')  BY <1>2, <2>1
  <2>2. CASE x \in htSent
    <3>1. HtSentOk(x, htRun[x.run], htSaid)  BY <2>2 DEF HtIInv
    <3>2. x.run \in HtRuns /\ x.step \in DOMAIN HtPlan[x.run]  BY <3>1 DEF HtSentOk
    <3>3. \A q \in HtRuns : htRun[q].step \in DOMAIN HtPlan[q]  BY DEF HtIInv, HtRunOk, HtTyped
    <3>4. u.step \in DOMAIN HtPlan[r]  BY DEF HtRunOk, HtTyped
    <3>5. htRun[x.run].step \in Nat /\ htRun'[x.run].step \in Nat
      BY <1>2, <3>2, <3>3, <3>4, HtPlanned
    <3>6. htRun'[x.run].step >= htRun[x.run].step  BY <1>2, <3>2, <3>5
    <3>7. ASSUME NEW k \in x.secrets PROVE htRun'[x.run].bind[k] = htRun[x.run].bind[k]
      <4>1. CASE x.run # r  BY <1>2, <3>2, <4>1
      <4>2. CASE x.run = r
        <5>1. HtPlan[r][x.step] \in HtSteps  BY <3>2, <4>2, HtPlanned
        <5>2. k \in HtSecrets /\ k \in HtPlan[r][x.step].secrets
          BY <3>1, <3>7, <4>2, <5>1 DEF HtSentOk, HtSteps
        <5>3. htRun[r].bind[k] # "none"  BY <3>1, <3>7, <4>2 DEF HtSentOk
        <5>4. ~(k = "var" /\ HtStepOf(r).takes)
          <6>1. SUFFICES ASSUME k = "var", HtStepOf(r).takes PROVE FALSE  BY Zenon
          <6>2. htRun[r].step \in DOMAIN HtPlan[r]  BY <3>3
          <6>3. htRun[r].step < x.step  BY <3>2, <4>2, <5>2, <6>1, <6>2, HtAssumption DEF HtStepOf
          <6>4. x.step <= htRun[r].step  BY <3>1, <4>2 DEF HtSentOk
          <6>5. x.step \in Nat /\ htRun[r].step \in Nat  BY <3>2, <4>2, <6>2, HtPlanned
          <6> QED  BY <6>3, <6>4, <6>5
        <5> QED  BY Zenon, <1>2, <4>2, <5>2, <5>3, <5>4
      <4> QED  BY <4>1, <4>2
    <3> QED  BY <3>1, <3>5, <3>6, <3>7, HtSentStays
  <2> QED  BY <2>1, <2>2
<1>5. \A g \in htGrants' : <<"always", "mutation", g>> \in htSaid'  BY DEF HtIInv
<1>6. \A d \in htDoubt' : /\ d[1] \in HtRuns
                          /\ htRun'[d[1]].pc = "done" /\ htRun'[d[1]].out \in HtLeftOpen
  BY <1>2 DEF HtIInv
<1> QED  BY <1>1, <1>3, <1>4, <1>5, <1>6 DEF HtIInv

(* A step that moves only its run.                                         *)
LEMMA HtQuietly ==
    ASSUME HtIInv, NEW r \in HtRuns, NEW u, htRun[r].pc # "done", HtKeeps,
           htRun' = [htRun EXCEPT ![r] = u], HtRunOk(r, u, htSaid), u.step >= htRun[r].step,
           \A k \in HtSecrets : \/ u.bind[k] = htRun[r].bind[k]
                                \/ htRun[r].bind[k] = "none"
                                \/ k = "var" /\ HtStepOf(r).takes
    PROVE  HtIInv'
<1>1. htSent' = htSent /\ htSaid' = htSaid /\ htGrants' = htGrants /\ htDoubt' = htDoubt
  BY Zenon DEF HtKeeps
<1>2. HtRunOk(r, u, htSaid')  BY <1>1
<1> QED  BY Zenon, <1>1, <1>2, HtMoves

(* A run that ends stays within what was said.                             *)
LEMMA HtEndOk ==
    ASSUME NEW r, NEW t, NEW u, NEW said, HtRunOk(r, t, said), HtRecord(u), u.pc = "done",
           u.step = t.step, u.bind = t.bind, u.egress = t.egress, u.plain = t.plain,
           u.size = t.size, u.limit = t.limit, u.loc = t.loc, u.asked = t.asked
    PROVE  HtRunOk(r, u, said)
<1>3. HtTyped(r, u)  BY DEF HtRunOk, HtTyped
<1>4. HtBoundOk(r, u) /\ HtClearedOk(r, u)  BY DEF HtBoundOk, HtClearedOk, HtUnderWay
<1>5. HtSaidOk(r, u, said)  BY DEF HtRunOk, HtSaidOk, HtUnderWay
<1>6. HtBytesOk(r, u, said)  BY DEF HtRunOk, HtBytesOk
<1> QED  BY <1>3, <1>4, <1>5, <1>6 DEF HtRunOk

(* A run ends.                                                             *)
LEMMA HtEndsInv ==
    ASSUME HtIInv, NEW r \in HtRuns, NEW out, htRun[r].pc # "done", HtKeeps, HtEnds(r, out)
    PROVE  HtIInv'
<1> DEFINE t == htRun[r]
<1>0. PICK u : u = [t EXCEPT !.pc = "done", !.out = out, !.declared = 0]  OBVIOUS
<1>1. HtRunOk(r, t, htSaid)  BY DEF HtIInv
<1>2. HtRunOk(r, u, htSaid) /\ u.step = t.step /\ u.bind = t.bind
  <2> HIDE DEF t
  <2>1. HtRecord(t)  BY <1>1 DEF HtRunOk, HtTyped
  <2>2. /\ HtRecord(u) /\ u.pc = "done" /\ u.step = t.step /\ u.bind = t.bind
        /\ u.egress = t.egress /\ u.plain = t.plain /\ u.size = t.size /\ u.limit = t.limit
        /\ u.loc = t.loc /\ u.asked = t.asked
    BY <1>0, <2>1 DEF HtRecord
  <2> QED  BY <1>1, <2>2, HtEndOk
<1>3. htRun' = [htRun EXCEPT ![r] = u]  BY <1>0 DEF HtEnds
<1>4. u.step >= htRun[r].step  BY <1>1, <1>2, HtPlanned DEF HtRunOk, HtTyped
<1> QED  BY <1>2, <1>3, <1>4, HtQuietly

(* A step that is done: the next one, or the end.                          *)
LEMMA HtDoneInv ==
    ASSUME HtIInv, NEW r \in HtRuns, NEW run, htRun[r].pc # "done", HtKeeps, HtDone(r, run),
           HtRunOk(r, run, htSaid), run.step = htRun[r].step,
           \A k \in HtSecrets : \/ run.bind[k] = htRun[r].bind[k]
                                \/ k = "var" /\ HtStepOf(r).takes
    PROVE  HtIInv'
<1>1. PICK u : /\ htRun' = [htRun EXCEPT ![r] = u]
               /\ \/ \E out : u = [run EXCEPT !.pc = "done", !.out = out]
                  \/ run.step # Len(HtPlan[r]) /\ u = [run EXCEPT !.pc = "next", !.step = @ + 1]
  BY Zenon DEF HtDone
<1>2. HtRecord(run) /\ run.step \in DOMAIN HtPlan[r]  BY DEF HtRunOk, HtTyped
<1>3. /\ HtRecord(u) /\ u.pc \in {"done", "next"} /\ u.bind = run.bind
      /\ u.egress = run.egress /\ u.plain = run.plain /\ u.size = run.size /\ u.limit = run.limit
      /\ u.loc = run.loc /\ u.asked = run.asked
      /\ u.step = run.step \/ (run.step # Len(HtPlan[r]) /\ u.step = run.step + 1)
  BY <1>1, <1>2 DEF HtRecord
<1>4. u.step \in DOMAIN HtPlan[r] /\ u.step >= htRun[r].step  BY <1>2, <1>3, HtPlanned
<1>5. HtTyped(r, u)  BY <1>3, <1>4 DEF HtRunOk, HtTyped
<1>6. HtBoundOk(r, u) /\ HtClearedOk(r, u)  BY <1>3 DEF HtBoundOk, HtClearedOk, HtUnderWay
<1>7. HtSaidOk(r, u, htSaid)  BY <1>3 DEF HtRunOk, HtSaidOk, HtUnderWay
<1>8. HtBytesOk(r, u, htSaid)  BY <1>3 DEF HtRunOk, HtBytesOk
<1>9. HtRunOk(r, u, htSaid)  BY <1>5, <1>6, <1>7, <1>8 DEF HtRunOk
<1>10. htRun' = [htRun EXCEPT ![r] = u]  BY <1>1
<1>11. \A k \in HtSecrets : \/ u.bind[k] = htRun[r].bind[k]
                            \/ htRun[r].bind[k] = "none"
                            \/ k = "var" /\ HtStepOf(r).takes
  BY Zenon, <1>3
<1> QED  BY <1>4, <1>9, <1>10, <1>11, HtQuietly

(* A step begins: its origin, and what its secrets are bound to.           *)
LEMMA HtPrepareInv == ASSUME HtIInv, NEW r \in HtRuns, HtPrepare(r) PROVE HtIInv'
<1>1. htRun[r].pc = "next" /\ HtKeeps  BY DEF HtPrepare
<1>2. CASE \E out : HtEnds(r, out)  BY <1>1, <1>2, HtEndsInv
<1>3. CASE ~\E out : HtEnds(r, out)
  <2> DEFINE t == htRun[r]
             o == HtTarget(r)
             b == HtBound(r, o)
  <2>0. PICK u : u = [t EXCEPT !.pc = "clear", !.org = o, !.hops = 0, !.perm = FALSE, !.bind = b,
                               !.size = 0, !.limit = HtCap, !.asked = FALSE]
    OBVIOUS
  <2>1. o # "none" /\ htRun' = [htRun EXCEPT ![r] = u]  BY Zenon, <1>3, <2>0 DEF HtPrepare
  <2>2. HtRunOk(r, t, htSaid)  BY DEF HtIInv
  <2>3. HtTyped(r, t)  BY <2>2 DEF HtRunOk
  <2>4. HtPlan[r][t.step] \in HtSteps /\ HtStepOf(r) = HtPlan[r][t.step] /\ t.step \in Nat
    BY <2>3, HtPlanned DEF HtTyped, HtStepOf
  <2>5. o \in HtOrigins
    BY <2>1, <2>3, <2>4 DEF HtTarget, HtSteps, HtTyped
  <2>6. b \in [HtSecrets -> HtOrigins \union {"none"}]
    BY <2>3, <2>5 DEF HtBound, HtTyped
  <2>7. \A k \in HtSecrets : b[k] = t.bind[k] \/ t.bind[k] = "none"
    BY DEF HtBound
  <2>8. \A k \in HtPlan[r][t.step].secrets : b[k] \in HtOrigins \ {"none"}
    BY <2>1, <2>3, <2>4, <2>5 DEF HtBound, HtTyped, HtSteps
  <2> HIDE DEF o, b
  <2>9. /\ HtRecord(u) /\ u.pc = "clear" /\ u.org = o /\ u.bind = b /\ u.size = 0
        /\ u.limit = HtCap /\ u.step = t.step /\ u.egress = t.egress /\ u.plain = t.plain
        /\ u.perm = FALSE /\ u.asked = FALSE /\ u.loc = t.loc
    <3>1. HtRecord(t)  BY <2>3 DEF HtTyped
    <3> HIDE DEF t
    <3> QED  BY <2>0, <3>1 DEF HtRecord
  <2> HIDE DEF t
  <2>10. HtTyped(r, u)  BY <2>3, <2>6, <2>9, HtAssumption DEF HtTyped
  <2>11. HtBoundOk(r, u) /\ HtClearedOk(r, u)
    BY <2>1, <2>5, <2>8, <2>9 DEF HtBoundOk, HtClearedOk
  <2>12. HtSaidOk(r, u, htSaid) /\ HtBytesOk(r, u, htSaid)
    BY <2>2, <2>9, HtAssumption DEF HtRunOk, HtSaidOk, HtBytesOk
  <2>13. HtRunOk(r, u, htSaid)  BY <2>10, <2>11, <2>12 DEF HtRunOk
  <2>14. u.step >= t.step  BY <2>4, <2>9
  <2> QED  BY <1>1, <2>1, <2>7, <2>9, <2>13, <2>14, HtQuietly DEF t
<1> QED  BY <1>2, <1>3

(* A step of a run that stays where it is, whatever else of it changes.    *)
LEMMA HtStaysOk ==
    ASSUME NEW r, NEW t, NEW u, NEW said, HtRunOk(r, t, said), HtRecord(u),
           u.step = t.step, u.bind = t.bind, u.org = t.org, u.size = t.size,
           u.egress = t.egress, u.plain = t.plain, u.perm = t.perm, u.asked = t.asked,
           u.limit = t.limit, u.loc \in HtOrigins \union {"none"}, t.pc \in HtUnderWay,
           u.pc \in HtUnderWay, u.pc \in {"send", "wait"} => t.pc \in {"send", "wait"}
    PROVE  HtRunOk(r, u, said)
<1>1. HtTyped(r, u)  BY DEF HtRunOk, HtTyped
<1>2. HtBoundOk(r, u)  BY DEF HtRunOk, HtBoundOk
<1>3. HtSaidOk(r, u, said)  BY DEF HtRunOk, HtSaidOk
<1>4. HtBytesOk(r, u, said)  BY DEF HtRunOk, HtBytesOk
<1>5. HtClearedOk(r, u)  BY DEF HtRunOk, HtClearedOk
<1> QED  BY <1>1, <1>2, <1>3, <1>4, <1>5 DEF HtRunOk

(* A step that only moves the run on, without clearing it.                 *)
LEMMA HtOnwards ==
    ASSUME HtIInv, NEW r \in HtRuns, NEW u, HtKeeps, htRun' = [htRun EXCEPT ![r] = u],
           HtRecord(u), htRun[r].pc \in HtUnderWay, u.pc \in HtUnderWay,
           u.pc \in {"send", "wait"} => htRun[r].pc \in {"send", "wait"},
           u.step = htRun[r].step, u.bind = htRun[r].bind, u.org = htRun[r].org,
           u.size = htRun[r].size, u.egress = htRun[r].egress, u.plain = htRun[r].plain,
           u.perm = htRun[r].perm, u.asked = htRun[r].asked, u.limit = htRun[r].limit,
           u.loc \in HtOrigins \union {"none"}
    PROVE  HtIInv'
<1>1. HtRunOk(r, htRun[r], htSaid)  BY DEF HtIInv
<1>2. HtRunOk(r, u, htSaid)  BY <1>1, HtStaysOk
<1>3. htRun[r].pc # "done"  BY DEF HtUnderWay
<1>4. u.step >= htRun[r].step  BY <1>1, HtPlanned DEF HtRunOk, HtTyped
<1> QED  BY <1>2, <1>3, <1>4, HtQuietly

(* The same where only its position changes.                               *)
LEMMA HtGoesOn ==
    ASSUME HtIInv, NEW r \in HtRuns, NEW pc \in HtUnderWay, HtKeeps,
           htRun' = [htRun EXCEPT ![r].pc = pc], htRun[r].pc \in HtUnderWay,
           pc \in {"send", "wait"} => htRun[r].pc \in {"send", "wait"}
    PROVE  HtIInv'
<1> DEFINE t == htRun[r]
<1>1. HtRecord(t) /\ t.loc \in HtOrigins \union {"none"}  BY DEF HtIInv, HtRunOk, HtTyped
<1>2. PICK u : u = [t EXCEPT !.pc = pc]  OBVIOUS
<1>3. htRun' = [htRun EXCEPT ![r] = u]  BY <1>2 DEF HtIInv
<1>4. t.pc \in HtUnderWay /\ (pc \in {"send", "wait"} => t.pc \in {"send", "wait"})  OBVIOUS
<1>5. /\ HtRecord(u) /\ u.pc = pc /\ u.step = t.step /\ u.bind = t.bind /\ u.org = t.org
      /\ u.size = t.size /\ u.egress = t.egress /\ u.plain = t.plain /\ u.perm = t.perm
      /\ u.asked = t.asked /\ u.limit = t.limit /\ u.loc = t.loc
  <2> HIDE DEF t
  <2> QED  BY <1>1, <1>2 DEF HtRecord
<1> QED  BY <1>1, <1>3, <1>4, <1>5, HtOnwards

(* The consents: an earlier one that stands, a question, a refusal.        *)
LEMMA HtAskInv ==
    ASSUME HtIInv, NEW r \in HtRuns, HtAsk(r) \/ HtRefuses(r)
    PROVE  HtIInv'
<1>1. HtKeeps /\ htRun[r].pc \in HtUnderWay /\ htRun[r].pc # "done"
  BY DEF HtAsk, HtRefuses, HtUnderWay
<1>2. CASE \E out : HtEnds(r, out)  BY <1>1, <1>2, HtEndsInv
<1>3. CASE ~\E out : HtEnds(r, out)
  <2>1. htRun' = [htRun EXCEPT ![r].pc = "ask"]  BY Zenon, <1>3 DEF HtAsk, HtRefuses
  <2>2. "ask" \in HtUnderWay /\ "ask" \notin {"send", "wait"}  BY DEF HtUnderWay
  <2> QED  BY <1>1, <2>1, <2>2, HtGoesOn
<1> QED  BY <1>2, <1>3

(* An earlier consent to every change stands.                              *)
LEMMA HtStandingInv == ASSUME HtIInv, NEW r \in HtRuns, HtStanding(r) PROVE HtIInv'
<1> DEFINE t == htRun[r]
<1>1. HtRunOk(r, t, htSaid) /\ t.pc = "clear" /\ HtKeeps  BY DEF HtIInv, HtStanding
<1>2. PICK u : u = [t EXCEPT !.perm = TRUE]  OBVIOUS
<1>3. htRun' = [htRun EXCEPT ![r] = u]  BY <1>2 DEF HtIInv, HtStanding
<1>4. HtMayChange(r, t.step, t.org, htSaid)
  BY Zenon DEF HtIInv, HtStanding, HtMayChange
<1> HIDE DEF t
<1>5. HtRecord(t) /\ t.step \in Nat  BY <1>1, HtPlanned DEF HtRunOk, HtTyped
<1>6. /\ HtRecord(u) /\ u.pc = t.pc /\ u.step = t.step /\ u.bind = t.bind /\ u.org = t.org
      /\ u.size = t.size /\ u.egress = t.egress /\ u.plain = t.plain
      /\ u.asked = t.asked /\ u.limit = t.limit /\ u.loc = t.loc
  BY <1>2, <1>5 DEF HtRecord
<1>7. HtTyped(r, u)  BY <1>1, <1>6 DEF HtRunOk, HtTyped
<1>8. HtBoundOk(r, u) /\ HtClearedOk(r, u)  BY <1>1, <1>6 DEF HtRunOk, HtBoundOk, HtClearedOk
<1>9. HtSaidOk(r, u, htSaid)  BY <1>1, <1>4, <1>6 DEF HtRunOk, HtSaidOk
<1>10. HtBytesOk(r, u, htSaid)  BY <1>1, <1>6 DEF HtRunOk, HtBytesOk
<1>11. HtRunOk(r, u, htSaid)  BY <1>7, <1>8, <1>9, <1>10 DEF HtRunOk
<1>12. htRun[r].pc # "done"  BY <1>1 DEF t
<1>13. u.step >= t.step  BY <1>5, <1>6
<1> QED  BY <1>1, <1>3, <1>6, <1>11, <1>12, <1>13, HtQuietly DEF t

(* A consent adds to what was said, and to what the run may do.            *)
LEMMA HtSays ==
    ASSUME HtIInv, NEW r \in HtRuns, NEW u, htRun' = [htRun EXCEPT ![r] = u],
           htSaid \subseteq htSaid', htSent' = htSent, htDoubt' = htDoubt,
           \A g \in htGrants' : g \in htGrants \/ <<"always", "mutation", g>> \in htSaid',
           HtRecord(u), htRun[r].pc \in HtUnderWay, u.pc \in HtUnderWay \ {"send", "wait"},
           u.step = htRun[r].step, u.bind = htRun[r].bind, u.org = htRun[r].org,
           u.size = htRun[r].size, u.loc = htRun[r].loc, u.limit \in Nat,
           u.perm => htRun[r].perm \/ <<r, "mutation", u.step>> \in htSaid',
           \A p \in u.egress : p \in htRun[r].egress \/ <<r, "egress", p>> \in htSaid',
           \A o \in u.plain : o \in htRun[r].plain \/ <<r, "plain", o>> \in htSaid',
           \/ u.asked = htRun[r].asked /\ u.limit = htRun[r].limit
           \/ u.limit <= HtCap /\ <<r, "bytes", u.limit>> \in htSaid'
    PROVE  HtIInv'
<1> DEFINE t == htRun[r]
<1>1. HtRunOk(r, t, htSaid')  BY HtSaidStays DEF HtIInv
<1>2. HtTyped(r, u)  BY <1>1 DEF HtRunOk, HtTyped
<1>3. HtBoundOk(r, u) /\ HtClearedOk(r, u)  BY <1>1 DEF HtRunOk, HtBoundOk, HtClearedOk
<1>4. HtSaidOk(r, u, htSaid')  BY Zenon, <1>1 DEF HtRunOk, HtSaidOk, HtMayChange
<1>5. HtBytesOk(r, u, htSaid')
  <2>1. u.asked => u.limit <= HtCap /\ <<r, "bytes", u.limit>> \in htSaid'
    BY Zenon, <1>1 DEF HtRunOk, HtBytesOk
  <2>2. u.size > HtAskAt => \E m \in u.size .. HtCap : <<r, "bytes", m>> \in htSaid'
    BY <1>1 DEF HtRunOk, HtBytesOk
  <2> QED  BY Zenon, <2>1, <2>2 DEF HtBytesOk
<1>6. HtRunOk(r, u, htSaid')  BY <1>2, <1>3, <1>4, <1>5 DEF HtRunOk
<1>7. htRun[r].pc # "done"  BY DEF HtUnderWay
<1>8. u.step >= htRun[r].step  BY <1>1, HtPlanned DEF HtRunOk, HtTyped
<1>9. \A k \in HtSecrets : u.bind[k] = htRun[r].bind[k]  OBVIOUS
<1> QED  BY Zenon, <1>6, <1>7, <1>8, <1>9, HtMoves

(* The user agrees.                                                        *)
LEMMA HtAgreesInv == ASSUME HtIInv, NEW r \in HtRuns, HtAgrees(r) PROVE HtIInv'
<1> DEFINE t == htRun[r]
<1>1. HtTyped(r, t) /\ t.pc = "ask"  BY DEF HtIInv, HtRunOk, HtAgrees
<1>2. htSent' = htSent /\ htDoubt' = htDoubt  BY Zenon DEF HtAgrees
<1>3. PICK u : /\ htRun' = [htRun EXCEPT ![r] = u]
               /\ \/ /\ u = [[t EXCEPT !.pc = "clear"] EXCEPT !.plain = @ \union {t.org}]
                     /\ htSaid' = htSaid \union {<<r, "plain", t.org>>} /\ htGrants' = htGrants
                  \/ \E p : /\ u = [[t EXCEPT !.pc = "clear"] EXCEPT !.egress = @ \union {p}]
                            /\ htSaid' = htSaid \union {<<r, "egress", p>>}
                            /\ htGrants' = htGrants
                  \/ /\ u = [[t EXCEPT !.pc = "clear"] EXCEPT !.perm = TRUE]
                     /\ <<r, "mutation", t.step>> \in htSaid' /\ htSaid \subseteq htSaid'
                     /\ \A g \in htGrants' : g \in htGrants \/ <<"always", "mutation", g>> \in htSaid'
  BY <1>1 DEF HtAgrees, HtTyped, HtRecord
<1>4. HtRecord(t)  BY <1>1 DEF HtTyped
<1> HIDE DEF t
<1>5. /\ HtRecord(u) /\ u.pc = "clear" /\ u.step = t.step /\ u.bind = t.bind /\ u.org = t.org
      /\ u.size = t.size /\ u.asked = t.asked /\ u.limit = t.limit /\ u.loc = t.loc
  BY <1>3, <1>4 DEF HtRecord
<1>6. htSaid \subseteq htSaid'  BY <1>3
<1>7. \A g \in htGrants' : g \in htGrants \/ <<"always", "mutation", g>> \in htSaid'  BY Zenon, <1>3
<1>8. u.perm => t.perm \/ <<r, "mutation", u.step>> \in htSaid'  BY <1>3, <1>4, <1>5 DEF HtRecord
<1>9. \A p \in u.egress : p \in t.egress \/ <<r, "egress", p>> \in htSaid'
  <2>1. u.egress = t.egress \/ \E p : u.egress = t.egress \union {p} /\ <<r, "egress", p>> \in htSaid'
    BY <1>3, <1>4 DEF HtRecord
  <2> QED  BY Zenon, <2>1
<1>10. \A o \in u.plain : o \in t.plain \/ <<r, "plain", o>> \in htSaid'
  <2>1. u.plain = t.plain \/ (u.plain = t.plain \union {t.org} /\ <<r, "plain", t.org>> \in htSaid')
    BY <1>3, <1>4 DEF HtRecord
  <2> QED  BY Zenon, <2>1
<1>11. "clear" \in HtUnderWay /\ "ask" \in HtUnderWay  BY DEF HtUnderWay
<1>12. u.limit \in Nat  BY <1>1, <1>5 DEF HtTyped
<1> QED
  BY <1>1, <1>2, <1>3, <1>5, <1>6, <1>7, <1>8, <1>9, <1>10, <1>11, <1>12, HtSays DEF t

(* The transfer: a run that lacks no consent may send.                     *)
LEMMA HtAcquireInv == ASSUME HtIInv, NEW r \in HtRuns, HtAcquire(r) PROVE HtIInv'
<1>1. HtKeeps /\ htRun[r].pc = "clear" /\ HtNeeds(r) = "none"  BY DEF HtAcquire
<1>2. CASE \E out : HtEnds(r, out)  BY <1>1, <1>2, HtEndsInv
<1>3. CASE ~\E out : HtEnds(r, out)
  <2> DEFINE t == htRun[r]
             s == HtPlan[r][t.step]
  <2>1. htRun' = [htRun EXCEPT ![r].pc = "send"]  BY Zenon, <1>3 DEF HtAcquire
  <2>2. PICK u : u = [t EXCEPT !.pc = "send"]  OBVIOUS
  <2>3. htRun' = [htRun EXCEPT ![r] = u]  BY <2>1, <2>2 DEF HtIInv
  <2>4. HtRunOk(r, t, htSaid) /\ HtRecord(t) /\ t.step \in DOMAIN HtPlan[r] /\ s \in HtSteps
    BY HtPlanned DEF HtIInv, HtRunOk, HtTyped
  <2>5. /\ s.mut => t.perm
        /\ s.secrets # {} /\ t.org \in HtPlain => t.org \in t.plain
        /\ HtLeaks(r) = {}
    BY Zenon, <1>1 DEF HtNeeds, HtStepOf
  <2>6. \A k \in s.secrets : t.bind[k] = t.org \/ <<t.bind[k], t.org>> \in t.egress
    <3>1. SUFFICES ASSUME NEW k \in s.secrets, <<t.bind[k], t.org>> \notin t.egress
                   PROVE  t.bind[k] = t.org  BY Zenon
    <3>2. <<t.bind[k], t.org>> = <<t.org, t.org>>
      BY Zenon, <2>5, <3>1 DEF HtLeaks, HtStepOf
    <3> QED  BY <3>2
  <2> HIDE DEF t
  <2>7. /\ HtRecord(u) /\ u.pc = "send" /\ u.step = t.step /\ u.bind = t.bind /\ u.org = t.org
        /\ u.size = t.size /\ u.egress = t.egress /\ u.plain = t.plain /\ u.perm = t.perm
        /\ u.asked = t.asked /\ u.limit = t.limit /\ u.loc = t.loc
    BY <2>2, <2>4 DEF HtRecord
  <2>8. t.pc = "clear" /\ "clear" \in HtUnderWay  BY <1>1 DEF HtUnderWay, t
  <2>9. HtTyped(r, u)  BY <2>4, <2>7 DEF HtRunOk, HtTyped
  <2>10. HtBoundOk(r, u)  BY <2>4, <2>7, <2>8 DEF HtRunOk, HtBoundOk
  <2>11. HtSaidOk(r, u, htSaid)  BY <2>4, <2>7, <2>8 DEF HtRunOk, HtSaidOk
  <2>12. HtBytesOk(r, u, htSaid)  BY <2>4, <2>7 DEF HtRunOk, HtBytesOk
  <2>13. HtClearedOk(r, u)  BY Zenon, <2>5, <2>6, <2>7 DEF HtClearedOk
  <2>14. HtRunOk(r, u, htSaid)  BY <2>9, <2>10, <2>11, <2>12, <2>13 DEF HtRunOk
  <2>15. u.step >= t.step  BY <2>4, <2>7, HtPlanned
  <2> QED  BY <1>1, <2>3, <2>7, <2>14, <2>15, HtQuietly DEF t
<1> QED  BY <1>2, <1>3

(* A request leaves, covered by what was said.                             *)
LEMMA HtSendInv == ASSUME HtIInv, NEW r \in HtRuns, HtSend(r) PROVE HtIInv'
<1>1. htRun[r].pc = "send" /\ UNCHANGED <<htOn, htGrants, htSaid, htDoubt>>  BY DEF HtSend
<1>2. CASE UNCHANGED htSent /\ \E out : HtEnds(r, out)
  BY Zenon, <1>1, <1>2, HtEndsInv DEF HtKeeps
<1>3. CASE ~(UNCHANGED htSent /\ \E out : HtEnds(r, out))
  <2> DEFINE t == htRun[r]
             s == HtPlan[r][t.step]
             x == [run |-> r, step |-> t.step, to |-> t.org, secrets |-> s.secrets, mut |-> s.mut]
  <2>1. htRun' = [htRun EXCEPT ![r].pc = "wait"] /\ htSent' = htSent \union {x}
    BY Zenon, <1>3 DEF HtSend, HtStepOf
  <2>2. PICK u : u = [t EXCEPT !.pc = "wait"]  OBVIOUS
  <2>3. htRun' = [htRun EXCEPT ![r] = u]  BY <2>1, <2>2 DEF HtIInv
  <2>4. HtRunOk(r, t, htSaid) /\ HtRecord(t) /\ t.step \in DOMAIN HtPlan[r] /\ s \in HtSteps
        /\ t.step \in Nat
    BY HtPlanned DEF HtIInv, HtRunOk, HtTyped
  <2>5. t.pc = "send" /\ t.pc \in HtUnderWay  BY <1>1 DEF HtUnderWay
  <2> HIDE DEF t
  <2>6. /\ HtRecord(u) /\ u.pc = "wait" /\ u.step = t.step /\ u.bind = t.bind /\ u.org = t.org
        /\ u.size = t.size /\ u.egress = t.egress /\ u.plain = t.plain /\ u.perm = t.perm
        /\ u.asked = t.asked /\ u.limit = t.limit /\ u.loc = t.loc
    BY <2>2, <2>4 DEF HtRecord
  <2>7. u.pc \in HtUnderWay /\ u.loc \in HtOrigins \union {"none"}
    BY <2>4, <2>6 DEF HtUnderWay, HtRunOk, HtTyped
  <2>8. HtRunOk(r, u, htSaid)  BY <2>4, <2>5, <2>6, <2>7, HtStaysOk
  <2>9. HtSentOk(x, u, htSaid)
    <3>1. HtClearedOk(r, t) /\ HtSaidOk(r, t, htSaid) /\ HtBoundOk(r, t)  BY <2>4 DEF HtRunOk
    <3>2. s.mut => HtMayChange(r, t.step, t.org, htSaid)
      BY Zenon, <2>5, <3>1 DEF HtClearedOk, HtSaidOk
    <3>3. s.secrets # {} /\ t.org \in HtPlain => <<r, "plain", t.org>> \in htSaid
      BY Zenon, <2>5, <3>1 DEF HtClearedOk, HtSaidOk
    <3>4. ASSUME NEW k \in s.secrets
          PROVE  /\ t.bind[k] \in HtOrigins \ {"none"}
                 /\ t.org = t.bind[k] \/ <<r, "egress", <<t.bind[k], t.org>>>> \in htSaid
      BY Zenon, <2>5, <3>1 DEF HtClearedOk, HtSaidOk, HtBoundOk
    <3>5. x.run = r /\ x.step = t.step /\ x.to = t.org /\ x.secrets = s.secrets /\ x.mut = s.mut
      OBVIOUS
    <3>6. x.step <= u.step  BY <2>4, <2>6, <3>5
    <3> HIDE DEF x, s
    <3>7. (x.mut => HtMayChange(x.run, x.step, x.to, htSaid))  BY Zenon, <3>2, <3>5
    <3> QED  BY Zenon, <2>4, <2>6, <3>3, <3>4, <3>5, <3>6, <3>7 DEF HtSentOk, s
  <2>10. x.run = r  OBVIOUS
  <2>11. u.step >= t.step  BY <2>4, <2>6
  <2>12. \A y \in htSent' : y \in htSent \/ (y.run = r /\ HtSentOk(y, u, htSaid'))
    <3> HIDE DEF x
    <3>1. htSaid' = htSaid  BY <1>1
    <3> QED  BY <2>1, <2>9, <2>10, <3>1
  <2>13. htSaid' = htSaid /\ htGrants' = htGrants /\ htDoubt' = htDoubt  BY Zenon, <1>1
  <2>14. htRun[r].pc # "done"  BY <1>1
  <2>15. HtRunOk(r, u, htSaid')  BY <2>8, <2>13
  <2>16. \A k \in HtSecrets : u.bind[k] = htRun[r].bind[k]  BY <2>6 DEF t
  <2>17. u.step >= htRun[r].step  BY <2>11 DEF t
  <2>18. /\ htSaid \subseteq htSaid'
         /\ \A g \in htGrants' : g \in htGrants \/ <<"always", "mutation", g>> \in htSaid'
         /\ \A d \in htDoubt' : d \in htDoubt \/ (d[1] = r /\ u.pc = "done" /\ u.out \in HtLeftOpen)
    BY Zenon, <2>13
  <2> QED  BY <2>3, <2>12, <2>14, <2>15, <2>16, <2>17, <2>18, HtMoves
<1> QED  BY <1>2, <1>3

(* No response: a change that left is in doubt, and reported so.           *)
LEMMA HtNoReplyInv == ASSUME HtIInv, NEW r \in HtRuns, HtNoReply(r) PROVE HtIInv'
<1> DEFINE t == htRun[r]
<1>1. PICK o \in {HtFailed(r), "timed_out", "cancelled"} : HtEnds(r, o)  BY DEF HtNoReply
<1>2. PICK u : u = [t EXCEPT !.pc = "done", !.out = o, !.declared = 0]  OBVIOUS
<1>3. htRun' = [htRun EXCEPT ![r] = u]  BY <1>1, <1>2 DEF HtEnds
<1>4. HtRunOk(r, t, htSaid) /\ HtRecord(t) /\ t.step \in DOMAIN HtPlan[r] /\ t.step \in Nat
  BY HtPlanned DEF HtIInv, HtRunOk, HtTyped
<1>5. t.pc = "wait" /\ htSaid' = htSaid /\ htGrants' = htGrants /\ htSent' = htSent
  BY Zenon DEF HtNoReply
<1>6. \A d \in htDoubt' : d \in htDoubt \/ (HtStepOf(r).mut /\ d = <<r, t.step>>)
  BY Zenon DEF HtNoReply
<1>7. HtStepOf(r).mut => o \in HtLeftOpen  BY <1>1 DEF HtFailed, HtLeftOpen
<1> HIDE DEF t
<1>8. /\ HtRecord(u) /\ u.pc = "done" /\ u.step = t.step /\ u.bind = t.bind /\ u.out = o
      /\ u.egress = t.egress /\ u.plain = t.plain /\ u.size = t.size /\ u.limit = t.limit
      /\ u.loc = t.loc /\ u.asked = t.asked
  BY <1>2, <1>4 DEF HtRecord
<1>9. HtRunOk(r, u, htSaid')  BY <1>4, <1>5, <1>8, HtEndOk
<1>10. \A d \in htDoubt' : d \in htDoubt \/ (d[1] = r /\ u.pc = "done" /\ u.out \in HtLeftOpen)
  BY <1>6, <1>7, <1>8
<1>11. u.step >= htRun[r].step  BY <1>4, <1>8 DEF t
<1>12. htRun[r].pc # "done"  BY <1>5 DEF t
<1>13. \A k \in HtSecrets : u.bind[k] = htRun[r].bind[k]  BY <1>8 DEF t
<1> QED  BY Zenon, <1>3, <1>5, <1>9, <1>10, <1>11, <1>12, <1>13, HtMoves

(* A response; a redirect is followed only to where the step was cleared.  *)
LEMMA HtReplyInv == ASSUME HtIInv, NEW r \in HtRuns, HtRedirect(r) \/ HtReply(r) PROVE HtIInv'
<1> DEFINE t == htRun[r]
<1>1. HtKeeps /\ t.pc = "wait" /\ HtRecord(t)  BY DEF HtRedirect, HtReply, HtIInv, HtRunOk, HtTyped
<1>2. \/ \E o \in HtOrigins \union {"none"} : \E good :
            htRun' = [htRun EXCEPT ![r] = [t EXCEPT !.pc = "body", !.loc = o, !.good = good]]
      \/ htRun' = [htRun EXCEPT ![r] = [t EXCEPT !.pc = "send", !.hops = t.hops + 1, !.org = t.org]]
  <2>1. CASE HtReply(r)  BY Zenon, <2>1 DEF HtReply
  <2>2. CASE HtRedirect(r)
    <3>1. PICK o \in HtOrigins, keeps \in BOOLEAN :
            htRun' = [htRun EXCEPT ![r] =
               IF HtFollows(r, o, keeps)
               THEN [@ EXCEPT !.pc = "send", !.hops = htRun[r].hops + 1, !.org = o]
               ELSE [@ EXCEPT !.pc = "body", !.loc = o, !.good = FALSE]]
      BY Zenon, <2>2 DEF HtRedirect
    <3>2. CASE HtFollows(r, o, keeps)
      <4>1. o = t.org  BY Zenon, <3>2 DEF HtFollows
      <4>2. htRun' = [htRun EXCEPT ![r] = [t EXCEPT !.pc = "send", !.hops = t.hops + 1, !.org = o]]
        BY <3>1, <3>2
      <4> QED  BY Zenon, <4>1, <4>2
    <3>3. CASE ~HtFollows(r, o, keeps)
      <4>1. htRun' = [htRun EXCEPT ![r] = [t EXCEPT !.pc = "body", !.loc = o, !.good = FALSE]]
        BY Zenon, <3>1, <3>3
      <4> QED  BY Zenon, <4>1
    <3> QED  BY <3>2, <3>3
  <2> QED  BY <2>1, <2>2
<1>3. PICK u : /\ htRun' = [htRun EXCEPT ![r] = u]
               /\ \/ \E o \in HtOrigins \union {"none"} : \E good :
                        u = [t EXCEPT !.pc = "body", !.loc = o, !.good = good]
                  \/ u = [t EXCEPT !.pc = "send", !.hops = t.hops + 1, !.org = t.org]
  BY Zenon, <1>2
<1>4. t.loc \in HtOrigins \union {"none"}  BY DEF HtIInv, HtRunOk, HtTyped
<1> HIDE DEF t
<1>5. /\ HtRecord(u) /\ u.pc \in {"body", "send"} /\ u.step = t.step /\ u.bind = t.bind
      /\ u.org = t.org /\ u.size = t.size /\ u.egress = t.egress /\ u.plain = t.plain
      /\ u.perm = t.perm /\ u.asked = t.asked /\ u.limit = t.limit
      /\ u.loc \in HtOrigins \union {"none"}
  BY ZenonT(30), <1>1, <1>3, <1>4 DEF HtRecord
<1>6. t.pc \in HtUnderWay /\ u.pc \in HtUnderWay  BY <1>1, <1>5 DEF HtUnderWay
<1> QED  BY <1>1, <1>3, <1>5, <1>6, HtOnwards DEF t

(* What is extracted belongs to the origin it came from.                   *)
LEMMA HtExtractsInv ==
    ASSUME HtIInv, NEW r \in HtRuns, NEW t, HtKeeps, HtExtracts(r, t), HtRunOk(r, t, htSaid),
           t.pc \in {"body", "read"}, htRun[r].pc # "done", t.step = htRun[r].step,
           t.bind = htRun[r].bind
    PROVE  HtIInv'
<1>1. CASE \E out : HtEnds(r, out)  BY <1>1, HtEndsInv
<1>2. CASE ~\E out : HtEnds(r, out)
  <2> DEFINE b == IF HtStepOf(r).takes THEN [t.bind EXCEPT !["var"] = t.org] ELSE t.bind
  <2>1. PICK u : HtDone(r, u) /\ u = [t EXCEPT !.bind = b]  BY Zenon, <1>2 DEF HtExtracts
  <2>2. HtTyped(r, t) /\ HtBoundOk(r, t)  BY DEF HtRunOk
  <2>3. t.org \in HtOrigins \ {"none"}  BY <2>2 DEF HtBoundOk, HtUnderWay
  <2>4. b \in [HtSecrets -> HtOrigins \union {"none"}]  BY <2>2, <2>3 DEF HtTyped
  <2>5. \A k \in HtSecrets : b[k] = t.bind[k] \/ (b[k] = t.org /\ k = "var" /\ HtStepOf(r).takes)
    BY <2>2 DEF HtTyped
  <2> HIDE DEF b
  <2>6. /\ HtRecord(u) /\ u.pc = t.pc /\ u.step = t.step /\ u.bind = b /\ u.org = t.org
        /\ u.size = t.size /\ u.egress = t.egress /\ u.plain = t.plain /\ u.perm = t.perm
        /\ u.asked = t.asked /\ u.limit = t.limit /\ u.loc = t.loc
    BY <2>1, <2>2 DEF HtRecord, HtTyped
  <2>7. HtTyped(r, u)  BY <2>2, <2>4, <2>6 DEF HtTyped
  <2>8. HtBoundOk(r, u)
    <3>1. HtPlan[r][t.step].secrets \subseteq HtSecrets  BY <2>2, HtPlanned DEF HtTyped, HtSteps
    <3>2. \A k \in HtPlan[r][t.step].secrets : t.bind[k] \in HtOrigins \ {"none"}
      BY <2>2, <2>3 DEF HtBoundOk, HtUnderWay
    <3> QED  BY <2>2, <2>3, <2>5, <2>6, <3>1, <3>2 DEF HtBoundOk
  <2>9. HtClearedOk(r, u)  BY <2>6 DEF HtClearedOk
  <2>10. HtSaidOk(r, u, htSaid)  BY <2>6 DEF HtRunOk, HtSaidOk
  <2>11. HtBytesOk(r, u, htSaid)  BY <2>6 DEF HtRunOk, HtBytesOk
  <2>12. HtRunOk(r, u, htSaid)  BY <2>7, <2>8, <2>9, <2>10, <2>11 DEF HtRunOk
  <2>13. u.step = htRun[r].step  BY <2>6
  <2>14. \A k \in HtSecrets : u.bind[k] = htRun[r].bind[k] \/ (k = "var" /\ HtStepOf(r).takes)
    BY Zenon, <2>5, <2>6
  <2> QED  BY <2>1, <2>12, <2>13, <2>14, HtDoneInv
<1> QED  BY <1>1, <1>2

(* The body of an answer that is read at once.                             *)
LEMMA HtInlineInv == ASSUME HtIInv, NEW r \in HtRuns, HtInline(r) PROVE HtIInv'
<1>1. /\ HtKeeps /\ htRun[r].pc = "body" /\ HtRunOk(r, htRun[r], htSaid)
      /\ HtExtracts(r, htRun[r]) \/ \E out : HtEnds(r, out)
  BY DEF HtInline, HtIInv
<1> QED  BY <1>1, HtEndsInv, HtExtractsInv

(* A download: what is declared ...                                        *)
LEMMA HtDeclaredInv == ASSUME HtIInv, NEW r \in HtRuns, HtDeclared(r) \/ HtOpen(r) PROVE HtIInv'
<1> DEFINE t == htRun[r]
<1>1. HtKeeps /\ t.pc \in {"body", "open"} /\ HtRunOk(r, t, htSaid)
  BY DEF HtDeclared, HtOpen, HtIInv
<1>2. CASE \E out : HtEnds(r, out)  BY <1>1, <1>2, HtEndsInv
<1>3. CASE t.pc = "body" /\ HtExtracts(r, t)  BY <1>1, <1>3, HtExtractsInv
<1>4. CASE ~(t.pc = "body" /\ HtExtracts(r, t)) /\ ~\E out : HtEnds(r, out)
  <2>1. PICK u : /\ htRun' = [htRun EXCEPT ![r] = u]
                 /\ \/ \E d : u = [t EXCEPT !.pc = "big", !.declared = d]
                    \/ u = [t EXCEPT !.pc = "open"] \/ u = [t EXCEPT !.pc = "read"]
    <3>1. \/ \E d : htRun' = [htRun EXCEPT ![r] = [t EXCEPT !.pc = "big", !.declared = d]]
          \/ htRun' = [htRun EXCEPT ![r].pc = "open"] \/ htRun' = [htRun EXCEPT ![r].pc = "read"]
      BY Zenon, <1>4 DEF HtDeclared, HtOpen
    <3>2. \A pc : [htRun EXCEPT ![r].pc = pc] = [htRun EXCEPT ![r] = [t EXCEPT !.pc = pc]]
      BY DEF HtIInv
    <3> QED  BY Zenon, <3>1, <3>2
  <2>2. HtRecord(t) /\ t.loc \in HtOrigins \union {"none"} /\ t.pc \in HtUnderWay
    BY <1>1 DEF HtRunOk, HtTyped, HtUnderWay
  <2> HIDE DEF t
  <2>3. /\ HtRecord(u) /\ u.pc \in {"big", "open", "read"} /\ u.step = t.step /\ u.bind = t.bind
        /\ u.org = t.org /\ u.size = t.size /\ u.egress = t.egress /\ u.plain = t.plain
        /\ u.perm = t.perm /\ u.asked = t.asked /\ u.limit = t.limit /\ u.loc = t.loc
    BY <2>1, <2>2 DEF HtRecord
  <2>4. u.pc \in HtUnderWay /\ u.pc \notin {"send", "wait"}  BY <2>3 DEF HtUnderWay
  <2> QED  BY <1>1, <2>1, <2>2, <2>3, <2>4, HtOnwards DEF t
<1> QED  BY <1>2, <1>3, <1>4

(* ... and what the user agreed to.                                        *)
LEMMA HtBigInv == ASSUME HtIInv, NEW r \in HtRuns, HtBigAgreed(r) \/ HtResumes(r) PROVE HtIInv'
<1> DEFINE t == htRun[r]
<1>1. /\ t.pc \in {"big", "pause"} /\ HtRunOk(r, t, htSaid) /\ HtRecord(t)
      /\ t.loc \in HtOrigins \union {"none"}
  BY DEF HtBigAgreed, HtResumes, HtIInv, HtRunOk, HtTyped
<1>2. UNCHANGED <<htOn, htSent, htGrants, htDoubt>>  BY Zenon DEF HtBigAgreed, HtResumes
<1>3. CASE HtEnds(r, "quota_exceeded") /\ UNCHANGED htSaid
  <2>1. HtKeeps  BY <1>2, <1>3 DEF HtKeeps
  <2> QED  BY <1>1, <1>3, <2>1, HtEndsInv
<1>4. CASE ~(HtEnds(r, "quota_exceeded") /\ UNCHANGED htSaid)
  <2>1. PICK m \in 1 .. HtCap :
          /\ htSaid' = htSaid \union {<<r, "bytes", m>>}
          /\ \/ htRun' = [htRun EXCEPT ![r] = [t EXCEPT !.pc = "open", !.declared = 0,
                                                       !.limit = m, !.asked = TRUE]]
             \/ htRun' = [htRun EXCEPT ![r] = [t EXCEPT !.pc = "read", !.limit = m, !.asked = TRUE]]
    BY Zenon, <1>4 DEF HtBigAgreed, HtResumes
  <2>2. PICK u : /\ htRun' = [htRun EXCEPT ![r] = u]
                 /\ \/ u = [t EXCEPT !.pc = "open", !.declared = 0, !.limit = m, !.asked = TRUE]
                    \/ u = [t EXCEPT !.pc = "read", !.limit = m, !.asked = TRUE]
    BY Zenon, <2>1
  <2> HIDE DEF t
  <2>3. /\ HtRecord(u) /\ u.pc \in {"open", "read"} /\ u.step = t.step /\ u.bind = t.bind
        /\ u.org = t.org /\ u.size = t.size /\ u.egress = t.egress /\ u.plain = t.plain
        /\ u.perm = t.perm /\ u.limit = m /\ u.loc = t.loc
    BY <1>1, <2>2 DEF HtRecord
  <2>4. t.pc \in HtUnderWay /\ u.pc \in HtUnderWay \ {"send", "wait"}
    BY <1>1, <2>3 DEF HtUnderWay
  <2>5. u.limit \in Nat /\ u.limit <= HtCap /\ <<r, "bytes", u.limit>> \in htSaid'
    BY <2>1, <2>3, HtAssumption
  <2>6. htSaid \subseteq htSaid'  BY <2>1
  <2>7. htSent' = htSent /\ htDoubt' = htDoubt /\ htGrants' = htGrants  BY Zenon, <1>2
  <2> QED  BY <2>2, <2>3, <2>4, <2>5, <2>6, <2>7, HtSays DEF t
<1> QED  BY <1>3, <1>4

(* A block is read: below the threshold, or within what was agreed to.     *)
LEMMA HtBlockOk ==
    ASSUME NEW r, NEW t, NEW u, NEW said, HtRunOk(r, t, said), t.pc = "read",
           ~(~t.asked /\ t.size >= HtAskAt), ~(t.size >= t.limit), HtRecord(u), u.pc = t.pc,
           u.size \in {t.size, t.size + 1}, u.step = t.step, u.bind = t.bind, u.org = t.org,
           u.egress = t.egress, u.plain = t.plain, u.perm = t.perm, u.asked = t.asked,
           u.limit = t.limit, u.loc = t.loc
    PROVE  HtRunOk(r, u, said)
<1>1. t.size \in Nat /\ t.limit \in Nat /\ u.size \in Nat /\ HtTyped(r, u)
  BY DEF HtRunOk, HtTyped
<1>2. HtBoundOk(r, u) /\ HtClearedOk(r, u)  BY DEF HtRunOk, HtBoundOk, HtClearedOk
<1>3. HtSaidOk(r, u, said)  BY DEF HtRunOk, HtSaidOk
<1>4. HtBytesOk(r, u, said)
  <2>1. CASE t.asked
    <3>1. t.limit <= HtCap /\ <<r, "bytes", t.limit>> \in said  BY <2>1 DEF HtRunOk, HtBytesOk
    <3>2. t.limit \in u.size .. HtCap  BY <1>1, <3>1, HtAssumption
    <3> QED  BY Zenon, <3>1, <3>2 DEF HtBytesOk
  <2>2. CASE ~t.asked
    <3>1. t.size < HtAskAt  BY <1>1, <2>2, HtAssumption
    <3>2. ~(u.size > HtAskAt)  BY <1>1, <3>1, HtAssumption
    <3> QED  BY Zenon, <2>2, <3>2 DEF HtBytesOk
  <2> QED  BY <2>1, <2>2
<1> QED  BY <1>1, <1>2, <1>3, <1>4 DEF HtRunOk

(* A turn of the read loop.                                                *)
LEMMA HtReadInv == ASSUME HtIInv, NEW r \in HtRuns, HtRead(r) PROVE HtIInv'
<1> DEFINE t == htRun[r]
<1>1. /\ HtKeeps /\ t.pc = "read" /\ HtRunOk(r, t, htSaid) /\ HtRecord(t)
      /\ t.step \in DOMAIN HtPlan[r]
  BY DEF HtRead, HtIInv, HtRunOk, HtTyped
<1>2. CASE \E out : HtEnds(r, out)  BY <1>1, <1>2, HtEndsInv
<1>3. CASE htRun' = [htRun EXCEPT ![r].pc = "pause"]
  <2>1. "pause" \in HtUnderWay \ {"send", "wait"} /\ "read" \in HtUnderWay  BY DEF HtUnderWay
  <2> QED  BY <1>1, <1>3, <2>1, HtGoesOn
<1>4. CASE ~(\E out : HtEnds(r, out)) /\ htRun' # [htRun EXCEPT ![r].pc = "pause"]
  <2>1. /\ ~HtPauses(r) /\ ~(t.size >= t.limit)
        /\ \/ htRun' = [htRun EXCEPT ![r].size = @ + 1]
           \/ \E n \in {0, 1} : HtExtracts(r, [t EXCEPT !.size = @ + n])
    BY Zenon, <1>4 DEF HtRead
  <2>2. ~(~t.asked /\ t.size >= HtAskAt)  BY Zenon, <2>1 DEF HtPauses
  <2>3. CASE htRun' = [htRun EXCEPT ![r].size = @ + 1]
    <3>1. PICK u : u = [t EXCEPT !.size = @ + 1]  OBVIOUS
    <3>2. htRun' = [htRun EXCEPT ![r] = u]  BY <2>3, <3>1 DEF HtIInv
    <3>3. ~(t.size >= t.limit)  BY <2>1
    <3> HIDE DEF t
    <3>4. /\ HtRecord(u) /\ u.pc = t.pc /\ u.step = t.step /\ u.bind = t.bind
          /\ u.org = t.org /\ u.size = t.size + 1 /\ u.egress = t.egress /\ u.plain = t.plain
          /\ u.perm = t.perm /\ u.asked = t.asked /\ u.limit = t.limit /\ u.loc = t.loc
      BY <1>1, <3>1 DEF HtRecord
    <3>5. u.size \in {t.size, t.size + 1}  BY <3>4
    <3>6. HtRunOk(r, u, htSaid)  BY <1>1, <2>2, <3>3, <3>4, <3>5, HtBlockOk
    <3>7. t.pc # "done" /\ u.step >= t.step  BY <1>1, <3>4, HtPlanned
    <3> QED  BY <1>1, <3>2, <3>4, <3>6, <3>7, HtQuietly DEF t
  <2>4. CASE \E n \in {0, 1} : HtExtracts(r, [t EXCEPT !.size = @ + n])
    <3>1. PICK n, u : n \in {0, 1} /\ HtExtracts(r, u) /\ u = [t EXCEPT !.size = @ + n]  BY <2>4
    <3>2. ~(t.size >= t.limit) /\ t.size \in Nat  BY <1>1, <2>1 DEF HtRunOk, HtTyped
    <3> HIDE DEF t
    <3>4. /\ HtRecord(u) /\ u.pc = t.pc /\ u.step = t.step /\ u.bind = t.bind
          /\ u.org = t.org /\ u.size = t.size + n /\ u.egress = t.egress /\ u.plain = t.plain
          /\ u.perm = t.perm /\ u.asked = t.asked /\ u.limit = t.limit /\ u.loc = t.loc
      BY <1>1, <3>1 DEF HtRecord
    <3>5. u.size \in {t.size, t.size + 1}  BY <3>1, <3>2, <3>4
    <3>6. HtRunOk(r, u, htSaid)  BY <1>1, <2>2, <3>2, <3>4, <3>5, HtBlockOk
    <3>7. t.pc # "done" /\ u.step = t.step  BY <1>1, <3>4
    <3> QED  BY <1>1, <3>1, <3>4, <3>6, <3>7, HtExtractsInv DEF t
  <2> QED  BY <2>1, <2>3, <2>4
<1> QED  BY <1>2, <1>3, <1>4

(* Every step keeps the invariant.                                         *)
LEMMA HtStepInv == ASSUME HtIInv, [HtNext]_htVars PROVE HtIInv'
<1>1. CASE UNCHANGED htVars
  <2>1. htRun' = htRun /\ htSent' = htSent /\ htSaid' = htSaid /\ htGrants' = htGrants /\ htDoubt' = htDoubt
    BY Zenon, <1>1 DEF htVars
  <2> QED  BY <2>1 DEF HtIInv
<1>2. CASE HtSetEnabled \/ HtRevoke
  <2>1. htRun' = htRun /\ htSent' = htSent /\ htSaid' = htSaid /\ htDoubt' = htDoubt
    BY Zenon, <1>2 DEF HtSetEnabled, HtRevoke
  <2>2. htGrants' \subseteq htGrants  BY <1>2 DEF HtSetEnabled, HtRevoke
  <2> QED  BY <2>1, <2>2 DEF HtIInv
<1>3. ASSUME NEW r \in HtRuns, HtWork(r) PROVE HtIInv'
  BY <1>3, HtPrepareInv, HtStandingInv, HtAskInv, HtAgreesInv, HtAcquireInv, HtSendInv,
     HtNoReplyInv, HtReplyInv, HtInlineInv, HtDeclaredInv, HtBigInv, HtReadInv
  DEF HtWork
<1> QED  BY Zenon, <1>1, <1>2, <1>3 DEF HtNext

(* What HtSafe asks for follows from the invariant: a secret's home is the *)
(* origin it is bound to.                                                  *)
LEMMA HtIInvSafe == HtIInv => HtSafe
<1> SUFFICES ASSUME HtIInv PROVE HtSafe  OBVIOUS
<1>1. HtSecretsStay
  <2>1. ASSUME NEW r \in HtRuns, NEW k \in HtSecrets,
               {x.to : x \in {x \in htSent : x.run = r /\ k \in x.secrets}} # {}
        PROVE  \E home \in HtOrigins :
                  \A o \in {x.to : x \in {x \in htSent : x.run = r /\ k \in x.secrets}} \ {home} :
                     <<r, "egress", <<home, o>>>> \in htSaid
    <3>1. \A x \in htSent : x.run = r /\ k \in x.secrets =>
             /\ htRun[r].bind[k] \in HtOrigins
             /\ x.to = htRun[r].bind[k] \/ <<r, "egress", <<htRun[r].bind[k], x.to>>>> \in htSaid
      BY DEF HtIInv, HtSentOk
    <3>2. htRun[r].bind[k] \in HtOrigins  BY <2>1, <3>1
    <3> QED  BY <3>1, <3>2
  <2>2. ASSUME NEW r \in HtRuns, NEW k \in HtSecrets,
               NEW o \in {x.to : x \in {x \in htSent : x.run = r /\ k \in x.secrets}} \cap HtPlain
        PROVE  <<r, "plain", o>> \in htSaid
    BY DEF HtIInv, HtSentOk
  <2> QED  BY <2>1, <2>2 DEF HtSecretsStay
<1>2. HtChangesAgreed  BY Zenon DEF HtIInv, HtSentOk, HtMayChange, HtChangesAgreed
<1>3. HtBytesAgreed  BY Zenon DEF HtIInv, HtRunOk, HtBytesOk, HtBytesAgreed
<1>4. HtDoubtReported  BY DEF HtIInv, HtDoubtReported, HtLeftOpen
<1> QED  BY <1>1, <1>2, <1>3, <1>4 DEF HtSafe

-----------------------------------------------------------------------------
(* The artifact store.  A row that is committed, or was when it was listed,*)
(* has no lease, so that writing it back gives none to a download.         *)

ArNoLease(r) == r.state = "ready" => ~r.leased

ArLeases ==
    /\ arRow = [f \in ArIds |-> arRow[f]] /\ arFile = [f \in ArIds |-> arFile[f]]
    /\ arWriter = [f \in ArIds |-> arWriter[f]]
    /\ \A f \in ArIds :
          /\ arRow[f] = [state |-> arRow[f].state, boot |-> arRow[f].boot,
                         leased |-> arRow[f].leased, old |-> arRow[f].old]
          /\ arSweep.known[f] = [state |-> arSweep.known[f].state, boot |-> arSweep.known[f].boot,
                         leased |-> arSweep.known[f].leased, old |-> arSweep.known[f].old]
          /\ ArNoLease(arRow[f]) /\ ArNoLease(arSweep.known[f])
    /\ arSweep = [pc |-> arSweep.pc, known |-> arSweep.known, left |-> arSweep.left]

ArIInv == ArLeases /\ ArLivePartKept

\* What a step may do to a download: it keeps its file while the lease lasts.
ArKeeps(f) ==
    /\ arRow'[f] = [state |-> arRow'[f].state, boot |-> arRow'[f].boot,
                    leased |-> arRow'[f].leased, old |-> arRow'[f].old]
    /\ arRow'[f].state = "ready" => ~arRow'[f].leased
    /\ \/ arWriter'[f] # "open"
       \/ arRow'[f] = ArNoRow \/ ~arRow'[f].leased \/ arRow'[f].boot # arBoot'
       \/ arFile'[f] = "part"
       \/ f \in arBlind'
       \/ /\ arWriter[f] = "open" /\ arFile'[f] = arFile[f]
          /\ arRow[f] # ArNoRow /\ arRow[f].boot = arRow'[f].boot
          /\ arRow[f].leased = arRow'[f].leased
          /\ arBoot' = arBoot /\ arBlind \subseteq arBlind'

(* A step whose rows, files and writers agree one by one keeps the         *)
(* invariant.                                                              *)
LEMMA ArMoves ==
    ASSUME ArIInv, arRow' = [f \in ArIds |-> arRow'[f]], arFile' = [f \in ArIds |-> arFile'[f]],
           arWriter' = [f \in ArIds |-> arWriter'[f]], \A f \in ArIds : ArKeeps(f),
           arSweep' = [pc |-> arSweep'.pc, known |-> arSweep'.known, left |-> arSweep'.left],
           arSweep'.known \in {arSweep.known, arRow, ArNoRows}
    PROVE  ArIInv'
<1>1. ASSUME NEW f \in ArIds
      PROVE  /\ arSweep'.known[f] = [state |-> arSweep'.known[f].state, boot |-> arSweep'.known[f].boot,
                         leased |-> arSweep'.known[f].leased, old |-> arSweep'.known[f].old]
             /\ ArNoLease(arSweep'.known[f])
  <2>1. CASE arSweep'.known = arSweep.known BY <2>1, Zenon DEF ArIInv, ArLeases
  <2>2. CASE arSweep'.known = arRow BY <2>2, Zenon DEF ArIInv, ArLeases
  <2>3. CASE arSweep'.known = ArNoRows BY <2>3 DEF ArNoRows, ArNoRow, ArNoLease
  <2> QED BY <2>1, <2>2, <2>3
<1>2. ArLeases' BY <1>1, Zenon DEF ArLeases, ArKeeps, ArNoLease
<1>3. ArLivePartKept'
  <2> SUFFICES ASSUME NEW f \in ArIds, arWriter'[f] = "open", ArLeaseLive(f)'
               PROVE  arFile'[f] = "part" \/ f \in arBlind'
    BY Zenon DEF ArLivePartKept
  <2>1. arRow'[f] # ArNoRow /\ arRow'[f].boot = arBoot' /\ arRow'[f].leased
    BY Zenon DEF ArLeaseLive
  <2>2. ArKeeps(f) OBVIOUS
  <2>3. CASE arFile'[f] = "part" \/ f \in arBlind' BY <2>3
  <2>4. CASE /\ arWriter[f] = "open" /\ arFile'[f] = arFile[f]
             /\ arRow[f] # ArNoRow /\ arRow[f].boot = arRow'[f].boot
             /\ arRow[f].leased = arRow'[f].leased
             /\ arBoot' = arBoot /\ arBlind \subseteq arBlind'
    <3>1. arFile[f] = "part" \/ f \in arBlind
      BY <2>1, <2>4, Zenon DEF ArIInv, ArLivePartKept, ArLeaseLive
    <3> QED BY <2>4, <3>1
  <2> QED BY <2>1, <2>2, <2>3, <2>4, Zenon DEF ArKeeps
<1> QED BY <1>2, <1>3 DEF ArIInv

\* A download that a step leaves alone, or whose row only grows old.
LEMMA ArStays ==
    ASSUME ArIInv, NEW f \in ArIds, arWriter'[f] = arWriter[f], arFile'[f] = arFile[f],
           arBoot' = arBoot, arBlind \subseteq arBlind',
           arRow'[f] = arRow[f]
    PROVE  ArKeeps(f)
<1>1. /\ arRow[f] = [state |-> arRow[f].state, boot |-> arRow[f].boot,
                     leased |-> arRow[f].leased, old |-> arRow[f].old]
      /\ arRow[f].state = "ready" => ~arRow[f].leased
  BY Zenon DEF ArIInv, ArLeases, ArNoLease
<1> QED BY <1>1, Zenon DEF ArKeeps

\* A step of one download.
LEMMA ArOne ==
    ASSUME ArIInv, NEW f \in ArIds, NEW r, NEW x, NEW w,
           arRow' = [arRow EXCEPT ![f] = r], arFile' = [arFile EXCEPT ![f] = x],
           arWriter' = [arWriter EXCEPT ![f] = w], arSweep' = arSweep, arBoot' = arBoot,
           arBlind' = arBlind,
           r = [state |-> r.state, boot |-> r.boot, leased |-> r.leased, old |-> r.old],
           r.state = "ready" => ~r.leased,
           w # "open" \/ r = ArNoRow \/ ~r.leased \/ x = "part"
    PROVE  ArIInv'
<1>1. /\ arRow' = [g \in ArIds |-> IF g = f THEN r ELSE arRow[g]]
      /\ arFile' = [g \in ArIds |-> IF g = f THEN x ELSE arFile[g]]
      /\ arWriter' = [g \in ArIds |-> IF g = f THEN w ELSE arWriter[g]]
  BY DEF ArIInv, ArLeases
<1>2. /\ arRow' = [g \in ArIds |-> arRow'[g]] /\ arFile' = [g \in ArIds |-> arFile'[g]]
      /\ arWriter' = [g \in ArIds |-> arWriter'[g]]
  BY <1>1
<1>3. arRow'[f] = r /\ arFile'[f] = x /\ arWriter'[f] = w BY <1>1
<1>4. ArKeeps(f) BY <1>3, Zenon DEF ArKeeps
<1>5. ASSUME NEW g \in ArIds, g # f PROVE ArKeeps(g)
  <2>1. arRow'[g] = arRow[g] /\ arFile'[g] = arFile[g] /\ arWriter'[g] = arWriter[g]
    BY <1>1, <1>5
  <2> QED BY <2>1, ArStays
<1>6. /\ arSweep' = [pc |-> arSweep'.pc, known |-> arSweep'.known, left |-> arSweep'.left]
      /\ arSweep'.known = arSweep.known
  BY Zenon DEF ArIInv, ArLeases
<1> QED BY <1>2, <1>4, <1>5, <1>6, ArMoves, Zenon

\* The steps of a writer: the file is there while its lease lasts.
LEMMA ArWriterInv ==
    ASSUME ArIInv, NEW f \in ArIds,
           ArBegin(f) \/ ArRename(f) \/ ArCloseFails(f) \/ ArReady(f) \/ ArAbort(f)
    PROVE  ArIInv'
<1>0. /\ arRow = [arRow EXCEPT ![f] = arRow[f]] /\ arFile = [arFile EXCEPT ![f] = arFile[f]]
      /\ arWriter = [arWriter EXCEPT ![f] = arWriter[f]]
      /\ arRow[f] = [state |-> arRow[f].state, boot |-> arRow[f].boot,
                     leased |-> arRow[f].leased, old |-> arRow[f].old]
      /\ arRow[f].state = "ready" => ~arRow[f].leased
  BY DEF ArIInv, ArLeases, ArNoLease
<1>a. PICK n : n = ArNoRow OBVIOUS
<1>b. /\ n.state = "none" /\ n = [state |-> n.state, boot |-> n.boot, leased |-> n.leased, old |-> n.old]
  BY <1>a DEF ArNoRow
<1>1. CASE ArBegin(f)
  <2>1. PICK r : r = [state |-> "partial", boot |-> arBoot, leased |-> TRUE, old |-> FALSE] OBVIOUS
  <2>2. /\ r.state = "partial"
        /\ r = [state |-> r.state, boot |-> r.boot, leased |-> r.leased, old |-> r.old]
    BY <2>1
  <2>3. /\ arRow' = [arRow EXCEPT ![f] = r] /\ arFile' = [arFile EXCEPT ![f] = "part"]
        /\ arWriter' = [arWriter EXCEPT ![f] = "open"] /\ arSweep' = arSweep /\ arBoot' = arBoot
        /\ arBlind' = arBlind
    BY <1>1, <2>1 DEF ArBegin
  <2> QED BY <2>2, <2>3, ArOne
<1>2. CASE ArRename(f)
  <2>1. arSweep' = arSweep /\ arBoot' = arBoot /\ arBlind' = arBlind BY <1>2 DEF ArRename
  <2>2. \/ /\ arFile' = [arFile EXCEPT ![f] = "final"]
           /\ arWriter' = [arWriter EXCEPT ![f] = "renamed"] /\ arRow' = arRow
        \/ /\ arRow' = [arRow EXCEPT ![f] = n] /\ arFile' = arFile
           /\ arWriter' = [arWriter EXCEPT ![f] = "failed"]
    BY <1>2, <1>a DEF ArRename
  <2>3. CASE /\ arFile' = [arFile EXCEPT ![f] = "final"]
             /\ arWriter' = [arWriter EXCEPT ![f] = "renamed"] /\ arRow' = arRow
    BY <1>0, <2>1, <2>3, ArOne
  <2>4. CASE /\ arRow' = [arRow EXCEPT ![f] = n] /\ arFile' = arFile
             /\ arWriter' = [arWriter EXCEPT ![f] = "failed"]
    BY <1>0, <1>b, <2>1, <2>4, ArOne
  <2> QED BY <2>2, <2>3, <2>4
<1>3. CASE ArCloseFails(f)
  <2>1. /\ arSweep' = arSweep /\ arBoot' = arBoot /\ arBlind' = arBlind /\ arRow' = arRow
        /\ arFile' = arFile /\ arWriter' = [arWriter EXCEPT ![f] = "failed"]
    BY <1>3 DEF ArCloseFails
  <2> QED BY <1>0, <2>1, ArOne
<1>4. CASE ArReady(f)
  <2>1. arSweep' = arSweep /\ arBoot' = arBoot /\ arBlind' = arBlind BY <1>4 DEF ArReady
  <2>2. PICK r : r = [arRow[f] EXCEPT !.state = "ready", !.boot = 0, !.leased = FALSE] OBVIOUS
  <2>3. /\ r = [state |-> r.state, boot |-> r.boot, leased |-> r.leased, old |-> r.old]
        /\ ~r.leased
    <3>1. PICK t, no : t = arRow[f] /\ no = FALSE OBVIOUS
    <3>2. r = [t EXCEPT !.state = "ready", !.boot = 0, !.leased = no] BY <2>2, <3>1
    <3>3. t = [state |-> t.state, boot |-> t.boot, leased |-> t.leased, old |-> t.old]
      BY <1>0, <3>1, Zenon
    <3> QED BY <3>1, <3>2, <3>3
  <2>4. \/ /\ arRow' = [arRow EXCEPT ![f] = r] \/ arRow' = arRow
           /\ arWriter' = [arWriter EXCEPT ![f] = "done"] /\ arFile' = arFile
        \/ /\ arFile' = [arFile EXCEPT ![f] = "none"]
           /\ arWriter' = [arWriter EXCEPT ![f] = "failed"] /\ arRow' = arRow
    BY <1>4, <2>2 DEF ArReady, ArUpdated
  <2>5. CASE /\ arRow' = [arRow EXCEPT ![f] = r]
             /\ arWriter' = [arWriter EXCEPT ![f] = "done"] /\ arFile' = arFile
    BY <1>0, <2>1, <2>3, <2>5, ArOne
  <2>6. CASE /\ arRow' = arRow
             /\ arWriter' = [arWriter EXCEPT ![f] = "done"] /\ arFile' = arFile
    BY <1>0, <2>1, <2>6, ArOne
  <2>7. CASE /\ arFile' = [arFile EXCEPT ![f] = "none"]
             /\ arWriter' = [arWriter EXCEPT ![f] = "failed"] /\ arRow' = arRow
    BY <1>0, <2>1, <2>7, ArOne
  <2> QED BY <2>4, <2>5, <2>6, <2>7
<1>5. CASE ArAbort(f)
  <2>1. PICK x : x = IF arFile[f] = "part" THEN "none" ELSE arFile[f] OBVIOUS
  <2>2. /\ arFile' = [arFile EXCEPT ![f] = x] /\ arRow' = [arRow EXCEPT ![f] = n]
        /\ arWriter' = [arWriter EXCEPT ![f] = "failed"] /\ arSweep' = arSweep
        /\ arBoot' = arBoot /\ arBlind' = arBlind
    BY <1>5, <1>a, <2>1 DEF ArAbort
  <2> QED BY <1>b, <2>2, ArOne
<1> QED BY <1>1, <1>2, <1>3, <1>4, <1>5

\* The owner's calls, and time.
LEMMA ArOwnerInv ==
    ASSUME ArIInv, NEW f \in ArIds,
           ArOpen(f) \/ ArDelete(f) \/ ArLeaseEnds(f) \/ ArExpires(f)
    PROVE  ArIInv'
<1>0. /\ arRow = [arRow EXCEPT ![f] = arRow[f]] /\ arFile = [arFile EXCEPT ![f] = arFile[f]]
      /\ arWriter = [arWriter EXCEPT ![f] = arWriter[f]]
      /\ arRow[f] = [state |-> arRow[f].state, boot |-> arRow[f].boot,
                     leased |-> arRow[f].leased, old |-> arRow[f].old]
      /\ arRow[f].state = "ready" => ~arRow[f].leased
  BY DEF ArIInv, ArLeases, ArNoLease
<1>a. PICK t, no, yes : t = arRow[f] /\ no = FALSE /\ yes = TRUE OBVIOUS
<1>b. t = [state |-> t.state, boot |-> t.boot, leased |-> t.leased, old |-> t.old]
  BY <1>0, <1>a, Zenon
<1>c. arSweep' = arSweep /\ arBoot' = arBoot /\ arBlind' = arBlind /\ arWriter' = arWriter
  BY DEF ArOpen, ArDelete, ArLeaseEnds, ArExpires
<1>1. CASE ArOpen(f)
  <2>1. PICK r : r = [t EXCEPT !.state = "unavailable"] OBVIOUS
  <2>2. arRow' = [arRow EXCEPT ![f] = r] /\ arFile' = arFile /\ arRow[f].state = "ready"
    BY <1>1, <1>a, <2>1 DEF ArOpen
  <2>3. /\ r = [state |-> r.state, boot |-> r.boot, leased |-> r.leased, old |-> r.old]
        /\ r.leased = t.leased /\ r.state = "unavailable"
    BY <1>b, <2>1
  <2>4. ~r.leased BY <1>0, <1>a, <2>2, <2>3
  <2> QED BY ZenonT(30), <1>0, <1>c, <2>2, <2>3, <2>4, ArOne
<1>2. CASE ArDelete(f)
  <2>1. PICK n, x : n = ArNoRow /\ x = IF arFile[f] = "final" THEN "none" ELSE arFile[f] OBVIOUS
  <2>2. arRow' = [arRow EXCEPT ![f] = n] /\ arFile' = [arFile EXCEPT ![f] = x]
    BY <1>2, <2>1 DEF ArDelete
  <2>3. /\ n.state = "none"
        /\ n = [state |-> n.state, boot |-> n.boot, leased |-> n.leased, old |-> n.old]
    BY <2>1 DEF ArNoRow
  <2> QED BY <1>0, <1>c, <2>1, <2>2, <2>3, ArOne
<1>3. CASE ArLeaseEnds(f)
  <2>1. PICK r : r = [t EXCEPT !.leased = no] OBVIOUS
  <2>2. arRow' = [arRow EXCEPT ![f] = r] /\ arFile' = arFile
    BY <1>3, <1>a, <2>1 DEF ArLeaseEnds
  <2>3. /\ r = [state |-> r.state, boot |-> r.boot, leased |-> r.leased, old |-> r.old]
        /\ ~r.leased
    BY <1>a, <1>b, <2>1
  <2> QED BY <1>0, <1>c, <2>2, <2>3, ArOne
<1>4. CASE ArExpires(f)
  <2>1. PICK r : r = [t EXCEPT !.old = yes] OBVIOUS
  <2>2. arRow' = [arRow EXCEPT ![f] = r] /\ arFile' = arFile /\ arRow[f] # ArNoRow
    BY <1>4, <1>a, <2>1 DEF ArExpires
  <2>3. /\ r = [state |-> r.state, boot |-> r.boot, leased |-> r.leased, old |-> r.old]
        /\ r.leased = t.leased /\ r.state = t.state /\ r.boot = t.boot
    BY <1>b, <2>1
  <2>4. /\ arRow' = [g \in ArIds |-> arRow'[g]] /\ arRow'[f] = r
        /\ \A g \in ArIds \ {f} : arRow'[g] = arRow[g]
    BY <2>2 DEF ArIInv, ArLeases
  <2>5. ArKeeps(f)
    BY <1>0, <1>a, <1>c, <2>2, <2>3, <2>4, Zenon DEF ArKeeps
  <2>6. ASSUME NEW g \in ArIds, g # f PROVE ArKeeps(g)
    <3>1. arRow'[g] = arRow[g] /\ arFile'[g] = arFile[g] /\ arWriter'[g] = arWriter[g]
      BY <1>c, <2>2, <2>4, <2>6
    <3> QED BY <1>c, <3>1, ArStays
  <2>7. /\ arFile' = [g \in ArIds |-> arFile'[g]] /\ arWriter' = [g \in ArIds |-> arWriter'[g]]
        /\ arSweep' = [pc |-> arSweep'.pc, known |-> arSweep'.known, left |-> arSweep'.left]
        /\ arSweep'.known = arSweep.known
    BY <1>c, <2>2, Zenon DEF ArIInv, ArLeases
  <2> QED BY <2>4, <2>5, <2>6, <2>7, ArMoves, Zenon
<1> QED BY <1>1, <1>2, <1>3, <1>4

\* The steps of Sweep: a file that it takes has no lease, or cannot be judged.
LEMMA ArSweepInv == ASSUME ArIInv, ArSweeping PROVE ArIInv'
<1>0. /\ arRow = [f \in ArIds |-> arRow[f]] /\ arFile = [f \in ArIds |-> arFile[f]]
      /\ arWriter = [f \in ArIds |-> arWriter[f]]
      /\ arSweep = [pc |-> arSweep.pc, known |-> arSweep.known, left |-> arSweep.left]
  BY Zenon DEF ArIInv, ArLeases
<1>a. PICK n : n = ArNoRow OBVIOUS
<1>b. /\ n.state = "none"
      /\ n = [state |-> n.state, boot |-> n.boot, leased |-> n.leased, old |-> n.old]
  BY <1>a DEF ArNoRow
<1>c. arWriter' = arWriter /\ arBoot' = arBoot
  BY DEF ArSweeping, ArSweepExpired, ArSweepList, ArSweepDir, ArSweepEnd, ArSweepFile
<1>1. CASE ArSweepExpired
  <2> DEFINE old == {f \in ArIds : arRow[f] # ArNoRow /\ arRow[f].old}
  <2>1. /\ arRow' = [f \in ArIds |-> IF f \in old THEN n ELSE arRow[f]]
        /\ arFile' = [f \in ArIds |-> IF f \in old /\ arFile[f] = "final" THEN "none" ELSE arFile[f]]
        /\ arSweep' = [arSweep EXCEPT !.pc = "list"] /\ arBlind' = arBlind
    BY <1>1, <1>a DEF ArSweepExpired
  <2> HIDE DEF old
  <2>2. /\ arRow' = [f \in ArIds |-> arRow'[f]] /\ arFile' = [f \in ArIds |-> arFile'[f]]
        /\ arWriter' = [f \in ArIds |-> arWriter'[f]]
    BY <1>0, <1>c, <2>1
  <2>3. ASSUME NEW f \in ArIds PROVE ArKeeps(f)
    <3>1. CASE f \in old
      <4>1. arRow'[f] = n BY <2>1, <3>1
      <4> QED BY <1>a, <1>b, <4>1 DEF ArKeeps
    <3>2. CASE f \notin old
      <4>1. arRow'[f] = arRow[f] /\ arFile'[f] = arFile[f] /\ arWriter'[f] = arWriter[f]
        BY <1>c, <2>1, <3>2
      <4> QED BY <1>c, <2>1, <4>1, ArStays
    <3> QED BY <3>1, <3>2
  <2>4. /\ arSweep' = [pc |-> arSweep'.pc, known |-> arSweep'.known, left |-> arSweep'.left]
        /\ arSweep'.known = arSweep.known
    BY <1>0, <2>1
  <2> QED BY <2>2, <2>3, <2>4, ArMoves, Zenon
<1>2. CASE ArSweepList \/ ArSweepDir
  <2>1. arRow' = arRow /\ arFile' = arFile /\ arBlind' = arBlind
    BY <1>2 DEF ArSweepList, ArSweepDir
  <2>2. ASSUME NEW f \in ArIds PROVE ArKeeps(f)
    BY <1>c, <2>1, ArStays
  <2>3. PICK q, k, l : /\ arSweep' = [pc |-> q, known |-> k, left |-> l]
                       /\ k \in {arSweep.known, arRow, ArNoRows}
    <3>1. CASE ArSweepList
      <4>1. PICK t, z : t = arSweep /\ z = ArNoRows OBVIOUS
      <4>2. t = [pc |-> t.pc, known |-> t.known, left |-> t.left] BY <1>0, <4>1, Zenon
      <4>3. \/ arSweep' = [t EXCEPT !.pc = "dir", !.known = arRow]
            \/ arSweep' = [t EXCEPT !.pc = "dir", !.known = z]
        BY <3>1, <4>1 DEF ArSweepList
      <4>4. \/ arSweep' = [pc |-> "dir", known |-> arRow, left |-> t.left]
            \/ arSweep' = [pc |-> "dir", known |-> z, left |-> t.left]
        BY <4>2, <4>3
      <4> QED BY <4>1, <4>4, Zenon
    <3>2. CASE ArSweepDir
      <4>1. PICK t, l : t = arSweep /\ l = {<<f, arFile[f]>> : f \in {g \in ArIds : arFile[g] # "none"}}
        OBVIOUS
      <4>2. t = [pc |-> t.pc, known |-> t.known, left |-> t.left] BY <1>0, <4>1, Zenon
      <4>3. arSweep' = [t EXCEPT !.pc = "files", !.left = l] BY <3>2, <4>1 DEF ArSweepDir
      <4>4. arSweep' = [pc |-> "files", known |-> t.known, left |-> l] BY <4>2, <4>3
      <4> QED BY <4>1, <4>4, Zenon
    <3> QED BY <1>2, <3>1, <3>2
  <2>4. /\ arSweep' = [pc |-> arSweep'.pc, known |-> arSweep'.known, left |-> arSweep'.left]
        /\ arSweep'.known \in {arSweep.known, arRow, ArNoRows}
    <3>1. arSweep'.known = k BY <2>3
    <3> QED BY <2>3, <3>1
  <2>5. /\ arRow' = [f \in ArIds |-> arRow'[f]] /\ arFile' = [f \in ArIds |-> arFile'[f]]
        /\ arWriter' = [f \in ArIds |-> arWriter'[f]]
    BY <1>0, <1>c, <2>1, Zenon
  <2> QED BY <2>2, <2>4, <2>5, ArMoves, Zenon
<1>3. CASE \E e \in arSweep.left : ArSweepFile(e[1], e[2])
  <2>1. PICK f, name : ArSweepFile(f, name) BY <1>3
  <2>2. /\ arSweep' = [arSweep EXCEPT !.left = @ \ {<<f, name>>}]
        /\ \/ /\ arFile' = IF ArGone(f, name)
                          THEN [arFile EXCEPT ![f] = IF @ = name THEN "none" ELSE @] ELSE arFile
              /\ arRow' = IF ArGone(f, name) /\ name = "final" /\ arSweep.known[f] # ArNoRow
                          THEN [arRow EXCEPT ![f] = n] ELSE arRow
              /\ arBlind' = arBlind
           \/ /\ arFile' = [arFile EXCEPT ![f] = IF @ = name THEN "none" ELSE @]
              /\ arBlind' = arBlind \union {f} /\ arRow' = arRow
    BY <1>a, <2>1 DEF ArSweepFile
  <2>3. /\ arSweep' = [pc |-> arSweep'.pc, known |-> arSweep'.known, left |-> arSweep'.left]
        /\ arSweep'.known = arSweep.known
    BY <1>0, <2>2
  <2>4. /\ arRow' = [g \in ArIds |-> arRow'[g]] /\ arFile' = [g \in ArIds |-> arFile'[g]]
        /\ arWriter' = [g \in ArIds |-> arWriter'[g]]
        /\ \A g \in ArIds \ {f} : arRow'[g] = arRow[g] /\ arFile'[g] = arFile[g]
    BY <1>0, <1>c, <2>2
  <2>a. ASSUME f \in ArIds
        PROVE  /\ arFile'[f] \in {arFile[f], "none"}
               /\ arRow'[f] \in {arRow[f], n}
               /\ arFile'[f] # arFile[f] => arFile[f] = name
               /\ arFile'[f] # arFile[f] => ArGone(f, name) \/ f \in arBlind'
    BY <1>0, <2>2, <2>a
  <2>5. ASSUME NEW g \in ArIds PROVE ArKeeps(g)
    <3>0. arRow[g] = [state |-> arRow[g].state, boot |-> arRow[g].boot, leased |-> arRow[g].leased,
                      old |-> arRow[g].old]
          /\ (arRow[g].state = "ready" => ~arRow[g].leased)
      BY Zenon DEF ArIInv, ArLeases, ArNoLease
    <3>1. CASE arRow'[g] = n BY <1>a, <1>b, <3>1, Zenon DEF ArKeeps
    <3>2. CASE arRow'[g] = arRow[g] /\ g \in arBlind' BY <3>0, <3>2, Zenon DEF ArKeeps
    <3>3. CASE arRow'[g] = arRow[g] /\ arFile'[g] = arFile[g]
      <4>1. arBlind \subseteq arBlind' BY <2>2
      <4> QED BY <1>c, <3>3, <4>1, ArStays
    <3>4. CASE arRow'[g] = arRow[g] /\ arFile'[g] # arFile[g] /\ g \notin arBlind'
      <4>1. g = f BY <2>4, <3>4
      <4>2. arFile[g] = name /\ ArGone(g, name) BY <2>a, <3>4, <4>1
      <4>3. g \notin arBlind BY <2>2, <3>4
      <4>4. arWriter[g] # "open" \/ ~ArLeaseLive(g)
        <5>1. CASE name = "part" BY <4>2, <5>1 DEF ArGone
        <5>2. CASE name # "part" BY <4>2, <4>3, <5>2 DEF ArIInv, ArLivePartKept
        <5> QED BY <5>1, <5>2
      <4>5. \/ arWriter'[g] # "open" \/ arRow'[g] = ArNoRow \/ ~arRow'[g].leased
            \/ arRow'[g].boot # arBoot'
        BY <1>c, <3>4, <4>4 DEF ArLeaseLive
      <4>6. /\ arRow'[g] = [state |-> arRow'[g].state, boot |-> arRow'[g].boot,
                            leased |-> arRow'[g].leased, old |-> arRow'[g].old]
            /\ arRow'[g].state = "ready" => ~arRow'[g].leased
        BY <3>0, <3>4, Zenon
      <4> QED BY <4>5, <4>6, Zenon DEF ArKeeps
    <3>5. arRow'[g] = n \/ arRow'[g] = arRow[g]
      <4>1. CASE g = f BY <2>a, <4>1
      <4>2. CASE g # f BY <2>4, <4>2
      <4> QED BY <4>1, <4>2
    <3> QED BY <3>1, <3>2, <3>3, <3>4, <3>5
  <2> QED BY <2>3, <2>4, <2>5, ArMoves, Zenon
<1>4. CASE ArSweepEnd
  <2>1. PICK t, i : t = arSweep /\ i = ArIdle OBVIOUS
  <2>2. /\ arRow' = [f \in ArIds |->
                       IF t.known[f].state = "ready" /\ arFile[f] # "final" /\ arRow[f] # ArNoRow
                       THEN [t.known[f] EXCEPT !.state = "unavailable", !.old = arRow[f].old]
                       ELSE arRow[f]]
        /\ arSweep' = i /\ arFile' = arFile /\ arBlind' = arBlind
    BY <1>4, <2>1 DEF ArSweepEnd
  <2>3. /\ arSweep' = [pc |-> arSweep'.pc, known |-> arSweep'.known, left |-> arSweep'.left]
        /\ arSweep'.known = ArNoRows
    BY <2>1, <2>2 DEF ArIdle
  <2>4. ASSUME NEW f \in ArIds PROVE ArKeeps(f)
    <3>1. CASE t.known[f].state = "ready" /\ arFile[f] # "final" /\ arRow[f] # ArNoRow
      <4>1. PICK k, o : k = t.known[f] /\ o = arRow[f].old OBVIOUS
      <4>2. k = [state |-> k.state, boot |-> k.boot, leased |-> k.leased, old |-> k.old]
        BY <2>1, <4>1, Zenon DEF ArIInv, ArLeases
      <4>3. ~k.leased BY <2>1, <3>1, <4>1 DEF ArIInv, ArLeases, ArNoLease
      <4>4. arRow'[f] = [k EXCEPT !.state = "unavailable", !.old = o] BY <2>2, <3>1, <4>1
      <4>5. /\ arRow'[f].leased = k.leased /\ arRow'[f].state = "unavailable"
            /\ arRow'[f] = [state |-> arRow'[f].state, boot |-> arRow'[f].boot,
                            leased |-> arRow'[f].leased, old |-> arRow'[f].old]
        BY <4>2, <4>4
      <4> QED BY <4>3, <4>5 DEF ArKeeps
    <3>2. CASE ~(t.known[f].state = "ready" /\ arFile[f] # "final" /\ arRow[f] # ArNoRow)
      <4>1. arRow'[f] = arRow[f] BY <2>2, <3>2
      <4> QED BY <1>c, <2>2, <4>1, ArStays
    <3> QED BY <3>1, <3>2
  <2>5. /\ arRow' = [f \in ArIds |-> arRow'[f]] /\ arFile' = [f \in ArIds |-> arFile'[f]]
        /\ arWriter' = [f \in ArIds |-> arWriter'[f]]
    <3>1. arRow' = [f \in ArIds |-> arRow'[f]] BY <2>2
    <3> QED BY <1>0, <1>c, <2>2, <3>1, Zenon
  <2> QED BY <2>3, <2>4, <2>5, ArMoves, Zenon
<1> QED BY <1>1, <1>2, <1>3, <1>4 DEF ArSweeping

\* A restart leaves no writer open.
LEMMA ArRestartInv == ASSUME ArIInv, ArRestart PROVE ArIInv'
<1>0. PICK i : i = ArIdle OBVIOUS
<1>1. /\ arRow' = arRow /\ arFile' = arFile /\ arBlind' = arBlind /\ arSweep' = i
      /\ arWriter' = [f \in ArIds |-> IF arWriter[f] \in {"open", "renamed"} THEN "failed"
                                      ELSE arWriter[f]]
  BY <1>0 DEF ArRestart
<1>2. /\ arSweep' = [pc |-> arSweep'.pc, known |-> arSweep'.known, left |-> arSweep'.left]
      /\ arSweep'.known = ArNoRows
  BY <1>0, <1>1 DEF ArIdle
<1>3. arWriter' = [f \in ArIds |-> arWriter'[f]] /\ \A f \in ArIds : arWriter'[f] # "open"
  BY <1>1
<1>4. ASSUME NEW f \in ArIds PROVE ArKeeps(f)
  <2>1. /\ arRow[f] = [state |-> arRow[f].state, boot |-> arRow[f].boot,
                       leased |-> arRow[f].leased, old |-> arRow[f].old]
        /\ arRow[f].state = "ready" => ~arRow[f].leased
    BY Zenon DEF ArIInv, ArLeases, ArNoLease
  <2> QED BY <1>1, <1>3, <2>1, Zenon DEF ArKeeps
<1>5. arRow' = [f \in ArIds |-> arRow'[f]] /\ arFile' = [f \in ArIds |-> arFile'[f]]
  BY <1>1, Zenon DEF ArIInv, ArLeases
<1> QED BY <1>2, <1>3, <1>4, <1>5, ArMoves, Zenon

\* Nothing is downloaded at first.
LEMMA ArInitInv == ASSUME ArInit PROVE ArIInv
<1>1. ArLeases BY DEF ArInit, ArLeases, ArNoRows, ArNoRow, ArIdle, ArNoLease
<1>2. ArLivePartKept BY DEF ArInit, ArLivePartKept
<1> QED BY <1>1, <1>2 DEF ArIInv

\* Every step of the store keeps the invariant.
LEMMA ArStepInv == ASSUME ArIInv, [ArNext]_arVars PROVE ArIInv'
<1>1. CASE ArNext
  BY <1>1, ArWriterInv, ArOwnerInv, ArSweepInv, ArRestartInv, Zenon DEF ArNext
<1>2. CASE UNCHANGED arVars
  <2>1. /\ arRow' = arRow /\ arFile' = arFile /\ arWriter' = arWriter /\ arSweep' = arSweep
        /\ arBoot' = arBoot /\ arBlind' = arBlind
    BY <1>2 DEF arVars
  <2> QED BY <2>1, Zenon DEF ArIInv, ArLeases, ArLivePartKept, ArLeaseLive
<1> QED BY <1>1, <1>2

-----------------------------------------------------------------------------
(* The model runtime.  Of the state in memory and of the stored one the    *)
(* same holds; what memory denies the stored one denies too, so that a     *)
(* restart forgets nothing; a check's good answer is about the check that  *)
(* is recorded, as long as the process lives.                              *)

MrRecord(s) ==
    /\ s = [rev |-> s.rev, assigned |-> s.assigned, gen |-> s.gen, key |-> s.key, on |-> s.on,
            denied |-> s.denied, retired |-> s.retired, evid |-> s.evid, stage |-> s.stage,
            check |-> s.check]
    /\ s.stage = [id |-> s.stage.id, actor |-> s.stage.actor, base |-> s.stage.base,
                  gen |-> s.stage.gen, key |-> s.stage.key, evid |-> s.stage.evid,
                  late |-> s.stage.late]
    /\ s.check = [state |-> s.check.state, gen |-> s.check.gen, stage |-> s.check.stage,
                  kind |-> s.check.kind, actor |-> s.check.actor]

MrStateOk(s, proven, last) ==
    /\ MrRecord(s)
    /\ s.gen \in 1 .. last /\ s.denied \subseteq 1 .. last /\ s.stage.gen \in 0 .. last
    /\ s.on => s.gen \notin s.denied
    /\ s.stage.gen \notin s.denied
    /\ s.stage.id = 0 <=> s.stage.gen = 0
    /\ s.assigned => {s.gen} \X MrKinds \subseteq proven
    /\ s.evid \subseteq proven /\ s.stage.evid \subseteq proven

MrGenOk == /\ mrGen = [gen |-> mrGen.gen, stage |-> mrGen.stage, check |-> mrGen.check]
           /\ mrGen.gen \in Nat /\ mrGen.stage \in Nat

MrStores ==
    /\ MrStateOk(mrMem, mrProven, mrGen.gen) /\ MrStateOk(mrDisk, mrProven, mrGen.gen)
    /\ mrMem.denied \subseteq mrDisk.denied /\ mrMem.retired \subseteq mrDisk.retired
    /\ MrGenOk

MrCheckOk ==
    /\ mrCheck = [pc |-> mrCheck.pc, cut |-> mrCheck.cut, pass |-> mrCheck.pass,
                  auth |-> mrCheck.auth]
    /\ mrCheck.pc \in {"none", "start", "asked", "answered"}
    /\ mrCheck.pc # "answered" => ~mrCheck.pass
    /\ mrCheck.pc = "asked" /\ mrMem.check.gen \in mrMem.denied => mrCheck.cut
    /\ mrUp = "open" /\ mrCheck.pass => <<mrMem.check.gen, mrMem.check.kind>> \in mrProven

MrCallsOk ==
    /\ mrCall = [c \in MrCalls |-> mrCall[c]]
    /\ \A c \in MrCalls :
          /\ mrCall[c] = [pc |-> mrCall[c].pc, gen |-> mrCall[c].gen, cut |-> mrCall[c].cut]
          /\ mrCall[c].pc = "admitted" /\ mrCall[c].gen \in mrMem.denied => mrCall[c].cut

MrIInv == MrStores /\ MrCheckOk /\ MrCallsOk /\ MrAppliedTruthful

(* What a step never does.                                                 *)
MrDenyKept == mrMem.denied \subseteq mrMem'.denied /\ mrMem.retired \subseteq mrMem'.retired

\* A state stays well formed when more is proven and more generations drawn.
LEMMA MrGrows ==
    ASSUME NEW s, NEW p, NEW q, NEW n \in Nat, NEW m \in Nat, MrStateOk(s, p, n),
           p \subseteq q, n <= m
    PROVE  MrStateOk(s, q, m)
<1>1. 1 .. n \subseteq 1 .. m /\ 0 .. n \subseteq 0 .. m OBVIOUS
<1> QED BY <1>1, Zenon DEF MrStateOk

\* A step that does not write leaves the stores as they are.
LEMMA MrStoresStay ==
    ASSUME MrStores, mrMem' = mrMem, mrDisk' = mrDisk, mrProven \subseteq mrProven',
           mrGen' = mrGen
    PROVE  MrStores'
<1>1. mrGen.gen \in Nat BY DEF MrStores, MrGenOk
<1>2. MrStateOk(mrMem, mrProven', mrGen.gen) /\ MrStateOk(mrDisk, mrProven', mrGen.gen)
  BY <1>1, MrGrows DEF MrStores
<1>3. MrStateOk(mrMem', mrProven', mrGen'.gen) /\ MrStateOk(mrDisk', mrProven', mrGen'.gen)
  BY <1>2, Zenon
<1>4. MrGenOk' BY DEF MrStores, MrGenOk
<1> QED BY <1>3, <1>4, Zenon DEF MrStores

\* A state that was written, or was meant to be.
MrNewState(s) ==
    /\ MrStateOk(s, mrProven, mrGen'.gen)
    /\ mrMem.denied \subseteq s.denied /\ mrMem.retired \subseteq s.retired
    /\ MrGenOk' /\ mrGen.gen <= mrGen'.gen

\* The stores after a write that succeeded, failed, or lost its answer.
LEMMA MrStoresMove ==
    ASSUME MrStores, NEW s, MrNewState(s), mrProven' = mrProven,
           \/ mrMem' = s /\ mrDisk' = s
           \/ mrMem' = mrMem /\ mrDisk' \in {mrDisk, s}
    PROVE  MrStores' /\ MrDenyKept
<1>1. mrGen.gen \in Nat /\ mrGen'.gen \in Nat BY DEF MrStores, MrGenOk, MrNewState
<1>2. MrStateOk(mrMem, mrProven, mrGen'.gen) /\ MrStateOk(mrDisk, mrProven, mrGen'.gen)
  BY <1>1, MrGrows DEF MrStores, MrNewState
<1>3. MrStateOk(s, mrProven, mrGen'.gen) BY DEF MrNewState
<1>4. MrStateOk(mrMem', mrProven', mrGen'.gen) /\ MrStateOk(mrDisk', mrProven', mrGen'.gen)
  BY <1>2, <1>3, Zenon
<1>5. mrMem'.denied \subseteq mrDisk'.denied /\ mrMem'.retired \subseteq mrDisk'.retired
  BY DEF MrStores, MrNewState
<1>6. MrDenyKept BY DEF MrDenyKept, MrNewState
<1> QED BY <1>4, <1>5, <1>6, Zenon DEF MrStores, MrNewState

\* A failed save leaves everything as it is but what is stored.
LEMMA MrNotSavedInv ==
    ASSUME MrIInv, NEW s, MrNewState(s), MrNotSaved(s)
    PROVE  MrIInv' /\ MrDenyKept
<1>1. /\ mrMem' = mrMem /\ mrCheck' = mrCheck /\ mrCall' = mrCall /\ mrUp' = mrUp
      /\ mrProven' = mrProven /\ mrRoute' = mrRoute /\ mrStatus' = mrStatus
  BY DEF MrNotSaved
<1>2. mrDisk' \in {mrDisk, s} BY DEF MrNotSaved
<1>3. MrStores' /\ MrDenyKept BY <1>1, <1>2, MrStoresMove DEF MrIInv
<1>4. MrCheckOk' BY <1>1, Zenon DEF MrIInv, MrCheckOk
<1>5. MrCallsOk' BY <1>1, Zenon DEF MrIInv, MrCallsOk
<1>6. MrAppliedTruthful' BY <1>1, Zenon DEF MrIInv, MrAppliedTruthful
<1> QED BY <1>3, <1>4, <1>5, <1>6, Zenon DEF MrIInv

\* What a written state must have besides.
LEMMA MrSavedInv ==
    ASSUME MrIInv, NEW s, MrNewState(s), MrAdopted(s), mrProven' = mrProven,
           MrCheckOk', MrCallsOk', MrAppliedTruthful'
    PROVE  MrIInv' /\ MrDenyKept
<1>1. MrStores' /\ MrDenyKept BY MrStoresMove DEF MrIInv, MrAdopted
<1> QED BY <1>1, Zenon DEF MrIInv

\* A step that leaves what a check, a call or the router is compared with.
LEMMA MrFrames ==
    ASSUME MrIInv, mrMem'.denied = mrMem.denied
    PROVE  /\ mrCall' = mrCall => MrCallsOk'
           /\ /\ mrCheck' = mrCheck /\ mrMem'.check.gen = mrMem.check.gen
              /\ mrMem'.check.kind = mrMem.check.kind
              /\ mrUp' = mrUp /\ mrProven' = mrProven
              => MrCheckOk'
           /\ /\ mrMem'.assigned = mrMem.assigned /\ mrMem'.rev = mrMem.rev
              /\ mrMem'.on = mrMem.on /\ mrMem'.gen = mrMem.gen
              /\ mrRoute' = mrRoute /\ mrStatus' = mrStatus
              => MrAppliedTruthful'
<1>1. ASSUME mrCall' = mrCall PROVE MrCallsOk'
  BY <1>1, Zenon DEF MrIInv, MrCallsOk
<1>2. ASSUME mrCheck' = mrCheck, mrMem'.check.gen = mrMem.check.gen,
             mrMem'.check.kind = mrMem.check.kind, mrUp' = mrUp, mrProven' = mrProven
      PROVE  MrCheckOk'
  BY <1>2, Zenon DEF MrIInv, MrCheckOk
<1>3. ASSUME mrMem'.assigned = mrMem.assigned, mrMem'.rev = mrMem.rev,
             mrMem'.on = mrMem.on, mrMem'.gen = mrMem.gen, mrRoute' = mrRoute,
             mrStatus' = mrStatus
      PROVE  MrAppliedTruthful'
  BY <1>3, Zenon DEF MrIInv, MrAppliedTruthful
<1> QED BY <1>1, <1>2, <1>3, Zenon

\* A draft, written or taken away, is well formed.
LEMMA MrWithStage ==
    ASSUME MrIInv, NEW id \in Nat, NEW actor, NEW base, NEW gen \in 0 .. mrGen'.gen, NEW key,
           NEW evid \in SUBSET mrProven, NEW late, MrGenOk', mrGen.gen <= mrGen'.gen,
           gen \notin mrMem.denied, id = 0 <=> gen = 0
    PROVE  MrNewState([mrMem EXCEPT !.stage = [id |-> id, actor |-> actor, base |-> base,
                              gen |-> gen, key |-> key, evid |-> evid, late |-> late]])
<1>1. PICK t : t = mrMem OBVIOUS
<1>2. PICK g : g = [id |-> id, actor |-> actor, base |-> base,
                    gen |-> gen, key |-> key, evid |-> evid, late |-> late] OBVIOUS
<1>3. PICK s : s = [t EXCEPT !.stage = g] OBVIOUS
<1>4. mrGen.gen \in Nat /\ mrGen'.gen \in Nat BY DEF MrIInv, MrStores, MrGenOk
<1>5. MrStateOk(t, mrProven, mrGen'.gen) BY <1>1, <1>4, MrGrows DEF MrIInv, MrStores
<1>6. /\ s.rev = t.rev /\ s.assigned = t.assigned /\ s.gen = t.gen /\ s.key = t.key
      /\ s.on = t.on /\ s.denied = t.denied /\ s.retired = t.retired /\ s.evid = t.evid
      /\ s.stage = g /\ s.check = t.check
  BY <1>3, <1>5 DEF MrStateOk, MrRecord
<1>7. g = [id |-> g.id, actor |-> g.actor, base |-> g.base, gen |-> g.gen, key |-> g.key,
           evid |-> g.evid, late |-> g.late]
  BY <1>2
<1>8. s = [rev |-> s.rev, assigned |-> s.assigned, gen |-> s.gen, key |-> s.key, on |-> s.on,
           denied |-> s.denied, retired |-> s.retired, evid |-> s.evid, stage |-> s.stage,
           check |-> s.check]
  BY <1>3, <1>5 DEF MrStateOk, MrRecord
<1>9. MrRecord(s) BY <1>5, <1>6, <1>7, <1>8, Zenon DEF MrStateOk, MrRecord
<1>10. /\ g.gen \in 0 .. mrGen'.gen /\ g.gen \notin t.denied /\ (g.id = 0 <=> g.gen = 0)
       /\ g.evid \subseteq mrProven
  BY <1>1, <1>2
<1>11. MrStateOk(s, mrProven, mrGen'.gen)
  BY <1>5, <1>6, <1>9, <1>10, Zenon DEF MrStateOk
<1>12. MrNewState(s) BY <1>1, <1>6, <1>11 DEF MrNewState
<1> QED BY <1>1, <1>2, <1>3, <1>12, Zenon

\* So is a state with another check, which also may have been answered.
LEMMA MrWithCheck ==
    ASSUME MrIInv, NEW state, NEW gen, NEW stage, NEW kind, NEW actor, MrGenOk',
           mrGen.gen <= mrGen'.gen
    PROVE  MrNewState([mrMem EXCEPT !.check = [state |-> state, gen |-> gen, stage |-> stage,
                                               kind |-> kind, actor |-> actor]])
<1>1. PICK t : t = mrMem OBVIOUS
<1>2. PICK g : g = [state |-> state, gen |-> gen, stage |-> stage, kind |-> kind,
                    actor |-> actor] OBVIOUS
<1>3. PICK s : s = [t EXCEPT !.check = g] OBVIOUS
<1>4. mrGen.gen \in Nat /\ mrGen'.gen \in Nat BY DEF MrIInv, MrStores, MrGenOk
<1>5. MrStateOk(t, mrProven, mrGen'.gen) BY <1>1, <1>4, MrGrows DEF MrIInv, MrStores
<1>6. /\ s.rev = t.rev /\ s.assigned = t.assigned /\ s.gen = t.gen /\ s.key = t.key
      /\ s.on = t.on /\ s.denied = t.denied /\ s.retired = t.retired /\ s.evid = t.evid
      /\ s.stage = t.stage /\ s.check = g
  BY <1>3, <1>5 DEF MrStateOk, MrRecord
<1>7. g = [state |-> g.state, gen |-> g.gen, stage |-> g.stage, kind |-> g.kind,
           actor |-> g.actor]
  BY <1>2
<1>8. s = [rev |-> s.rev, assigned |-> s.assigned, gen |-> s.gen, key |-> s.key, on |-> s.on,
           denied |-> s.denied, retired |-> s.retired, evid |-> s.evid, stage |-> s.stage,
           check |-> s.check]
  BY <1>3, <1>5 DEF MrStateOk, MrRecord
<1>9. MrRecord(s) BY <1>5, <1>6, <1>7, <1>8, Zenon DEF MrStateOk, MrRecord
<1>11. MrStateOk(s, mrProven, mrGen'.gen)
  BY <1>5, <1>6, <1>9, Zenon DEF MrStateOk
<1>12. MrNewState(s) BY <1>1, <1>6, <1>11 DEF MrNewState
<1> QED BY <1>1, <1>2, <1>3, <1>12, Zenon

\* A draft is written with a generation that is not denied.
LEMMA MrStageInv ==
    ASSUME MrIInv, NEW a, NEW k, MrStage(a, k)
    PROVE  MrIInv' /\ MrDenyKept
<1> DEFINE own  == MrStageLive
           oldg == IF own THEN mrMem.stage.gen ELSE mrMem.gen
           oldk == IF own THEN mrMem.stage.key ELSE mrMem.key
           oldo == IF own THEN TRUE ELSE mrMem.on
           keep == k = oldk /\ oldo
           g    == IF keep THEN oldg ELSE mrGen.gen + 1
           ev   == IF own THEN mrMem.stage.evid ELSE mrMem.evid
           s    == [mrMem EXCEPT !.stage =
                       [id |-> mrGen.stage + 1, actor |-> a, base |-> mrMem.rev, gen |-> g,
                        key |-> k, evid |-> ev, late |-> FALSE]]
<1>1. /\ g \in MrGens \ mrMem.denied
      /\ mrGen' = [mrGen EXCEPT !.gen = IF keep THEN @ ELSE g, !.stage = @ + 1]
      /\ \/ /\ MrSaved(s)
            /\ UNCHANGED <<mrUp, mrRights, mrCheck, mrCall, mrRoute, mrStatus, mrProven>>
         \/ MrNotSaved(s)
  BY DEF MrStage
<1>2. mrGen.gen \in Nat /\ mrGen.stage \in Nat BY DEF MrIInv, MrStores, MrGenOk
<1>3. /\ mrGen'.gen = IF keep THEN mrGen.gen ELSE g
      /\ mrGen'.stage = mrGen.stage + 1
      /\ mrGen' = [gen |-> mrGen'.gen, stage |-> mrGen'.stage, check |-> mrGen'.check]
  <2> HIDE DEF keep, g
  <2> QED BY <1>1 DEF MrIInv, MrStores, MrGenOk
<1>4. mrGen'.gen \in Nat /\ mrGen'.stage \in Nat /\ mrGen.gen <= mrGen'.gen
  BY <1>2, <1>3
<1>5. MrGenOk' BY <1>3, <1>4 DEF MrGenOk
<1>6. g \in 0 .. mrGen'.gen
  <2>1. mrMem.stage.gen \in 0 .. mrGen.gen /\ mrMem.gen \in 0 .. mrGen.gen
    BY <1>2 DEF MrIInv, MrStores, MrStateOk
  <2>2. oldg \in 0 .. mrGen.gen BY <2>1, Zenon
  <2> HIDE DEF oldg, keep
  <2> QED BY <1>2, <1>3, <2>2
<1>7. ev \in SUBSET mrProven BY DEF MrIInv, MrStores, MrStateOk
<1>8. g \notin mrMem.denied /\ g # 0 BY <1>1 DEF MrGens
<1>9. mrGen.stage + 1 \in Nat /\ mrGen.stage + 1 # 0 BY <1>2
<1> HIDE DEF g, ev, keep
<1>10. MrNewState(s) BY <1>4, <1>5, <1>6, <1>7, <1>8, <1>9, MrWithStage
<1>11. CASE MrNotSaved(s) BY <1>10, <1>11, MrNotSavedInv
<1>12. CASE /\ MrSaved(s)
            /\ UNCHANGED <<mrUp, mrRights, mrCheck, mrCall, mrRoute, mrStatus, mrProven>>
  <2>1. MrAdopted(s) BY <1>12 DEF MrSaved
  <2>2. /\ mrMem'.denied = mrMem.denied /\ mrMem'.check = mrMem.check
        /\ mrMem'.assigned = mrMem.assigned /\ mrMem'.rev = mrMem.rev
        /\ mrMem'.on = mrMem.on /\ mrMem'.gen = mrMem.gen
    BY <2>1 DEF MrAdopted, MrIInv, MrStores, MrStateOk, MrRecord
  <2>3. MrCheckOk' /\ MrCallsOk' /\ MrAppliedTruthful'
    BY <1>12, <2>2, MrFrames
  <2> QED BY <1>10, <1>12, <2>1, <2>3, MrSavedInv
<1> QED BY <1>1, <1>11, <1>12, Zenon

\* Cutting a check short keeps what is known of it.
LEMMA MrCutMore ==
    ASSUME MrIInv, NEW b, mrCheck' = [mrCheck EXCEPT !.cut = b], mrCheck.cut => b,
           mrMem'.denied = mrMem.denied, mrMem'.check.gen = mrMem.check.gen,
           mrMem'.check.kind = mrMem.check.kind, mrUp' = mrUp, mrProven' = mrProven
    PROVE  MrCheckOk'
<1>1. /\ mrCheck'.pc = mrCheck.pc /\ mrCheck'.pass = mrCheck.pass /\ mrCheck'.cut = b
      /\ mrCheck' = [pc |-> mrCheck'.pc, cut |-> mrCheck'.cut, pass |-> mrCheck'.pass,
                     auth |-> mrCheck'.auth]
  BY DEF MrIInv, MrCheckOk
<1> QED BY <1>1, Zenon DEF MrIInv, MrCheckOk

\* What a well-formed state's other fields may change to.
LEMMA MrSameStage ==
    ASSUME NEW x, NEW p, NEW n, MrStateOk(x, p, n), NEW s, MrRecord(s),
           s.assigned = x.assigned, s.gen = x.gen, s.on = x.on, s.denied = x.denied,
           s.evid \subseteq p, s.stage.id = x.stage.id, s.stage.gen = x.stage.gen,
           s.stage.evid \subseteq p
    PROVE  MrStateOk(s, p, n)
BY Zenon DEF MrStateOk

MrLateOf(x, b) == [x EXCEPT !.stage.late = b]

\* A draft that is too late is as well formed as before.
LEMMA MrLate ==
    ASSUME NEW x, NEW p, NEW n, NEW b, MrStateOk(x, p, n)
    PROVE  LET s == MrLateOf(x, b)
           IN  /\ MrStateOk(s, p, n)
               /\ s.rev = x.rev /\ s.assigned = x.assigned /\ s.gen = x.gen
               /\ s.on = x.on /\ s.denied = x.denied /\ s.retired = x.retired
               /\ s.check = x.check
<1>1. PICK s : s = MrLateOf(x, b) OBVIOUS
<1>2. PICK g : g = s.stage OBVIOUS
<1>3. /\ s.rev = x.rev /\ s.assigned = x.assigned /\ s.gen = x.gen /\ s.key = x.key
      /\ s.on = x.on /\ s.denied = x.denied /\ s.retired = x.retired /\ s.evid = x.evid
      /\ s.check = x.check /\ s.stage = [x.stage EXCEPT !.late = b]
  BY <1>1 DEF MrRecord, MrStateOk, MrLateOf
<1>4. /\ g.id = x.stage.id /\ g.gen = x.stage.gen /\ g.evid = x.stage.evid
      /\ g = [id |-> g.id, actor |-> g.actor, base |-> g.base, gen |-> g.gen, key |-> g.key,
              evid |-> g.evid, late |-> g.late]
  BY <1>2, <1>3 DEF MrRecord, MrStateOk
<1>5. s = [rev |-> s.rev, assigned |-> s.assigned, gen |-> s.gen, key |-> s.key, on |-> s.on,
           denied |-> s.denied, retired |-> s.retired, evid |-> s.evid, stage |-> s.stage,
           check |-> s.check]
  BY <1>1 DEF MrRecord, MrStateOk, MrLateOf
<1>6. MrRecord(s) BY <1>2, <1>3, <1>4, <1>5, Zenon DEF MrRecord, MrStateOk
<1>7. s.evid \subseteq p /\ s.stage.evid \subseteq p BY <1>2, <1>3, <1>4, Zenon DEF MrStateOk
<1>8. MrStateOk(s, p, n) BY <1>2, <1>3, <1>4, <1>6, <1>7, MrSameStage, Zenon
<1> QED BY <1>1, <1>3, <1>8, Zenon

\* StageTTL passes in memory and in the stored row.
LEMMA MrStageExpiresInv ==
    ASSUME MrIInv, MrStageExpires
    PROVE  MrIInv' /\ MrDenyKept
<1>1. /\ mrMem' = [mrMem EXCEPT !.stage.late = TRUE]
      /\ mrDisk' = [mrDisk EXCEPT !.stage.late = mrDisk.stage.late \/ mrDisk.stage.id = mrMem.stage.id]
      /\ UNCHANGED <<mrGen, mrUp, mrRights, mrCheck, mrCall, mrRoute, mrStatus, mrFaults, mrProven>>
  BY DEF MrStageExpires
<1>2. MrStateOk(mrMem, mrProven, mrGen.gen) /\ MrStateOk(mrDisk, mrProven, mrGen.gen)
  BY DEF MrIInv, MrStores
<1>a. PICK l, k : l = TRUE /\ k = (mrDisk.stage.late \/ mrDisk.stage.id = mrMem.stage.id)
  OBVIOUS
<1>b. mrMem' = MrLateOf(mrMem, l) /\ mrDisk' = MrLateOf(mrDisk, k)
  BY <1>1, <1>a, Zenon DEF MrLateOf
<1>3. /\ MrStateOk(mrMem', mrProven, mrGen.gen) /\ mrMem'.denied = mrMem.denied
      /\ mrMem'.retired = mrMem.retired /\ mrMem'.check = mrMem.check
      /\ mrMem'.assigned = mrMem.assigned /\ mrMem'.rev = mrMem.rev
      /\ mrMem'.on = mrMem.on /\ mrMem'.gen = mrMem.gen
  BY <1>b, <1>2, MrLate
<1>4. /\ MrStateOk(mrDisk', mrProven, mrGen.gen) /\ mrDisk'.denied = mrDisk.denied
      /\ mrDisk'.retired = mrDisk.retired
  BY <1>b, <1>2, MrLate
<1>5. MrGenOk' BY <1>1 DEF MrIInv, MrStores, MrGenOk
<1>6. MrStores' BY <1>1, <1>3, <1>4, <1>5, Zenon DEF MrIInv, MrStores
<1>7. MrCheckOk' /\ MrCallsOk' /\ MrAppliedTruthful' BY <1>1, <1>3, MrFrames
<1>8. MrDenyKept BY <1>3 DEF MrDenyKept
<1> QED BY <1>6, <1>7, <1>8, Zenon DEF MrIInv

\* Discard takes the draft away and ends its check.
LEMMA MrDiscardInv ==
    ASSUME MrIInv, NEW a, MrDiscard(a)
    PROVE  MrIInv' /\ MrDenyKept
<1> DEFINE s == [mrMem EXCEPT !.stage = MrNoStage]
<1>1. /\ mrGen' = mrGen
      /\ \/ /\ MrSaved(s)
            /\ mrCheck' = [mrCheck EXCEPT !.cut = mrCheck.cut \/
                            (MrChecking /\ mrMem.check.stage = mrMem.stage.id)]
            /\ UNCHANGED <<mrUp, mrRights, mrCall, mrRoute, mrStatus, mrProven>>
         \/ MrNotSaved(s)
  BY DEF MrDiscard
<1>2. mrGen.gen \in Nat BY DEF MrIInv, MrStores, MrGenOk
<1>3. MrGenOk' /\ mrGen.gen <= mrGen'.gen BY <1>1, <1>2 DEF MrIInv, MrStores, MrGenOk
<1>4. 0 \notin mrMem.denied BY <1>2 DEF MrIInv, MrStores, MrStateOk
<1>5. 0 \in Nat /\ 0 \in 0 .. mrGen'.gen /\ {} \in SUBSET mrProven BY <1>1, <1>2
<1>6. MrNewState(s) BY <1>3, <1>4, <1>5, MrWithStage DEF MrNoStage
<1>7. CASE MrNotSaved(s) BY <1>6, <1>7, MrNotSavedInv
<1>8. CASE /\ MrSaved(s)
           /\ mrCheck' = [mrCheck EXCEPT !.cut = mrCheck.cut \/
                            (MrChecking /\ mrMem.check.stage = mrMem.stage.id)]
           /\ UNCHANGED <<mrUp, mrRights, mrCall, mrRoute, mrStatus, mrProven>>
  <2>1. MrAdopted(s) BY <1>8 DEF MrSaved
  <2>2. /\ mrMem'.denied = mrMem.denied /\ mrMem'.check = mrMem.check
        /\ mrMem'.assigned = mrMem.assigned /\ mrMem'.rev = mrMem.rev
        /\ mrMem'.on = mrMem.on /\ mrMem'.gen = mrMem.gen
    BY <2>1 DEF MrAdopted, MrIInv, MrStores, MrStateOk, MrRecord
  <2>3. MrCallsOk' /\ MrAppliedTruthful' BY <1>8, <2>2, MrFrames
  <2>4. MrCheckOk' BY <1>8, <2>2, MrCutMore
  <2> QED BY <1>6, <1>8, <2>1, <2>3, <2>4, MrSavedInv
<1> QED BY <1>1, <1>7, <1>8, Zenon

\* Probe records a check of a generation that is not denied.
LEMMA MrProbeInv ==
    ASSUME MrIInv, NEW a, NEW kind, NEW draft \in BOOLEAN, MrProbe(a, kind, draft)
    PROVE  MrIInv' /\ MrDenyKept
<1> DEFINE g == IF draft THEN mrMem.stage.gen ELSE mrMem.gen
           i == IF draft THEN mrMem.stage.id ELSE 0
           s == [mrMem EXCEPT !.check = [state |-> "running", gen |-> g, stage |-> i,
                                         kind |-> kind, actor |-> a]]
<1>1. /\ g \notin mrMem.denied
      /\ mrGen' = [mrGen EXCEPT !.check = @ + 1]
      /\ \/ /\ MrSaved(s)
            /\ mrCheck' = [MrNoRun EXCEPT !.pc = "start"]
            /\ UNCHANGED <<mrUp, mrRights, mrCall, mrRoute, mrStatus, mrProven>>
         \/ MrNotSaved(s)
  BY DEF MrProbe
<1>2. mrGen.gen \in Nat BY DEF MrIInv, MrStores, MrGenOk
<1>3. MrGenOk' /\ mrGen.gen <= mrGen'.gen BY <1>1, <1>2 DEF MrIInv, MrStores, MrGenOk
<1> HIDE DEF g, i
<1>6. MrNewState(s) BY <1>3, MrWithCheck
<1>7. CASE MrNotSaved(s) BY <1>6, <1>7, MrNotSavedInv
<1>8. CASE /\ MrSaved(s)
           /\ mrCheck' = [MrNoRun EXCEPT !.pc = "start"]
           /\ UNCHANGED <<mrUp, mrRights, mrCall, mrRoute, mrStatus, mrProven>>
  <2>1. MrAdopted(s) BY <1>8 DEF MrSaved
  <2>2. /\ mrMem'.denied = mrMem.denied
        /\ mrMem'.assigned = mrMem.assigned /\ mrMem'.rev = mrMem.rev
        /\ mrMem'.on = mrMem.on /\ mrMem'.gen = mrMem.gen
    BY <2>1 DEF MrAdopted, MrIInv, MrStores, MrStateOk, MrRecord
  <2>3. MrCallsOk' /\ MrAppliedTruthful' BY <1>8, <2>2, MrFrames
  <2>4. MrCheckOk' BY <1>8 DEF MrCheckOk, MrNoRun
  <2> QED BY <1>6, <1>8, <2>1, <2>3, <2>4, MrSavedInv
<1> QED BY <1>1, <1>7, <1>8, Zenon

\* CancelProbe asks the check to stop.
LEMMA MrCancelInv ==
    ASSUME MrIInv, MrCancel
    PROVE  MrIInv' /\ MrDenyKept
<1> DEFINE r == mrMem.check
           s == [mrMem EXCEPT !.check = [state |-> "cancel_requested", gen |-> r.gen,
                                 stage |-> r.stage, kind |-> r.kind, actor |-> r.actor]]
<1>0. s = [mrMem EXCEPT !.check.state = "cancel_requested"]
  <2>1. PICK t : t = mrMem OBVIOUS
  <2>2. MrRecord(t) BY <2>1 DEF MrIInv, MrStores, MrStateOk
  <2>3. [t EXCEPT !.check.state = "cancel_requested"]
        = [t EXCEPT !.check = [state |-> "cancel_requested", gen |-> t.check.gen,
               stage |-> t.check.stage, kind |-> t.check.kind, actor |-> t.check.actor]]
    BY <2>2 DEF MrRecord
  <2> QED BY <2>1, <2>3
<1>1. /\ mrGen' = mrGen
      /\ \/ /\ MrSaved(s)
            /\ mrCheck' = [mrCheck EXCEPT !.cut = TRUE]
            /\ UNCHANGED <<mrUp, mrRights, mrCall, mrRoute, mrStatus, mrProven>>
         \/ MrNotSaved(s)
  BY <1>0, Zenon DEF MrCancel
<1>2. mrGen.gen \in Nat BY DEF MrIInv, MrStores, MrGenOk
<1>3. MrGenOk' /\ mrGen.gen <= mrGen'.gen BY <1>1, <1>2 DEF MrIInv, MrStores, MrGenOk
<1>6. MrNewState(s) BY <1>3, MrWithCheck
<1>7. CASE MrNotSaved(s) BY <1>6, <1>7, MrNotSavedInv
<1>8. CASE /\ MrSaved(s)
           /\ mrCheck' = [mrCheck EXCEPT !.cut = TRUE]
           /\ UNCHANGED <<mrUp, mrRights, mrCall, mrRoute, mrStatus, mrProven>>
  <2>1. MrAdopted(s) BY <1>8 DEF MrSaved
  <2>2. /\ mrMem'.denied = mrMem.denied
        /\ mrMem'.check.gen = mrMem.check.gen /\ mrMem'.check.kind = mrMem.check.kind
        /\ mrMem'.assigned = mrMem.assigned /\ mrMem'.rev = mrMem.rev
        /\ mrMem'.on = mrMem.on /\ mrMem'.gen = mrMem.gen
    BY <2>1 DEF MrAdopted, MrIInv, MrStores, MrStateOk, MrRecord
  <2>3. MrCallsOk' /\ MrAppliedTruthful' BY <1>8, <2>2, MrFrames
  <2>4. MrCheckOk' BY <1>8, <2>2, MrCutMore
  <2> QED BY <1>6, <1>8, <2>1, <2>3, <2>4, MrSavedInv
<1> QED BY <1>1, <1>7, <1>8, Zenon

\* The end of a check: its outcome, and what it adds to the evidence.
MrEnded(st, new, draft) ==
    IF draft THEN [mrMem EXCEPT !.check = MrSettled(st), !.stage.evid = mrMem.stage.evid \union new]
    ELSE [mrMem EXCEPT !.check = MrSettled(st), !.evid = mrMem.evid \union new]

\* The state at the end of a check, whose new evidence was proven.
LEMMA MrWithEvid ==
    ASSUME MrIInv, NEW st, NEW new \in SUBSET mrProven, mrGen' = mrGen, NEW draft \in BOOLEAN
    PROVE  LET s == MrEnded(st, new, draft)
           IN  /\ MrNewState(s)
               /\ s.denied = mrMem.denied /\ s.assigned = mrMem.assigned /\ s.rev = mrMem.rev
               /\ s.on = mrMem.on /\ s.gen = mrMem.gen
<1>0. PICK s : s = MrEnded(st, new, draft) OBVIOUS
<1>1. PICK t : t = mrMem OBVIOUS
<1>2. PICK g : g = s.stage OBVIOUS
<1>3. PICK k : k = MrSettled(st) OBVIOUS
<1>4. mrGen.gen \in Nat BY DEF MrIInv, MrStores, MrGenOk
<1>5. MrStateOk(t, mrProven, mrGen'.gen) BY <1>1, Zenon DEF MrIInv, MrStores
<1>6. k = [state |-> k.state, gen |-> k.gen, stage |-> k.stage, kind |-> k.kind,
           actor |-> k.actor]
  BY <1>3 DEF MrSettled, MrNoCheck
<1>7. \/ s = [t EXCEPT !.check = k, !.evid = t.evid \union new]
      \/ s = [t EXCEPT !.check = k, !.stage.evid = t.stage.evid \union new]
  BY <1>0, <1>1, <1>3, Zenon DEF MrEnded
<1>8. /\ s.rev = t.rev /\ s.assigned = t.assigned /\ s.gen = t.gen /\ s.key = t.key
      /\ s.on = t.on /\ s.denied = t.denied /\ s.retired = t.retired
      /\ s.check = k /\ s.evid \subseteq mrProven
      /\ \/ g = t.stage
         \/ g = [t.stage EXCEPT !.evid = t.stage.evid \union new]
      /\ s = [rev |-> s.rev, assigned |-> s.assigned, gen |-> s.gen, key |-> s.key, on |-> s.on,
              denied |-> s.denied, retired |-> s.retired, evid |-> s.evid, stage |-> s.stage,
              check |-> s.check]
  <2> HIDE DEF MrSettled
  <2>1. CASE s = [t EXCEPT !.check = k, !.evid = t.evid \union new]
    BY <1>2, <1>5, <2>1 DEF MrStateOk, MrRecord
  <2>2. CASE s = [t EXCEPT !.check = k, !.stage.evid = t.stage.evid \union new]
    BY <1>2, <1>5, <2>2 DEF MrStateOk, MrRecord
  <2> QED BY <1>7, <2>1, <2>2
<1>9. /\ g.id = t.stage.id /\ g.gen = t.stage.gen /\ g.evid \subseteq mrProven
      /\ g = [id |-> g.id, actor |-> g.actor, base |-> g.base, gen |-> g.gen, key |-> g.key,
              evid |-> g.evid, late |-> g.late]
  BY <1>5, <1>8 DEF MrStateOk, MrRecord
<1>10. MrRecord(s) BY <1>2, <1>6, <1>8, <1>9, Zenon DEF MrRecord
<1>11. MrStateOk(s, mrProven, mrGen'.gen)
  BY <1>2, <1>5, <1>8, <1>9, <1>10, Zenon DEF MrStateOk
<1>12. MrGenOk' BY DEF MrIInv, MrStores, MrGenOk
<1> QED BY <1>0, <1>1, <1>4, <1>8, <1>11, <1>12 DEF MrNewState

\* runProbe ends, saved or not: evidence is only what was answered.
LEMMA MrFinishInv ==
    ASSUME MrIInv, MrFinish
    PROVE  MrIInv' /\ MrDenyKept
<1> DEFINE r    == mrMem.check
           good == MrPassed
           new  == IF good THEN {<<r.gen, r.kind>>} ELSE {}
           st   == CASE good -> "completed"
                     [] ~good /\ (mrCheck.cut \/ r.state = "cancel_requested") -> "cancelled"
                     [] OTHER -> "failed"
           d    == r.stage # 0
           s    == MrEnded(st, new, d)
           i    == [mrMem EXCEPT !.check = MrSettled("interrupted")]
<1>1. /\ mrCheck' = MrNoRun
      /\ \/ mrUp = "open" /\ MrSaved(s)
         \/ mrUp = "open" /\ mrMem' = i /\ mrDisk' \in {mrDisk, s}
         \/ mrUp = "closed" /\ UNCHANGED <<mrMem, mrDisk, mrFaults>>
      /\ UNCHANGED <<mrGen, mrUp, mrRights, mrCall, mrRoute, mrStatus, mrProven>>
  BY DEF MrFinish, MrEnded
<1>2. MrCheckOk' BY <1>1 DEF MrCheckOk, MrNoRun
<1>3. mrGen.gen \in Nat BY DEF MrIInv, MrStores, MrGenOk
<1>4. MrGenOk' /\ mrGen.gen <= mrGen'.gen BY <1>1, <1>3 DEF MrIInv, MrStores, MrGenOk
<1>5. ASSUME mrUp = "open" PROVE new \in SUBSET mrProven
  BY <1>5 DEF MrIInv, MrCheckOk, MrPassed
<1> HIDE DEF new, st, d
<1>6. ASSUME mrUp = "open"
      PROVE  /\ MrNewState(s)
             /\ s.denied = mrMem.denied /\ s.assigned = mrMem.assigned /\ s.rev = mrMem.rev
             /\ s.on = mrMem.on /\ s.gen = mrMem.gen
  <2>2. new \in SUBSET mrProven /\ mrGen' = mrGen BY <1>1, <1>5, <1>6
  <2>3. d \in BOOLEAN BY DEF d
  <2> QED BY <2>2, <2>3, MrWithEvid
<1>7. /\ MrNewState(i)
      /\ i.denied = mrMem.denied /\ i.assigned = mrMem.assigned /\ i.rev = mrMem.rev
      /\ i.on = mrMem.on /\ i.gen = mrMem.gen /\ i.retired = mrMem.retired
  <2>1. MrNewState(i) BY <1>4, MrWithCheck DEF MrSettled, MrNoCheck
  <2> QED BY <2>1 DEF MrIInv, MrStores, MrStateOk, MrRecord
<1> HIDE DEF s, i
<1>8. CASE mrUp = "open" /\ MrSaved(s)
  <2>1. MrAdopted(s) BY <1>8 DEF MrSaved
  <2>2. MrCallsOk' /\ MrAppliedTruthful'
    BY <1>1, <1>6, <1>8, <2>1, MrFrames DEF MrAdopted
  <2> QED BY <1>1, <1>2, <1>6, <1>8, <2>1, <2>2, MrSavedInv
<1>9. CASE mrUp = "open" /\ mrMem' = i /\ mrDisk' \in {mrDisk, s}
  <2>1. MrCallsOk' /\ MrAppliedTruthful'
    BY <1>1, <1>7, <1>9, MrFrames
  <2>2. MrStateOk(i, mrProven', mrGen'.gen) /\ MrStateOk(s, mrProven', mrGen'.gen)
    BY <1>1, <1>6, <1>7, <1>9, Zenon DEF MrNewState
  <2>3. MrStateOk(mrDisk, mrProven', mrGen'.gen) BY <1>1, Zenon DEF MrIInv, MrStores
  <2>4. MrStateOk(mrMem', mrProven', mrGen'.gen) /\ MrStateOk(mrDisk', mrProven', mrGen'.gen)
    BY <1>9, <2>2, <2>3, Zenon
  <2>5. mrMem'.denied \subseteq mrDisk'.denied /\ mrMem'.retired \subseteq mrDisk'.retired
    <3>1. mrMem'.denied = mrMem.denied /\ mrMem'.retired = mrMem.retired BY <1>7, <1>9
    <3> QED BY <1>6, <1>9, <3>1, Zenon DEF MrIInv, MrStores, MrNewState
  <2>6. MrDenyKept BY <1>7, <1>9 DEF MrDenyKept
  <2> QED BY <1>2, <1>4, <2>1, <2>4, <2>5, <2>6, Zenon DEF MrIInv, MrStores
<1>10. CASE mrUp = "closed" /\ UNCHANGED <<mrMem, mrDisk, mrFaults>>
  <2>1. MrStores' BY <1>1, <1>10, MrStoresStay DEF MrIInv
  <2>2. MrCallsOk' /\ MrAppliedTruthful' BY <1>1, <1>10, MrFrames
  <2>3. MrDenyKept BY <1>10 DEF MrDenyKept
  <2> QED BY <1>2, <2>1, <2>2, <2>3, Zenon DEF MrIInv
<1> QED BY <1>1, <1>8, <1>9, <1>10, Zenon

\* cancelDeniedLocked leaves nothing that uses what the new state denies.
LEMMA MrCuts ==
    ASSUME MrIInv, NEW s, mrMem' = s, s.check = mrMem.check, mrCheck' = MrCutCheck(s),
           mrCall' = MrCutCalls(s), mrUp' = mrUp, mrProven' = mrProven
    PROVE  MrCheckOk' /\ MrCallsOk'
<1>1. MrCheckOk'
  <2> DEFINE b == \/ mrCheck.cut
                  \/ /\ MrChecking
                     /\ \/ s.check.gen \in s.denied
                        \/ s.check.stage # 0 /\ s.check.stage # s.stage.id
  <2>2. mrCheck' = [mrCheck EXCEPT !.cut = b] BY DEF MrCutCheck
  <2>1. mrCheck.cut => b OBVIOUS
  <2>3. /\ mrCheck'.pc = mrCheck.pc /\ mrCheck'.pass = mrCheck.pass /\ mrCheck'.cut = b
        /\ mrCheck' = [pc |-> mrCheck'.pc, cut |-> mrCheck'.cut, pass |-> mrCheck'.pass,
                       auth |-> mrCheck'.auth]
    <3> HIDE DEF b
    <3> QED BY <2>2 DEF MrIInv, MrCheckOk
  <2>4. mrCheck.pc = "asked" /\ s.check.gen \in s.denied => b
    BY Zenon DEF MrChecking
  <2> HIDE DEF b
  <2> QED BY <2>1, <2>3, <2>4, Zenon DEF MrIInv, MrCheckOk
<1>2. MrCallsOk'
  <2>1. mrCall' = [c \in MrCalls |-> mrCall'[c]] BY DEF MrCutCalls
  <2>2. ASSUME NEW c \in MrCalls
        PROVE  /\ mrCall'[c] = [pc |-> mrCall'[c].pc, gen |-> mrCall'[c].gen,
                                cut |-> mrCall'[c].cut]
               /\ mrCall'[c].pc = "admitted" /\ mrCall'[c].gen \in mrMem'.denied => mrCall'[c].cut
    <3>1. mrCall'[c] = IF mrCall[c].pc = "admitted" /\ mrCall[c].gen \in s.denied
                       THEN [mrCall[c] EXCEPT !.cut = TRUE] ELSE mrCall[c]
      BY DEF MrCutCalls
    <3>2. mrCall[c] = [pc |-> mrCall[c].pc, gen |-> mrCall[c].gen, cut |-> mrCall[c].cut]
      BY DEF MrIInv, MrCallsOk
    <3> QED BY <3>1, <3>2
  <2> QED BY <2>1, <2>2, Zenon DEF MrCallsOk
<1> QED BY <1>1, <1>2

\* The policy that Activate puts in the place of the one in use.
MrActivated(x) ==
    [x EXCEPT !.rev = x.rev + 1, !.assigned = TRUE, !.gen = x.stage.gen, !.key = x.stage.key,
              !.on = TRUE, !.evid = x.stage.evid, !.stage = MrNoStage,
              !.denied  = IF x.stage.gen = x.gen THEN x.denied ELSE x.denied \union {x.gen},
              !.retired = IF x.stage.gen = x.gen THEN x.retired ELSE x.retired \union {x.key}]

\* A draft that has passed every check becomes a proven policy.
LEMMA MrActivatedOk ==
    ASSUME NEW x, NEW p, NEW n \in Nat, MrStateOk(x, p, n), x.stage.id # 0,
           {x.stage.gen} \X MrKinds \subseteq x.stage.evid
    PROVE  LET s == MrActivated(x)
           IN  /\ MrStateOk(s, p, n) /\ x.denied \subseteq s.denied
               /\ x.retired \subseteq s.retired /\ s.check = x.check
<1>1. PICK s : s = MrActivated(x) OBVIOUS
<1>2. PICK d, r : /\ d = IF x.stage.gen = x.gen THEN x.denied ELSE x.denied \union {x.gen}
                  /\ r = IF x.stage.gen = x.gen THEN x.retired ELSE x.retired \union {x.key}
  OBVIOUS
<1>3. /\ s.rev = x.rev + 1 /\ s.assigned = TRUE /\ s.gen = x.stage.gen /\ s.key = x.stage.key
      /\ s.on = TRUE /\ s.evid = x.stage.evid /\ s.stage = MrNoStage /\ s.check = x.check
      /\ s.denied = d /\ s.retired = r
      /\ s = [rev |-> s.rev, assigned |-> s.assigned, gen |-> s.gen, key |-> s.key, on |-> s.on,
              denied |-> s.denied, retired |-> s.retired, evid |-> s.evid, stage |-> s.stage,
              check |-> s.check]
  BY <1>1, <1>2 DEF MrActivated, MrStateOk, MrRecord
<1>4. PICK g : g = s.stage OBVIOUS
<1>5. /\ g.id = 0 /\ g.gen = 0 /\ g.evid = {}
      /\ g = [id |-> g.id, actor |-> g.actor, base |-> g.base, gen |-> g.gen, key |-> g.key,
              evid |-> g.evid, late |-> g.late]
  BY <1>3, <1>4 DEF MrNoStage
<1>6. MrRecord(s) BY <1>3, <1>4, <1>5, Zenon DEF MrStateOk, MrRecord
<1>7. x.denied \subseteq d /\ x.retired \subseteq r /\ d \subseteq x.denied \union {x.gen}
  BY <1>2
<1>8. x.stage.gen \in 1 .. n /\ x.stage.gen \notin d
  <2>1. x.stage.gen \in 0 .. n /\ x.stage.gen # 0 /\ x.stage.gen \notin x.denied
    BY DEF MrStateOk
  <2> QED BY <1>2, <2>1
<1>9. d \subseteq 1 .. n /\ 0 \in 0 .. n /\ 0 \notin d BY <1>7 DEF MrStateOk
<1>10. x.stage.evid \subseteq p BY DEF MrStateOk
<1>11. {x.stage.gen} \X MrKinds \subseteq p BY <1>10
<1>12. MrStateOk(s, p, n)
  BY <1>3, <1>4, <1>5, <1>6, <1>8, <1>9, <1>10, <1>11 DEF MrStateOk
<1> QED BY <1>1, <1>3, <1>7, <1>12, Zenon

\* Activate denies the generation it replaces and cuts what uses it.
LEMMA MrActivateInv ==
    ASSUME MrIInv, NEW a, MrActivate(a)
    PROVE  MrIInv' /\ MrDenyKept
<1> DEFINE s == MrActivated(mrMem)
<1>1. /\ {mrMem.stage.gen} \X MrKinds \subseteq mrMem.stage.evid /\ mrGen' = mrGen
      /\ mrMem.stage.id # 0
      /\ \/ /\ MrAdopted(s)
            /\ mrCheck' = MrCutCheck(s) /\ mrCall' = MrCutCalls(s)
            /\ MrPublish(s, s.gen)
            /\ UNCHANGED <<mrUp, mrRights, mrProven>>
         \/ MrNotSaved(s)
  BY Zenon DEF MrActivate, MrActivated, MrOwnStage, MrStageLive
<1> HIDE DEF s
<1>2. mrGen.gen \in Nat BY DEF MrIInv, MrStores, MrGenOk
<1>3. MrGenOk' /\ mrGen.gen <= mrGen'.gen BY <1>1, <1>2 DEF MrIInv, MrStores, MrGenOk
<1>4. MrStateOk(mrMem, mrProven, mrGen.gen) BY DEF MrIInv, MrStores
<1>5. /\ MrStateOk(s, mrProven, mrGen.gen) /\ mrMem.denied \subseteq s.denied
      /\ mrMem.retired \subseteq s.retired /\ s.check = mrMem.check
  BY <1>1, <1>2, <1>4, MrActivatedOk DEF s
<1>6. MrNewState(s) BY <1>1, <1>3, <1>5 DEF MrNewState
<1>7. CASE MrNotSaved(s) BY <1>6, <1>7, MrNotSavedInv
<1>8. CASE /\ MrAdopted(s)
           /\ mrCheck' = MrCutCheck(s) /\ mrCall' = MrCutCalls(s)
           /\ MrPublish(s, s.gen)
           /\ UNCHANGED <<mrUp, mrRights, mrProven>>
  <2>1. mrMem' = s /\ mrUp' = mrUp /\ mrProven' = mrProven BY <1>8 DEF MrAdopted
  <2>2. MrCheckOk' /\ MrCallsOk' BY <1>5, <1>8, <2>1, MrCuts
  <2>3. MrAppliedTruthful' BY <1>8, <2>1 DEF MrAppliedTruthful, MrPublish
  <2> QED BY <1>6, <1>8, <2>1, <2>2, <2>3, MrSavedInv
<1> QED BY <1>1, <1>7, <1>8, Zenon

\* What Revoke leaves.
MrRevoked(x) ==
    [x EXCEPT !.rev = x.rev + 1, !.on = FALSE, !.denied = x.denied \union {x.gen},
              !.retired = x.retired \union {x.key}, !.stage = MrNoStage]

\* The state after a revocation is well formed and denies more.
LEMMA MrRevokedOk ==
    ASSUME NEW x, NEW p, NEW n \in Nat, MrStateOk(x, p, n)
    PROVE  LET s == MrRevoked(x)
           IN  /\ MrStateOk(s, p, n) /\ x.denied \subseteq s.denied
               /\ x.retired \subseteq s.retired /\ s.check = x.check
               /\ s.on = FALSE /\ s.assigned = x.assigned
<1>1. PICK s : s = MrRevoked(x) OBVIOUS
<1>3. /\ s.assigned = x.assigned /\ s.gen = x.gen /\ s.key = x.key
      /\ s.on = FALSE /\ s.evid = x.evid /\ s.stage = MrNoStage /\ s.check = x.check
      /\ s.denied = x.denied \union {x.gen} /\ s.retired = x.retired \union {x.key}
      /\ s = [rev |-> s.rev, assigned |-> s.assigned, gen |-> s.gen, key |-> s.key, on |-> s.on,
              denied |-> s.denied, retired |-> s.retired, evid |-> s.evid, stage |-> s.stage,
              check |-> s.check]
  BY <1>1 DEF MrRevoked, MrStateOk, MrRecord
<1>4. PICK g : g = s.stage OBVIOUS
<1>5. /\ g.id = 0 /\ g.gen = 0 /\ g.evid = {}
      /\ g = [id |-> g.id, actor |-> g.actor, base |-> g.base, gen |-> g.gen, key |-> g.key,
              evid |-> g.evid, late |-> g.late]
  BY <1>3, <1>4 DEF MrNoStage
<1>6. MrRecord(s) BY <1>3, <1>4, <1>5, Zenon DEF MrStateOk, MrRecord
<1>9. s.denied \subseteq 1 .. n /\ 0 \in 0 .. n /\ 0 \notin s.denied BY <1>3 DEF MrStateOk
<1>12. MrStateOk(s, p, n)
  BY <1>3, <1>4, <1>5, <1>6, <1>9 DEF MrStateOk
<1> QED BY <1>1, <1>3, <1>12

\* Revoke denies the generation in use and cuts what uses it.
LEMMA MrRevokeInv ==
    ASSUME MrIInv, NEW a, MrRevoke(a)
    PROVE  MrIInv' /\ MrDenyKept
<1> DEFINE s == MrRevoked(mrMem)
<1>1. /\ mrGen' = mrGen
      /\ \/ /\ MrAdopted(s)
            /\ mrCheck' = MrCutCheck(s) /\ mrCall' = MrCutCalls(s)
            /\ \/ mrMem.assigned /\ MrPublish(s, mrRoute.gen)
               \/ ~mrMem.assigned
            /\ UNCHANGED <<mrUp, mrRights, mrProven>>
         \/ MrNotSaved(s)
  BY Zenon DEF MrRevoke, MrRevoked
<1> HIDE DEF s
<1>2. mrGen.gen \in Nat BY DEF MrIInv, MrStores, MrGenOk
<1>3. MrGenOk' /\ mrGen.gen <= mrGen'.gen BY <1>1, <1>2 DEF MrIInv, MrStores, MrGenOk
<1>4. MrStateOk(mrMem, mrProven, mrGen.gen) BY DEF MrIInv, MrStores
<1>5. /\ MrStateOk(s, mrProven, mrGen.gen) /\ mrMem.denied \subseteq s.denied
      /\ mrMem.retired \subseteq s.retired /\ s.check = mrMem.check
      /\ s.on = FALSE /\ s.assigned = mrMem.assigned
  BY <1>2, <1>4, MrRevokedOk DEF s
<1>6. MrNewState(s) BY <1>1, <1>3, <1>5 DEF MrNewState
<1>7. CASE MrNotSaved(s) BY <1>6, <1>7, MrNotSavedInv
<1>8. CASE /\ MrAdopted(s)
           /\ mrCheck' = MrCutCheck(s) /\ mrCall' = MrCutCalls(s)
           /\ \/ mrMem.assigned /\ MrPublish(s, mrRoute.gen)
              \/ ~mrMem.assigned
           /\ UNCHANGED <<mrUp, mrRights, mrProven>>
  <2>1. mrMem' = s /\ mrUp' = mrUp /\ mrProven' = mrProven BY <1>8 DEF MrAdopted
  <2>2. MrCheckOk' /\ MrCallsOk' BY <1>5, <1>8, <2>1, MrCuts
  <2>3. MrAppliedTruthful' BY <1>5, <1>8, <2>1 DEF MrAppliedTruthful, MrPublish
  <2> QED BY <1>6, <1>8, <2>1, <2>2, <2>3, MrSavedInv
<1> QED BY <1>1, <1>7, <1>8, Zenon

\* The steps of a running check.
LEMMA MrAskInv ==
    ASSUME MrIInv, MrAsk
    PROVE  MrIInv' /\ MrDenyKept
<1>1. /\ mrCheck.pc = "start"
      /\ mrCheck' = [mrCheck EXCEPT !.pc =
            IF mrMem.check.actor \in mrRights /\ ~mrCheck.cut
               /\ MrAdmits(mrMem.check.gen, mrMem.check.stage)
            THEN "asked" ELSE "answered"]
      /\ mrMem' = mrMem /\ mrDisk' = mrDisk /\ mrGen' = mrGen /\ mrUp' = mrUp
      /\ mrCall' = mrCall /\ mrRoute' = mrRoute /\ mrStatus' = mrStatus /\ mrProven' = mrProven
  BY DEF MrAsk
<1>2. PICK q : q = (mrMem.check.actor \in mrRights /\ ~mrCheck.cut
                    /\ MrAdmits(mrMem.check.gen, mrMem.check.stage))
  OBVIOUS
<1>3. PICK t : t = IF q THEN "asked" ELSE "answered" OBVIOUS
<1>4. /\ t \in {"asked", "answered"}
      /\ t = "asked" => mrMem.check.gen \notin mrMem.denied
  BY <1>2, <1>3 DEF MrAdmits
<1>5. mrCheck' = [mrCheck EXCEPT !.pc = t] BY <1>1, <1>2, <1>3
<1>6. /\ mrCheck'.pc = t /\ mrCheck'.pass = mrCheck.pass /\ ~mrCheck.pass
      /\ mrCheck' = [pc |-> mrCheck'.pc, cut |-> mrCheck'.cut, pass |-> mrCheck'.pass,
                     auth |-> mrCheck'.auth]
  BY <1>1, <1>5 DEF MrIInv, MrCheckOk
<1>7. MrCheckOk' BY <1>1, <1>4, <1>6 DEF MrCheckOk
<1>8. MrStores' BY <1>1, MrStoresStay DEF MrIInv
<1>9. MrCallsOk' /\ MrAppliedTruthful' BY <1>1, MrFrames
<1>10. MrDenyKept BY <1>1 DEF MrDenyKept
<1> QED BY <1>7, <1>8, <1>9, <1>10, Zenon DEF MrIInv

\* A check's calls return.
LEMMA MrAnsweredInv ==
    ASSUME MrIInv, MrAnswered
    PROVE  MrIInv' /\ MrDenyKept
<1>1. PICK good \in BOOLEAN :
          /\ mrCheck' = [mrCheck EXCEPT !.pc = "answered", !.auth = mrMem.check.actor \in mrRights,
                                        !.pass = good /\ ~mrCheck.cut]
          /\ mrProven' = IF good THEN mrProven \union {<<mrMem.check.gen, mrMem.check.kind>>}
                         ELSE mrProven
  BY DEF MrAnswered
<1>2. /\ mrMem' = mrMem /\ mrDisk' = mrDisk /\ mrGen' = mrGen /\ mrUp' = mrUp
      /\ mrCall' = mrCall /\ mrRoute' = mrRoute /\ mrStatus' = mrStatus
  BY DEF MrAnswered
<1>3. mrProven \subseteq mrProven' BY <1>1
<1>4. PICK w, v : w = (mrMem.check.actor \in mrRights) /\ v = (good /\ ~mrCheck.cut) OBVIOUS
<1>5. mrCheck' = [mrCheck EXCEPT !.pc = "answered", !.auth = w, !.pass = v] BY <1>1, <1>4
<1>6. /\ mrCheck'.pc = "answered" /\ mrCheck'.pass = v
      /\ mrCheck' = [pc |-> mrCheck'.pc, cut |-> mrCheck'.cut, pass |-> mrCheck'.pass,
                     auth |-> mrCheck'.auth]
  BY <1>5 DEF MrIInv, MrCheckOk
<1>a. v => <<mrMem.check.gen, mrMem.check.kind>> \in mrProven' BY <1>1, <1>4
<1>7. MrCheckOk' BY <1>2, <1>6, <1>a DEF MrCheckOk
<1>8. MrStores' BY <1>2, <1>3, MrStoresStay DEF MrIInv
<1>9. MrCallsOk' /\ MrAppliedTruthful' BY <1>2, MrFrames
<1>10. MrDenyKept BY <1>2 DEF MrDenyKept
<1> QED BY <1>7, <1>8, <1>9, <1>10, Zenon DEF MrIInv

\* A check's deadline only cuts it short.
LEMMA MrDeadlineInv ==
    ASSUME MrIInv, MrDeadline
    PROVE  MrIInv' /\ MrDenyKept
<1>1. /\ mrCheck' = [mrCheck EXCEPT !.cut = TRUE]
      /\ mrMem' = mrMem /\ mrDisk' = mrDisk /\ mrGen' = mrGen /\ mrUp' = mrUp
      /\ mrCall' = mrCall /\ mrRoute' = mrRoute /\ mrStatus' = mrStatus /\ mrProven' = mrProven
  BY DEF MrDeadline
<1>2. MrCheckOk' BY <1>1, MrCutMore
<1>3. MrStores' BY <1>1, MrStoresStay DEF MrIInv
<1>4. MrCallsOk' /\ MrAppliedTruthful' BY <1>1, MrFrames
<1>5. MrDenyKept BY <1>1 DEF MrDenyKept
<1> QED BY <1>2, <1>3, <1>4, <1>5, Zenon DEF MrIInv

\* The calls after one of them moved.
LEMMA MrCallsMove ==
    ASSUME MrIInv, NEW c \in MrCalls, NEW u, mrCall' = [mrCall EXCEPT ![c] = u],
           u = [pc |-> u.pc, gen |-> u.gen, cut |-> u.cut],
           u.pc = "admitted" => u.gen \notin mrMem.denied,
           mrMem' = mrMem
    PROVE  MrCallsOk'
<1>1. mrCall' = [d \in MrCalls |-> IF d = c THEN u ELSE mrCall[d]]
  BY DEF MrIInv, MrCallsOk
<1>2. mrCall' = [d \in MrCalls |-> mrCall'[d]] BY <1>1
<1>3. \A d \in MrCalls : mrCall'[d] = u \/ mrCall'[d] = mrCall[d] BY <1>1
<1> QED BY <1>2, <1>3, Zenon DEF MrIInv, MrCallsOk

\* The steps of a call: it is admitted only while its generation is not denied.
LEMMA MrCallInv ==
    ASSUME MrIInv, NEW c \in MrCalls, MrResolve(c) \/ MrAdmit(c) \/ MrOperate(c) \/ MrReturn(c)
    PROVE  MrIInv' /\ MrDenyKept
<1>1. /\ mrMem' = mrMem /\ mrDisk' = mrDisk /\ mrGen' = mrGen /\ mrUp' = mrUp
      /\ mrCheck' = mrCheck /\ mrRoute' = mrRoute /\ mrStatus' = mrStatus /\ mrProven' = mrProven
  BY DEF MrResolve, MrAdmit, MrOperate, MrReturn
<1>2. MrCallsOk'
  <2>a. PICK over : over = MrOver OBVIOUS
  <2>b. over.pc = "done" /\ over = [pc |-> over.pc, gen |-> over.gen, cut |-> over.cut]
    BY <2>a DEF MrOver, MrNoCall
  <2>1. CASE MrResolve(c)
    <3>1. PICK u : u = [pc |-> "bound", gen |-> mrRoute.gen, cut |-> FALSE] OBVIOUS
    <3>2. mrCall' = [mrCall EXCEPT ![c] = u] BY <2>1, <3>1 DEF MrResolve
    <3>3. u.pc = "bound" /\ u = [pc |-> u.pc, gen |-> u.gen, cut |-> u.cut] BY <3>1
    <3> QED BY <1>1, <3>2, <3>3, MrCallsMove
  <2>2. CASE MrAdmit(c) /\ MrAdmits(mrCall[c].gen, 0)
    <3>1. PICK u : u = [mrCall[c] EXCEPT !.pc = "admitted"] OBVIOUS
    <3>2. mrCall' = [mrCall EXCEPT ![c] = u] BY <2>2, <3>1 DEF MrAdmit
    <3>3. u = [pc |-> u.pc, gen |-> u.gen, cut |-> u.cut] /\ u.gen = mrCall[c].gen
      BY <3>1 DEF MrIInv, MrCallsOk
    <3>4. u.gen \notin mrMem.denied BY <2>2, <3>3 DEF MrAdmits
    <3> QED BY <1>1, <3>2, <3>3, <3>4, MrCallsMove
  <2>3. CASE MrAdmit(c) /\ ~MrAdmits(mrCall[c].gen, 0)
    <3>1. mrCall' = [mrCall EXCEPT ![c] = over] BY <2>3, <2>a DEF MrAdmit
    <3> QED BY <1>1, <2>b, <3>1, MrCallsMove
  <2>4. CASE MrOperate(c)
    <3>1. PICK u : u = [pc |-> "admitted", gen |-> mrMem.gen, cut |-> FALSE] OBVIOUS
    <3>2. mrCall' = [mrCall EXCEPT ![c] = u] /\ mrMem.gen \notin mrMem.denied
      BY <2>4, <3>1 DEF MrOperate, MrAdmits
    <3>3. u.gen = mrMem.gen /\ u = [pc |-> u.pc, gen |-> u.gen, cut |-> u.cut] BY <3>1
    <3> QED BY <1>1, <3>2, <3>3, MrCallsMove
  <2>5. CASE MrReturn(c)
    <3>1. mrCall' = [mrCall EXCEPT ![c] = over] BY <2>5, <2>a DEF MrReturn
    <3> QED BY <1>1, <2>b, <3>1, MrCallsMove
  <2> QED BY <2>1, <2>2, <2>3, <2>4, <2>5
<1>5. MrStores' BY <1>1, MrStoresStay DEF MrIInv
<1>6. MrCheckOk' /\ MrAppliedTruthful' BY <1>1, MrFrames
<1>7. MrDenyKept BY <1>1 DEF MrDenyKept
<1> QED BY <1>2, <1>5, <1>6, <1>7, Zenon DEF MrIInv

\* A lost role changes nothing that the policy holds.
LEMMA MrDemotedInv ==
    ASSUME MrIInv, NEW a, MrDemoted(a)
    PROVE  MrIInv' /\ MrDenyKept
<1>1. /\ mrMem' = mrMem /\ mrDisk' = mrDisk /\ mrGen' = mrGen /\ mrUp' = mrUp
      /\ mrCheck' = mrCheck /\ mrCall' = mrCall /\ mrRoute' = mrRoute
      /\ mrStatus' = mrStatus /\ mrProven' = mrProven
  BY DEF MrDemoted
<1>2. MrStores' BY <1>1, MrStoresStay DEF MrIInv
<1>3. MrCheckOk' /\ MrCallsOk' /\ MrAppliedTruthful' BY <1>1, MrFrames
<1>4. MrDenyKept BY <1>1 DEF MrDenyKept
<1> QED BY <1>2, <1>3, <1>4, Zenon DEF MrIInv

\* An interrupted check changes nothing else.
LEMMA MrInterruptedOk ==
    ASSUME NEW x, NEW p, NEW n, MrStateOk(x, p, n)
    PROVE  LET s == MrInterrupted(x)
           IN  /\ MrStateOk(s, p, n) /\ s.denied = x.denied /\ s.retired = x.retired
               /\ s.assigned = x.assigned /\ s.rev = x.rev /\ s.on = x.on /\ s.gen = x.gen
               /\ \/ s.check = x.check
                  \/ s.check.gen = 0
<1>1. CASE x.check.state \notin MrRunning
  BY <1>1 DEF MrInterrupted
<1>2. CASE x.check.state \in MrRunning
  <2>1. PICK k : k = MrSettled("interrupted") OBVIOUS
  <2>2. PICK s : s = [x EXCEPT !.check = k] OBVIOUS
  <2>3. s = MrInterrupted(x) BY <1>2, <2>1, <2>2 DEF MrInterrupted
  <2>4. /\ k.gen = 0
        /\ k = [state |-> k.state, gen |-> k.gen, stage |-> k.stage, kind |-> k.kind,
                actor |-> k.actor]
    BY <2>1 DEF MrSettled, MrNoCheck
  <2>5. /\ s.rev = x.rev /\ s.assigned = x.assigned /\ s.gen = x.gen /\ s.key = x.key
        /\ s.on = x.on /\ s.denied = x.denied /\ s.retired = x.retired /\ s.evid = x.evid
        /\ s.stage = x.stage /\ s.check = k
        /\ s = [rev |-> s.rev, assigned |-> s.assigned, gen |-> s.gen, key |-> s.key, on |-> s.on,
                denied |-> s.denied, retired |-> s.retired, evid |-> s.evid, stage |-> s.stage,
                check |-> s.check]
    BY <2>2 DEF MrStateOk, MrRecord
  <2>6. MrRecord(s) BY <2>4, <2>5, Zenon DEF MrStateOk, MrRecord
  <2>7. MrStateOk(s, p, n) BY <2>5, <2>6, Zenon DEF MrStateOk
  <2> QED BY <2>3, <2>4, <2>5, <2>7, Zenon
<1> QED BY <1>1, <1>2

\* Close cuts every call and the check, and may fail to save.
LEMMA MrCloseInv ==
    ASSUME MrIInv, MrClose
    PROVE  MrIInv' /\ MrDenyKept
<1> DEFINE s == MrInterrupted(mrMem)
<1>1. /\ mrUp' = "closed" /\ mrMem' = s /\ mrDisk' \in {s, mrDisk}
      /\ mrCheck' = [mrCheck EXCEPT !.cut = mrCheck.cut \/ MrChecking]
      /\ mrCall' = [c \in MrCalls |-> [mrCall[c] EXCEPT !.cut =
                                          mrCall[c].cut \/ mrCall[c].pc = "admitted"]]
      /\ mrGen' = mrGen /\ mrRoute' = mrRoute /\ mrStatus' = mrStatus /\ mrProven' = mrProven
  BY DEF MrClose
<1>2. MrStateOk(mrMem, mrProven, mrGen.gen) /\ MrStateOk(mrDisk, mrProven, mrGen.gen)
  BY DEF MrIInv, MrStores
<1>3. /\ MrStateOk(s, mrProven, mrGen.gen) /\ s.denied = mrMem.denied
      /\ s.retired = mrMem.retired /\ s.assigned = mrMem.assigned /\ s.rev = mrMem.rev
      /\ s.on = mrMem.on /\ s.gen = mrMem.gen
  BY <1>2, MrInterruptedOk
<1> HIDE DEF s
<1>4. MrStores'
  <2>1. MrStateOk(mrMem', mrProven', mrGen'.gen) /\ MrStateOk(mrDisk', mrProven', mrGen'.gen)
    BY <1>1, <1>2, <1>3, Zenon
  <2>2. mrMem'.denied \subseteq mrDisk'.denied /\ mrMem'.retired \subseteq mrDisk'.retired
    BY <1>1, <1>3 DEF MrIInv, MrStores
  <2>3. MrGenOk' BY <1>1 DEF MrIInv, MrStores, MrGenOk
  <2> QED BY <2>1, <2>2, <2>3, Zenon DEF MrStores
<1>5. MrCheckOk'
  <2>1. PICK b : b = (mrCheck.cut \/ MrChecking) OBVIOUS
  <2>2. mrCheck' = [mrCheck EXCEPT !.cut = b] BY <1>1, <2>1
  <2>3. /\ mrCheck'.pc = mrCheck.pc /\ mrCheck'.pass = mrCheck.pass /\ mrCheck'.cut = b
        /\ mrCheck' = [pc |-> mrCheck'.pc, cut |-> mrCheck'.cut, pass |-> mrCheck'.pass,
                       auth |-> mrCheck'.auth]
    BY <2>2 DEF MrIInv, MrCheckOk
  <2>4. mrCheck.pc = "asked" => b BY <2>1 DEF MrChecking
  <2>5. ~(mrUp' = "open") BY <1>1
  <2> QED BY <2>3, <2>4, <2>5, Zenon DEF MrIInv, MrCheckOk
<1>6. MrCallsOk'
  <2>1. mrCall' = [c \in MrCalls |-> mrCall'[c]] BY <1>1
  <2>2. ASSUME NEW c \in MrCalls
        PROVE  /\ mrCall'[c] = [pc |-> mrCall'[c].pc, gen |-> mrCall'[c].gen,
                                cut |-> mrCall'[c].cut]
               /\ mrCall'[c].pc = "admitted" => mrCall'[c].cut
    <3>1. PICK b : b = (mrCall[c].cut \/ mrCall[c].pc = "admitted") OBVIOUS
    <3>2. mrCall'[c] = [mrCall[c] EXCEPT !.cut = b] BY <1>1, <3>1
    <3>3. mrCall[c] = [pc |-> mrCall[c].pc, gen |-> mrCall[c].gen, cut |-> mrCall[c].cut]
      BY DEF MrIInv, MrCallsOk
    <3>4. mrCall'[c].cut = b /\ mrCall'[c].pc = mrCall[c].pc BY <3>2, <3>3
    <3> QED BY <3>1, <3>2, <3>3, <3>4
  <2> QED BY <2>1, <2>2, Zenon DEF MrCallsOk
<1>7. MrAppliedTruthful' BY <1>1, <1>3, Zenon DEF MrIInv, MrAppliedTruthful
<1>8. MrDenyKept BY <1>1, <1>3 DEF MrDenyKept
<1> QED BY <1>4, <1>5, <1>6, <1>7, <1>8, Zenon DEF MrIInv

\* A restart reads the stored state, without a draft that is too late.
MrLoaded(d) == LET i == MrInterrupted(d) IN
    IF i.stage.late THEN [i EXCEPT !.stage = MrNoStage] ELSE i

\* What a restart loads denies all that was stored as denied.
LEMMA MrLoadedOk ==
    ASSUME NEW d, NEW p, NEW n \in Nat, MrStateOk(d, p, n)
    PROVE  LET s == MrLoaded(d)
           IN  /\ MrStateOk(s, p, n) /\ s.denied = d.denied /\ s.retired = d.retired
<1>1. PICK i : i = MrInterrupted(d) OBVIOUS
<1>2. MrStateOk(i, p, n) /\ i.denied = d.denied /\ i.retired = d.retired
  BY <1>1, MrInterruptedOk
<1>3. CASE ~i.stage.late BY <1>1, <1>2, <1>3 DEF MrLoaded
<1>4. CASE i.stage.late
  <2>1. PICK g : g = MrNoStage OBVIOUS
  <2>2. PICK s : s = [i EXCEPT !.stage = g] OBVIOUS
  <2>3. s = MrLoaded(d) BY <1>1, <1>4, <2>1, <2>2 DEF MrLoaded
  <2>4. /\ g.id = 0 /\ g.gen = 0 /\ g.evid = {}
        /\ g = [id |-> g.id, actor |-> g.actor, base |-> g.base, gen |-> g.gen, key |-> g.key,
                evid |-> g.evid, late |-> g.late]
    BY <2>1 DEF MrNoStage
  <2>5. /\ s.rev = i.rev /\ s.assigned = i.assigned /\ s.gen = i.gen /\ s.key = i.key
        /\ s.on = i.on /\ s.denied = i.denied /\ s.retired = i.retired /\ s.evid = i.evid
        /\ s.stage = g /\ s.check = i.check
        /\ s = [rev |-> s.rev, assigned |-> s.assigned, gen |-> s.gen, key |-> s.key, on |-> s.on,
                denied |-> s.denied, retired |-> s.retired, evid |-> s.evid, stage |-> s.stage,
                check |-> s.check]
    BY <1>2, <2>2 DEF MrStateOk, MrRecord
  <2>6. MrRecord(s) BY <1>2, <2>4, <2>5, Zenon DEF MrStateOk, MrRecord
  <2>7. 0 \in 0 .. n /\ 0 \notin i.denied /\ {} \subseteq p BY <1>2 DEF MrStateOk
  <2>8. MrStateOk(s, p, n) BY <1>2, <2>4, <2>5, <2>6, <2>7, Zenon DEF MrStateOk
  <2> QED BY <1>2, <2>3, <2>5, <2>8, Zenon
<1> QED BY <1>3, <1>4

\* The credential that startup imports takes the place of an unmanaged one.
MrImported(s, g, k) ==
    [s EXCEPT !.gen = g, !.key = k, !.on = TRUE,
              !.denied = s.denied \union {s.gen}, !.retired = s.retired \union {s.key}]

\* The imported credential gets a generation that nothing denied.
LEMMA MrImportedOk ==
    ASSUME NEW s, NEW p, NEW n \in Nat, NEW k, MrStateOk(s, p, n), ~s.assigned, s.stage.id = 0
    PROVE  LET t == MrImported(s, n + 1, k)
           IN  /\ MrStateOk(t, p, n + 1) /\ s.denied \subseteq t.denied
               /\ s.retired \subseteq t.retired
<1>1. PICK t : t = MrImported(s, n + 1, k) OBVIOUS
<1>2. PICK d, r, m : d = s.denied \union {s.gen} /\ r = s.retired \union {s.key} /\ m = n + 1
  OBVIOUS
<1>3. t = [s EXCEPT !.gen = m, !.key = k, !.on = TRUE, !.denied = d, !.retired = r]
  BY <1>1, <1>2 DEF MrImported
<1>4. /\ t.assigned = s.assigned /\ t.gen = m /\ t.on = TRUE /\ t.denied = d /\ t.retired = r
      /\ t.evid = s.evid /\ t.stage = s.stage /\ t.check = s.check
      /\ t = [rev |-> t.rev, assigned |-> t.assigned, gen |-> t.gen, key |-> t.key, on |-> t.on,
              denied |-> t.denied, retired |-> t.retired, evid |-> t.evid, stage |-> t.stage,
              check |-> t.check]
  BY <1>3 DEF MrStateOk, MrRecord
<1>5. MrRecord(t) BY <1>4, Zenon DEF MrStateOk, MrRecord
<1>6. /\ m \in 1 .. m /\ m \notin d /\ d \subseteq 1 .. m /\ 0 \in 0 .. m /\ 0 \notin d
  BY <1>2 DEF MrStateOk
<1>7. s.stage.gen = 0 BY DEF MrStateOk
<1>8. MrStateOk(t, p, m) BY <1>4, <1>5, <1>6, <1>7, Zenon DEF MrStateOk
<1> QED BY <1>1, <1>2, <1>4, <1>8

\* A restart forgets no deny and has no call or check.
LEMMA MrRestartInv ==
    ASSUME MrIInv, NEW k, MrRestart(k)
    PROVE  MrIInv' /\ MrDenyKept
<1> DEFINE s == MrLoaded(mrDisk)
           n == MrImported(s, mrGen.gen + 1, k)
<1>1. /\ \/ mrMem' = s /\ mrGen' = mrGen
         \/ /\ ~s.assigned /\ s.stage.id = 0
            /\ mrMem' = n /\ mrGen' = [mrGen EXCEPT !.gen = mrGen.gen + 1]
      /\ mrDisk' = mrMem'
  BY Zenon DEF MrRestart, MrLoaded, MrImported
<1>2. /\ mrCheck' = MrNoRun
      /\ mrCall' = [c \in MrCalls |-> IF mrCall[c].pc = "idle" THEN MrNoCall ELSE MrOver]
      /\ mrRoute' = [rev |-> mrMem'.rev, gen |-> mrMem'.gen] /\ mrProven' = mrProven
  BY DEF MrRestart
<1> HIDE DEF s, n
<1>3. mrGen.gen \in Nat /\ MrStateOk(mrDisk, mrProven, mrGen.gen)
  BY DEF MrIInv, MrStores, MrGenOk
<1>4. /\ MrStateOk(s, mrProven, mrGen.gen) /\ s.denied = mrDisk.denied
      /\ s.retired = mrDisk.retired
  BY <1>3, MrLoadedOk DEF s
<1>5. mrMem.denied \subseteq s.denied /\ mrMem.retired \subseteq s.retired
  BY <1>4 DEF MrIInv, MrStores
<1>6. /\ MrStateOk(mrMem', mrProven, mrGen'.gen) /\ MrGenOk'
      /\ mrMem.denied \subseteq mrMem'.denied /\ mrMem.retired \subseteq mrMem'.retired
  <2>1. CASE mrMem' = s /\ mrGen' = mrGen
    BY <1>4, <1>5, <2>1 DEF MrIInv, MrStores, MrGenOk
  <2>2. CASE /\ ~s.assigned /\ s.stage.id = 0
             /\ mrMem' = n /\ mrGen' = [mrGen EXCEPT !.gen = mrGen.gen + 1]
    <3>1. mrGen'.gen = mrGen.gen + 1 /\ MrGenOk'
      BY <2>2 DEF MrIInv, MrStores, MrGenOk
    <3>2. /\ MrStateOk(n, mrProven, mrGen.gen + 1) /\ s.denied \subseteq n.denied
          /\ s.retired \subseteq n.retired
      BY <1>3, <1>4, <2>2, MrImportedOk DEF n
    <3> QED BY <1>5, <2>2, <3>1, <3>2
  <2> QED BY <1>1, <2>1, <2>2
<1>7. MrStores' BY <1>1, <1>2, <1>6 DEF MrStores
<1>8. MrCheckOk' BY <1>2 DEF MrCheckOk, MrNoRun
<1>9. MrCallsOk' BY <1>2 DEF MrCallsOk, MrNoCall, MrOver
<1>10. MrAppliedTruthful' BY <1>2 DEF MrAppliedTruthful
<1>11. MrDenyKept BY <1>6 DEF MrDenyKept
<1> QED BY <1>7, <1>8, <1>9, <1>10, <1>11, Zenon DEF MrIInv

\* Nothing is denied or assigned at first.
LEMMA MrInitInv == ASSUME MrInit PROVE MrIInv
<1>1. /\ mrMem = [rev |-> 0, assigned |-> FALSE, gen |-> 1, key |-> MrFirst, on |-> TRUE,
                  denied |-> {}, retired |-> {}, evid |-> {}, stage |-> MrNoStage,
                  check |-> MrNoCheck]
      /\ mrDisk = mrMem /\ mrGen = [gen |-> 1, stage |-> 0, check |-> 0] /\ mrProven = {}
  BY DEF MrInit
<1>2. MrStateOk(mrMem, mrProven, mrGen.gen)
  <2>1. PICK g, c : g = MrNoStage /\ c = MrNoCheck OBVIOUS
  <2>2. /\ g = [id |-> g.id, actor |-> g.actor, base |-> g.base, gen |-> g.gen, key |-> g.key,
                evid |-> g.evid, late |-> g.late]
        /\ g.id = 0 /\ g.gen = 0 /\ g.evid = {}
        /\ c = [state |-> c.state, gen |-> c.gen, stage |-> c.stage, kind |-> c.kind,
                actor |-> c.actor]
    BY <2>1 DEF MrNoStage, MrNoCheck
  <2>3. PICK t : t = mrMem OBVIOUS
  <2>4. /\ t = [rev |-> t.rev, assigned |-> t.assigned, gen |-> t.gen, key |-> t.key, on |-> t.on,
                denied |-> t.denied, retired |-> t.retired, evid |-> t.evid, stage |-> t.stage,
                check |-> t.check]
        /\ t.assigned = FALSE /\ t.gen = 1 /\ t.denied = {} /\ t.evid = {} /\ t.stage = g
        /\ t.check = c
    BY <1>1, <2>1, <2>3
  <2>5. MrRecord(t) BY <2>2, <2>4, Zenon DEF MrRecord
  <2>6. MrStateOk(t, {}, 1) BY <2>2, <2>4, <2>5 DEF MrStateOk
  <2>7. mrGen.gen = 1 /\ mrProven = {} BY <1>1
  <2> QED BY <2>3, <2>6, <2>7, Zenon
<1>3. MrStores BY <1>1, <1>2 DEF MrStores, MrGenOk
<1>4. MrCheckOk BY DEF MrInit, MrCheckOk, MrNoRun
<1>5. MrCallsOk BY DEF MrInit, MrCallsOk, MrNoCall
<1>6. MrAppliedTruthful BY DEF MrInit, MrAppliedTruthful
<1> QED BY <1>3, <1>4, <1>5, <1>6 DEF MrIInv

\* Every step keeps the invariant and every deny.
LEMMA MrStepInv == ASSUME MrIInv, [MrNext]_mrVars PROVE MrIInv' /\ (MrDenyKept \/ UNCHANGED mrVars)
<1>1. CASE UNCHANGED mrVars
  <2>1. /\ mrMem' = mrMem /\ mrDisk' = mrDisk /\ mrGen' = mrGen /\ mrUp' = mrUp
        /\ mrCheck' = mrCheck /\ mrCall' = mrCall /\ mrRoute' = mrRoute
        /\ mrStatus' = mrStatus /\ mrProven' = mrProven
    BY <1>1 DEF mrVars
  <2>2. MrStores' BY <2>1, MrStoresStay DEF MrIInv
  <2>3. MrCheckOk' /\ MrCallsOk' /\ MrAppliedTruthful' BY <2>1, MrFrames
  <2> QED BY <1>1, <2>2, <2>3, Zenon DEF MrIInv
<1>2. CASE MrNext
  BY <1>2, MrActivateInv, MrDiscardInv, MrRevokeInv, MrDemotedInv, MrStageInv, MrProbeInv,
     MrAskInv, MrAnsweredInv, MrFinishInv, MrDeadlineInv, MrCancelInv, MrCallInv,
     MrRestartInv, MrStageExpiresInv, MrCloseInv, Zenon
     DEF MrNext, MrRun
<1> QED BY <1>1, <1>2

\* What is in use was proven, nothing denied goes on, and the status is true.
LEMMA MrIInvSafe == ASSUME MrIInv PROVE MrSafe
<1>1. MrProvenFirst BY Zenon DEF MrIInv, MrStores, MrStateOk, MrProvenFirst
<1>2. MrDeniedStops
  BY Zenon DEF MrIInv, MrStores, MrStateOk, MrCheckOk, MrCallsOk, MrDeniedStops
<1> QED BY <1>1, <1>2 DEF MrIInv, MrSafe

(* A model in use answered every kind of check itself, nothing denied goes  *)
(* on, and the status is the truth, in every behaviour of the runtime       *)
(* (Activate, Revoke, runProbe, persistLocked, New).                        *)
THEOREM MrSafety == MrSpec => []MrSafe
<1>1. MrInit => MrIInv BY MrInitInv
<1>2. MrIInv /\ [MrNext]_mrVars => MrIInv' BY MrStepInv
<1>3. MrIInv => MrSafe BY MrIInvSafe
<1> QED BY <1>1, <1>2, <1>3, PTL DEF MrSpec

(* A deny that took effect is not forgotten by any step: not by a restart,  *)
(* a write whose answer was lost or a restored policy (Revoke,              *)
(* persistLocked, New).                                                     *)
THEOREM MrDeniesForGood == MrSpec => MrDenyIsFinal
<1>1. MrInit => MrIInv BY MrInitInv
<1>2. MrIInv /\ [MrNext]_mrVars => MrIInv' /\ [MrDenyKept]_mrVars BY MrStepInv
<1>3. [MrDenyKept]_mrVars => [/\ mrMem.denied \subseteq mrMem'.denied
                              /\ mrMem.retired \subseteq mrMem'.retired]_mrVars
  BY Zenon DEF MrDenyKept
<1> QED BY <1>1, <1>2, <1>3, PTL DEF MrSpec, MrDenyIsFinal
-----------------------------------------------------------------------------
(* The types of the artifact store.  A reservation is a download that has  *)
(* begun, and no download begins twice.                                    *)

ArBegun == {f \in ArIds : arWriter[f] # "idle"}

ArWriterType(w) == w \in {"idle", "open", "renamed", "done", "failed"}
ArFileType(x)   == x \in {"none", "part", "final"}

ArKinds ==
    /\ \A f \in ArIds : /\ ArRowType(arRow[f]) /\ ArRowType(arSweep.known[f])
                        /\ ArFileType(arFile[f]) /\ ArWriterType(arWriter[f])
    /\ arReserved \in Nat /\ arReserved <= Cardinality(ArBegun)
    /\ arSweep.pc \in {"idle", "list", "dir", "files"} /\ arBoot \in Nat

\* Downloads that have begun have begun for good.
LEMMA ArReservedOf ==
    ASSUME ArKinds, arReserved' \in Nat,
           \A f \in ArIds : arWriter[f] # "idle" => arWriter'[f] # "idle",
           \/ arReserved' <= arReserved
           \/ arReserved' = arReserved + 1 /\ \E f \in ArIds : arWriter[f] = "idle" /\ arWriter'[f] # "idle"
    PROVE  arReserved' <= Cardinality(ArBegun')
<1>1. IsFiniteSet(ArIds)  BY ArAssumption
<1>2. IsFiniteSet(ArBegun) /\ IsFiniteSet(ArBegun')  BY <1>1, FS_Subset DEF ArBegun
<1>3. Cardinality(ArBegun) \in Nat /\ Cardinality(ArBegun') \in Nat  BY <1>2, FS_CardinalityType
<1>4. ArBegun \subseteq ArBegun'  BY DEF ArBegun
<1>5. CASE arReserved' <= arReserved
  <2>1. Cardinality(ArBegun) <= Cardinality(ArBegun')  BY <1>2, <1>4, FS_Subset
  <2> QED  BY <1>3, <1>5, <2>1 DEF ArKinds
<1>6. CASE arReserved' = arReserved + 1 /\ \E f \in ArIds : arWriter[f] = "idle" /\ arWriter'[f] # "idle"
  <2>1. PICK f \in ArIds : arWriter[f] = "idle" /\ arWriter'[f] # "idle"  BY <1>6
  <2>2. f \notin ArBegun /\ ArBegun \union {f} \subseteq ArBegun'  BY <1>4, <2>1 DEF ArBegun
  <2>3. Cardinality(ArBegun \union {f}) = Cardinality(ArBegun) + 1  BY <1>2, <2>2, FS_AddElement
  <2>4. Cardinality(ArBegun \union {f}) <= Cardinality(ArBegun')  BY <1>2, <2>2, FS_Subset
  <2> QED  BY <1>3, <1>6, <2>3, <2>4 DEF ArKinds
<1> QED  BY <1>5, <1>6

\* A step that leaves the sweep alone and whose rows, files and writers have
\* their types.
LEMMA ArKindsMove ==
    ASSUME ArKinds, NEW f \in ArIds, NEW r, NEW x, NEW w, ArIInv,
           arRow' = [arRow EXCEPT ![f] = r], arFile' = [arFile EXCEPT ![f] = x],
           arWriter' = [arWriter EXCEPT ![f] = w], arSweep' = arSweep, arBoot' = arBoot,
           ArRowType(r), ArFileType(x), ArWriterType(w), w # "idle" \/ arWriter[f] = "idle",
           arReserved' \in Nat,
           \/ arReserved' <= arReserved
           \/ arReserved' = arReserved + 1 /\ arWriter[f] = "idle" /\ w # "idle"
    PROVE  ArKinds'
<1>1. /\ arRow' = [g \in ArIds |-> IF g = f THEN r ELSE arRow[g]]
      /\ arFile' = [g \in ArIds |-> IF g = f THEN x ELSE arFile[g]]
      /\ arWriter' = [g \in ArIds |-> IF g = f THEN w ELSE arWriter[g]]
  BY DEF ArIInv, ArLeases
<1>2. \A g \in ArIds : ArRowType(arRow'[g]) /\ ArFileType(arFile'[g]) /\ ArWriterType(arWriter'[g])
  BY <1>1, Zenon DEF ArKinds
<1>3. \A g \in ArIds : arWriter[g] # "idle" => arWriter'[g] # "idle"  BY <1>1
<1>4. arWriter'[f] = w  BY <1>1
<1>5. arReserved' <= Cardinality(ArBegun')  BY <1>3, <1>4, ArReservedOf
<1> QED  BY <1>2, <1>5, Zenon DEF ArKinds

\* What release leaves.
LEMMA ArReleasedOf ==
    ASSUME ArKinds
    PROVE  ArReleased \in Nat /\ ArReleased <= arReserved
BY DEF ArKinds, ArReleased

\* The steps of a writer.
LEMMA ArWriterKinds ==
    ASSUME ArIInv, ArKinds, NEW f \in ArIds,
           ArBegin(f) \/ ArRename(f) \/ ArCloseFails(f) \/ ArReady(f) \/ ArAbort(f)
    PROVE  ArKinds'
<1>0. /\ arRow = [arRow EXCEPT ![f] = arRow[f]] /\ arFile = [arFile EXCEPT ![f] = arFile[f]]
      /\ arWriter = [arWriter EXCEPT ![f] = arWriter[f]]
      /\ ArRowType(arRow[f]) /\ ArFileType(arFile[f]) /\ ArWriterType(arWriter[f])
      /\ arReserved \in Nat /\ arBoot \in Nat
  BY DEF ArIInv, ArLeases, ArKinds
<1>n. arReserved <= arReserved /\ arReserved + 1 \in Nat  BY <1>0
<1>a. PICK n : n = ArNoRow OBVIOUS
<1>b. ArRowType(n)  BY <1>a DEF ArNoRow, ArRowType
<1>c. \A w : ArWriterType(w) <=> w \in {"idle", "open", "renamed", "done", "failed"}
  BY DEF ArWriterType
<1>d. \A x : ArFileType(x) <=> x \in {"none", "part", "final"}
  BY DEF ArFileType
<1>1. CASE ArBegin(f)
  <2>1. PICK r : r = [state |-> "partial", boot |-> arBoot, leased |-> TRUE, old |-> FALSE] OBVIOUS
  <2>2. ArRowType(r)  BY <1>0, <2>1 DEF ArRowType
  <2>3. /\ arRow' = [arRow EXCEPT ![f] = r] /\ arFile' = [arFile EXCEPT ![f] = "part"]
        /\ arWriter' = [arWriter EXCEPT ![f] = "open"] /\ arSweep' = arSweep /\ arBoot' = arBoot
        /\ arWriter[f] = "idle" /\ arReserved' = arReserved + 1
    BY <1>1, <2>1 DEF ArBegin, ArReserve
  <2> QED BY <1>0, <1>n, <1>c, <1>d, <2>2, <2>3, ArKindsMove
<1>2. CASE ArRename(f)
  <2>1. arSweep' = arSweep /\ arBoot' = arBoot /\ arWriter[f] = "open"  BY <1>2 DEF ArRename
  <2>2. \/ /\ arFile' = [arFile EXCEPT ![f] = "final"] /\ arReserved' = arReserved
           /\ arWriter' = [arWriter EXCEPT ![f] = "renamed"] /\ arRow' = arRow
        \/ /\ arRow' = [arRow EXCEPT ![f] = n] /\ arFile' = arFile /\ arReserved' = ArReleased
           /\ arWriter' = [arWriter EXCEPT ![f] = "failed"]
    BY <1>2, <1>a DEF ArRename
  <2>3. CASE /\ arFile' = [arFile EXCEPT ![f] = "final"] /\ arReserved' = arReserved
             /\ arWriter' = [arWriter EXCEPT ![f] = "renamed"] /\ arRow' = arRow
    BY <1>0, <1>n, <1>c, <1>d, <2>1, <2>3, ArKindsMove
  <2>4. CASE /\ arRow' = [arRow EXCEPT ![f] = n] /\ arFile' = arFile /\ arReserved' = ArReleased
             /\ arWriter' = [arWriter EXCEPT ![f] = "failed"]
    BY <1>0, <1>b, <1>c, <1>d, <2>1, <2>4, ArKindsMove, ArReleasedOf
  <2> QED BY <2>2, <2>3, <2>4
<1>3. CASE ArCloseFails(f)
  <2>1. /\ arSweep' = arSweep /\ arBoot' = arBoot /\ arReserved' = arReserved /\ arRow' = arRow
        /\ arFile' = arFile /\ arWriter' = [arWriter EXCEPT ![f] = "failed"]
    BY <1>3 DEF ArCloseFails
  <2> QED BY <1>0, <1>n, <1>c, <2>1, ArKindsMove
<1>4. CASE ArReady(f)
  <2>1. arSweep' = arSweep /\ arBoot' = arBoot /\ arReserved' = ArReleased  BY <1>4 DEF ArReady
  <2>2. PICK r : r = [arRow[f] EXCEPT !.state = "ready", !.boot = 0, !.leased = FALSE] OBVIOUS
  <2>3. ArRowType(r)
    <3>1. PICK t, no : t = arRow[f] /\ no = FALSE OBVIOUS
    <3>2. r = [t EXCEPT !.state = "ready", !.boot = 0, !.leased = no] BY <2>2, <3>1
    <3>3. t = [state |-> t.state, boot |-> t.boot, leased |-> t.leased, old |-> t.old]
      BY <3>1, Zenon DEF ArIInv, ArLeases
    <3>4. t.old \in BOOLEAN  BY <1>0, <3>1 DEF ArRowType
    <3>5. r.state = "ready" /\ r.boot = 0 /\ r.leased = no /\ r.old = t.old  BY <3>2, <3>3
    <3>6. r.boot \in Nat  BY <3>5
    <3> QED BY <3>1, <3>4, <3>5, <3>6, Zenon DEF ArRowType
  <2>4. \/ /\ arRow' = [arRow EXCEPT ![f] = r] \/ arRow' = arRow
           /\ arWriter' = [arWriter EXCEPT ![f] = "done"] /\ arFile' = arFile
        \/ /\ arFile' = [arFile EXCEPT ![f] = "none"]
           /\ arWriter' = [arWriter EXCEPT ![f] = "failed"] /\ arRow' = arRow
    BY <1>4, <2>2 DEF ArReady, ArUpdated
  <2>5. CASE /\ arRow' = [arRow EXCEPT ![f] = r]
             /\ arWriter' = [arWriter EXCEPT ![f] = "done"] /\ arFile' = arFile
    BY <1>0, <1>n, <1>c, <2>1, <2>3, <2>5, ArKindsMove, ArReleasedOf
  <2>6. CASE /\ arRow' = arRow
             /\ arWriter' = [arWriter EXCEPT ![f] = "done"] /\ arFile' = arFile
    BY <1>0, <1>n, <1>c, <2>1, <2>6, ArKindsMove, ArReleasedOf
  <2>7. CASE /\ arFile' = [arFile EXCEPT ![f] = "none"]
             /\ arWriter' = [arWriter EXCEPT ![f] = "failed"] /\ arRow' = arRow
    BY <1>0, <1>n, <1>c, <1>d, <2>1, <2>7, ArKindsMove, ArReleasedOf
  <2> QED BY <2>4, <2>5, <2>6, <2>7
<1>5. CASE ArAbort(f)
  <2>1. PICK x : x = IF arFile[f] = "part" THEN "none" ELSE arFile[f] OBVIOUS
  <2>2. /\ arFile' = [arFile EXCEPT ![f] = x] /\ arRow' = [arRow EXCEPT ![f] = n]
        /\ arWriter' = [arWriter EXCEPT ![f] = "failed"] /\ arSweep' = arSweep
        /\ arBoot' = arBoot /\ arReserved' = ArReleased
    BY <1>5, <1>a, <2>1 DEF ArAbort
  <2>3. ArFileType(x)  BY <1>0, <1>d, <2>1
  <2> QED BY <1>b, <1>c, <2>2, <2>3, ArKindsMove, ArReleasedOf
<1> QED BY <1>1, <1>2, <1>3, <1>4, <1>5

\* The owner's calls, and time.
LEMMA ArOwnerKinds ==
    ASSUME ArIInv, ArKinds, NEW f \in ArIds,
           ArOpen(f) \/ ArDelete(f) \/ ArLeaseEnds(f) \/ ArExpires(f)
    PROVE  ArKinds'
<1>0. /\ arRow = [arRow EXCEPT ![f] = arRow[f]] /\ arFile = [arFile EXCEPT ![f] = arFile[f]]
      /\ arWriter = [arWriter EXCEPT ![f] = arWriter[f]]
      /\ ArRowType(arRow[f]) /\ ArFileType(arFile[f]) /\ ArWriterType(arWriter[f])
      /\ arReserved \in Nat
  BY DEF ArIInv, ArLeases, ArKinds
<1>n. arReserved <= arReserved  BY <1>0
<1>a. PICK t, no, yes : t = arRow[f] /\ no = FALSE /\ yes = TRUE OBVIOUS
<1>b. t = [state |-> t.state, boot |-> t.boot, leased |-> t.leased, old |-> t.old]
  BY <1>a, Zenon DEF ArIInv, ArLeases
<1>t. /\ t.state \in {"none", "partial", "ready", "unavailable"} /\ t.boot \in Nat
      /\ t.leased \in BOOLEAN /\ t.old \in BOOLEAN
  BY <1>0, <1>a, Zenon DEF ArRowType
<1>c. arSweep' = arSweep /\ arBoot' = arBoot /\ arWriter' = arWriter /\ arReserved' = arReserved
  BY DEF ArOpen, ArDelete, ArLeaseEnds, ArExpires
<1>d. arWriter' = [arWriter EXCEPT ![f] = arWriter[f]]  BY <1>0, <1>c
<1>e. \A r, x : /\ arRow' = [arRow EXCEPT ![f] = r] /\ arFile' = [arFile EXCEPT ![f] = x]
                /\ ArRowType(r) /\ ArFileType(x)
                => ArKinds'
  BY <1>0, <1>n, <1>c, <1>d, ArKindsMove
<1>1. CASE ArOpen(f)
  <2>1. PICK r : r = [t EXCEPT !.state = "unavailable"] OBVIOUS
  <2>2. arRow' = [arRow EXCEPT ![f] = r] /\ arFile' = [arFile EXCEPT ![f] = arFile[f]]
    BY <1>0, <1>1, <1>a, <2>1 DEF ArOpen
  <2>3. r.leased = t.leased /\ r.state = "unavailable" /\ r.boot = t.boot /\ r.old = t.old
    BY <1>b, <2>1
  <2>4. ArRowType(r)  BY <1>t, <2>3, Zenon DEF ArRowType
  <2> QED BY <1>0, <1>e, <2>2, <2>4
<1>2. CASE ArDelete(f)
  <2>1. PICK n, x : n = ArNoRow /\ x = IF arFile[f] = "final" THEN "none" ELSE arFile[f] OBVIOUS
  <2>2. arRow' = [arRow EXCEPT ![f] = n] /\ arFile' = [arFile EXCEPT ![f] = x]
    BY <1>2, <2>1 DEF ArDelete
  <2>3. ArRowType(n) /\ ArFileType(x)  BY <1>0, <2>1 DEF ArNoRow, ArRowType, ArFileType
  <2> QED BY <1>e, <2>2, <2>3
<1>3. CASE ArLeaseEnds(f)
  <2>1. PICK r : r = [t EXCEPT !.leased = no] OBVIOUS
  <2>2. arRow' = [arRow EXCEPT ![f] = r] /\ arFile' = [arFile EXCEPT ![f] = arFile[f]]
    BY <1>0, <1>3, <1>a, <2>1 DEF ArLeaseEnds
  <2>3. r.leased = no /\ r.state = t.state /\ r.boot = t.boot /\ r.old = t.old
    BY <1>b, <2>1
  <2>4. ArRowType(r)  BY <1>a, <1>t, <2>3 DEF ArRowType
  <2> QED BY <1>0, <1>e, <2>2, <2>4
<1>4. CASE ArExpires(f)
  <2>1. PICK r : r = [t EXCEPT !.old = yes] OBVIOUS
  <2>2. arRow' = [arRow EXCEPT ![f] = r] /\ arFile' = [arFile EXCEPT ![f] = arFile[f]]
    BY <1>0, <1>4, <1>a, <2>1 DEF ArExpires
  <2>3. r.leased = t.leased /\ r.state = t.state /\ r.boot = t.boot /\ r.old = yes
    BY <1>b, <2>1
  <2>4. ArRowType(r)  BY <1>a, <1>t, <2>3 DEF ArRowType
  <2> QED BY <1>0, <1>e, <2>2, <2>4
<1> QED BY <1>1, <1>2, <1>3, <1>4

\* A step of the sweep, or a restart: no writer becomes idle again.
LEMMA ArKindsSwept ==
    ASSUME ArKinds,
           \A f \in ArIds : /\ ArRowType(arRow'[f]) /\ ArFileType(arFile'[f])
                            /\ \/ arWriter'[f] = arWriter[f]
                               \/ arWriter[f] # "idle" /\ arWriter'[f] = "failed",
           arSweep'.known \in {arSweep.known, arRow, ArNoRows},
           arSweep'.pc \in {"idle", "list", "dir", "files"},
           arBoot' \in Nat, arReserved' \in {0, arReserved}
    PROVE  ArKinds'
<1>1. arReserved' \in Nat /\ arReserved' <= arReserved  BY DEF ArKinds
<1>2. \A f \in ArIds : arWriter[f] # "idle" => arWriter'[f] # "idle"  OBVIOUS
<1>3. arReserved' <= Cardinality(ArBegun')  BY <1>1, <1>2, ArReservedOf
<1>4. ASSUME NEW f \in ArIds PROVE ArRowType(arSweep'.known[f]) /\ ArWriterType(arWriter'[f])
  <2>1. ArRowType(ArNoRows[f])  BY DEF ArNoRows, ArNoRow, ArRowType
  <2>2. ArWriterType(arWriter'[f])  BY DEF ArKinds, ArWriterType
  <2> QED  BY <2>1, <2>2 DEF ArKinds
<1> QED  BY <1>1, <1>3, <1>4, Zenon DEF ArKinds

\* The sweep's steps.
LEMMA ArSweepKinds == ASSUME ArIInv, ArKinds, ArSweeping PROVE ArKinds'
<1>0. /\ arRow = [f \in ArIds |-> arRow[f]] /\ arFile = [f \in ArIds |-> arFile[f]]
      /\ arSweep = [pc |-> arSweep.pc, known |-> arSweep.known, left |-> arSweep.left]
      /\ \A f \in ArIds : ArRowType(arRow[f]) /\ ArFileType(arFile[f])
      /\ arBoot \in Nat /\ arSweep.pc \in {"idle", "list", "dir", "files"}
  BY Zenon DEF ArIInv, ArLeases, ArKinds
<1>a. PICK n : n = ArNoRow OBVIOUS
<1>b. ArRowType(n)  BY <1>a DEF ArNoRow, ArRowType
<1>c. arWriter' = arWriter /\ arBoot' = arBoot
  BY DEF ArSweeping, ArSweepExpired, ArSweepList, ArSweepDir, ArSweepEnd, ArSweepFile
<1>d. ArFileType("none")  BY DEF ArFileType
<1>1. CASE ArSweepExpired
  <2> DEFINE old == {f \in ArIds : arRow[f] # ArNoRow /\ arRow[f].old}
  <2>1. /\ arRow' = [f \in ArIds |-> IF f \in old THEN n ELSE arRow[f]]
        /\ arFile' = [f \in ArIds |-> IF f \in old /\ arFile[f] = "final" THEN "none" ELSE arFile[f]]
        /\ arSweep' = [arSweep EXCEPT !.pc = "list"] /\ arReserved' = arReserved
    BY <1>1, <1>a DEF ArSweepExpired
  <2> HIDE DEF old
  <2>2. \A f \in ArIds : ArRowType(arRow'[f]) /\ ArFileType(arFile'[f])
    BY <1>0, <1>b, <1>d, <2>1
  <2>3. arSweep'.known = arSweep.known /\ arSweep'.pc = "list"  BY <1>0, <2>1
  <2> QED  BY <1>0, <1>c, <2>1, <2>2, <2>3, ArKindsSwept
<1>2. CASE ArSweepList \/ ArSweepDir
  <2>1. arRow' = arRow /\ arFile' = arFile /\ arReserved' = arReserved
    BY <1>2 DEF ArSweepList, ArSweepDir
  <2>2. /\ arSweep'.known \in {arSweep.known, arRow, ArNoRows}
        /\ arSweep'.pc \in {"idle", "list", "dir", "files"}
    <3>1. PICK kn, no, le : /\ kn = arRow /\ no = ArNoRows
                            /\ le = {<<f, arFile[f]>> : f \in {g \in ArIds : arFile[g] # "none"}}
      OBVIOUS
    <3>2. \/ arSweep' = [arSweep EXCEPT !.pc = "dir", !.known = kn]
          \/ arSweep' = [arSweep EXCEPT !.pc = "dir", !.known = no]
          \/ arSweep' = [arSweep EXCEPT !.pc = "files", !.left = le]
      BY <1>2, <3>1 DEF ArSweepList, ArSweepDir
    <3>3. CASE arSweep' = [arSweep EXCEPT !.pc = "dir", !.known = kn]  BY <1>0, <3>1, <3>3
    <3>4. CASE arSweep' = [arSweep EXCEPT !.pc = "dir", !.known = no]  BY <1>0, <3>1, <3>4
    <3>5. CASE arSweep' = [arSweep EXCEPT !.pc = "files", !.left = le]  BY <1>0, <3>5
    <3> QED  BY <3>2, <3>3, <3>4, <3>5
  <2> QED  BY <1>0, <1>c, <2>1, <2>2, ArKindsSwept
<1>3. ASSUME NEW e \in arSweep.left, ArSweepFile(e[1], e[2]) PROVE ArKinds'
  <2>1. PICK f, name : f = e[1] /\ name = e[2]  OBVIOUS
  <2>2. /\ arRow' = arRow \/ arRow' = [arRow EXCEPT ![f] = n]
        /\ arFile' = arFile \/ arFile' = [arFile EXCEPT ![f] = IF @ = name THEN "none" ELSE @]
        /\ arReserved' = arReserved
    BY <1>3, <1>a, <2>1 DEF ArSweepFile
  <2>3. \A g \in ArIds : ArRowType(arRow'[g]) /\ ArFileType(arFile'[g])
    <3>1. \A g \in ArIds : arRow'[g] \in {arRow[g], n} /\ arFile'[g] \in {arFile[g], "none"}
      BY <1>0, <2>2
    <3> QED  BY <1>0, <1>b, <1>d, <3>1
  <2>4. arSweep'.known = arSweep.known /\ arSweep'.pc = arSweep.pc
    BY <1>0, <1>3 DEF ArSweepFile
  <2> QED  BY <1>0, <1>c, <2>2, <2>3, <2>4, ArKindsSwept
<1>4. CASE ArSweepEnd
  <2>1. PICK t, i : t = arSweep /\ i = ArIdle  OBVIOUS
  <2>2. /\ arRow' = [f \in ArIds |->
                    IF t.known[f].state = "ready" /\ arFile[f] # "final" /\ arRow[f] # ArNoRow
                    THEN [t.known[f] EXCEPT !.state = "unavailable", !.old = arRow[f].old]
                    ELSE arRow[f]]
        /\ arFile' = arFile /\ arReserved' = 0 /\ arSweep' = i
    BY <1>4, <2>1 DEF ArSweepEnd
  <2>3. i.pc = "idle" /\ i.known = ArNoRows  BY <2>1 DEF ArIdle
  <2>4. ASSUME NEW f \in ArIds PROVE ArRowType(arRow'[f])
    <3>1. CASE arRow'[f] = arRow[f]  BY <1>0, <3>1
    <3>2. CASE arRow'[f] = [t.known[f] EXCEPT !.state = "unavailable", !.old = arRow[f].old]
      <4>1. PICK k, o : k = t.known[f] /\ o = arRow[f].old  OBVIOUS
      <4>2. k = [state |-> k.state, boot |-> k.boot, leased |-> k.leased, old |-> k.old]
        BY <2>1, <4>1, Zenon DEF ArIInv, ArLeases
      <4>3. ArRowType(k) /\ o \in BOOLEAN  BY <1>0, <2>1, <4>1, Zenon DEF ArKinds, ArRowType
      <4>4. arRow'[f] = [k EXCEPT !.state = "unavailable", !.old = o]  BY <3>2, <4>1
      <4>5. /\ arRow'[f].state = "unavailable" /\ arRow'[f].boot = k.boot
            /\ arRow'[f].leased = k.leased /\ arRow'[f].old = o
        BY <4>2, <4>4
      <4> QED  BY <4>3, <4>5 DEF ArRowType
    <3> QED  BY <2>2, <3>1, <3>2
  <2> QED  BY <1>0, <1>c, <2>2, <2>3, <2>4, ArKindsSwept
<1> QED  BY <1>1, <1>2, <1>3, <1>4 DEF ArSweeping

\* Every step of the store keeps the types.
LEMMA ArKindsStep == ASSUME ArIInv, ArKinds, [ArNext]_arVars PROVE ArKinds'
<1>1. CASE ArRestart
  <2>0. PICK i : i = ArIdle OBVIOUS
  <2>1. /\ arRow' = arRow /\ arFile' = arFile /\ arSweep' = i /\ arReserved' = 0
        /\ arBoot' = arBoot + 1
        /\ arWriter' = [f \in ArIds |-> IF arWriter[f] \in {"open", "renamed"} THEN "failed"
                                        ELSE arWriter[f]]
    BY <1>1, <2>0 DEF ArRestart
  <2>2. i.pc = "idle" /\ i.known = ArNoRows  BY <2>0 DEF ArIdle
  <2>3. \A f \in ArIds : \/ arWriter'[f] = arWriter[f]
                         \/ arWriter[f] # "idle" /\ arWriter'[f] = "failed"
    BY <2>1
  <2>4. arBoot' \in Nat  BY <2>1 DEF ArKinds
  <2>5. \A f \in ArIds : ArRowType(arRow'[f]) /\ ArFileType(arFile'[f])  BY <2>1 DEF ArKinds
  <2> QED  BY <2>1, <2>2, <2>3, <2>4, <2>5, ArKindsSwept
<1>2. CASE UNCHANGED arVars
  BY <1>2, Zenon DEF arVars, ArKinds, ArBegun
<1> QED  BY <1>1, <1>2, ArWriterKinds, ArOwnerKinds, ArSweepKinds, Zenon DEF ArNext

\* Rows, files and writers have their types, and no more is reserved than
\* there are downloads, in every state of the store.
LEMMA ArTyped == ArSpec => []ArTypeOK
<1>1. ArInit => ArKinds
  <2> SUFFICES ASSUME ArInit PROVE ArKinds  OBVIOUS
  <2>1. ArBegun = {}  BY DEF ArInit, ArBegun
  <2>2. Cardinality(ArBegun) = 0  BY <2>1, FS_EmptySet
  <2>3. ArRowType(ArNoRow)  BY DEF ArNoRow, ArRowType
  <2>4. ArFileType("none") /\ ArWriterType("idle")  BY DEF ArFileType, ArWriterType
  <2>5. ASSUME NEW f \in ArIds
        PROVE  /\ arRow[f] = ArNoRow /\ arSweep.known[f] = ArNoRow
               /\ arFile[f] = "none" /\ arWriter[f] = "idle"
    BY DEF ArInit, ArNoRows, ArIdle
  <2>6. arSweep.pc = "idle" /\ arBoot = 1 /\ arReserved = 0  BY DEF ArInit, ArIdle
  <2> QED  BY <2>2, <2>3, <2>4, <2>5, <2>6 DEF ArKinds
<1>2. ArKinds => ArTypeOK
  <2> SUFFICES ASSUME ArKinds PROVE ArTypeOK  OBVIOUS
  <2>1. IsFiniteSet(ArIds)  BY ArAssumption
  <2>2. IsFiniteSet(ArBegun) /\ Cardinality(ArBegun) <= Cardinality(ArIds)
    BY <2>1, FS_Subset DEF ArBegun
  <2>3. Cardinality(ArBegun) \in Nat /\ Cardinality(ArIds) \in Nat
    BY <2>1, <2>2, FS_CardinalityType
  <2>4. arReserved \in 0 .. Cardinality(ArIds)  BY <2>2, <2>3 DEF ArKinds
  <2> QED  BY <2>4, Zenon DEF ArKinds, ArTypeOK, ArFileType, ArWriterType
<1> QED  BY <1>1, <1>2, ArInitInv, ArStepInv, ArKindsStep, PTL DEF ArSpec
-----------------------------------------------------------------------------
(* The types of the HTTP runs: how a run ended, and the origin it is at.   *)

HtOutOk(t) == t.out \in HtOutcomes \union {"none"} /\ t.org \in HtOrigins \union {"none"}

HtKinds ==
    /\ \A r \in HtRuns : HtOutOk(htRun[r])
    /\ htOn \in BOOLEAN /\ htGrants \subseteq HtOrigins \union {"all"}

\* A step of a run, seen from its outcome and its origin.
HtOutStep(r) == \E u : htRun' = [htRun EXCEPT ![r] = u] /\ HtOutOk(u)

\* A run that ends has an outcome.
LEMMA HtEndsOut ==
    ASSUME HtIInv, HtKinds, NEW r \in HtRuns, NEW out \in HtOutcomes, HtEnds(r, out)
    PROVE  HtOutStep(r)
<1>1. PICK t : t = htRun[r]  OBVIOUS
<1>2. HtRecord(t) /\ HtOutOk(t)  BY <1>1 DEF HtIInv, HtRunOk, HtTyped, HtKinds
<1>3. PICK u : u = [t EXCEPT !.pc = "done", !.out = out, !.declared = 0]  OBVIOUS
<1>4. u.out = out /\ u.org = t.org  BY <1>2, <1>3 DEF HtRecord
<1>5. HtOutOk(u)  BY <1>2, <1>4 DEF HtOutOk
<1> QED  BY <1>1, <1>3, <1>5 DEF HtEnds, HtOutStep

\* A step that is done ends the run or leaves it where it is.
LEMMA HtDoneOut ==
    ASSUME HtIInv, HtKinds, NEW r \in HtRuns, NEW run, HtDone(r, run), HtRecord(run), HtOutOk(run)
    PROVE  HtOutStep(r)
<1>1. PICK u : /\ htRun' = [htRun EXCEPT ![r] = u]
               /\ \/ \E out \in {"http_error", "completed"} : u = [run EXCEPT !.pc = "done", !.out = out]
                  \/ u = [run EXCEPT !.pc = "next", !.step = @ + 1]
  BY Zenon DEF HtDone
<1>2. u.org = run.org /\ u.out \in {"http_error", "completed", run.out}
  BY <1>1 DEF HtRecord
<1>3. HtOutOk(u)  BY <1>2 DEF HtOutOk, HtOutcomes
<1> QED  BY <1>1, <1>3 DEF HtOutStep

\* A step begins at its target; consents.
LEMMA HtAskOut ==
    ASSUME HtIInv, HtKinds, NEW r \in HtRuns,
           HtPrepare(r) \/ HtStanding(r) \/ HtAsk(r) \/ HtRefuses(r) \/ HtAcquire(r)
    PROVE  HtOutStep(r)
<1>1. CASE \E out \in HtOutcomes : HtEnds(r, out)  BY <1>1, HtEndsOut
<1>2. CASE ~\E out \in HtOutcomes : HtEnds(r, out)
  <2>1. PICK t, o, b : t = htRun[r] /\ o = HtTarget(r) /\ b = HtBound(r, o)  OBVIOUS
  <2>2. HtTyped(r, t) /\ HtRecord(t) /\ HtOutOk(t)
    BY <2>1 DEF HtIInv, HtRunOk, HtTyped, HtKinds
  <2>3. o \in HtOrigins \union {"none"}
    <3>1. HtStepOf(r) \in HtSteps  BY <2>1, <2>2, HtPlanned DEF HtTyped, HtStepOf
    <3> QED  BY <2>1, <2>2, <3>1 DEF HtTarget, HtSteps, HtTyped
  <2>4. PICK u : /\ htRun' = [htRun EXCEPT ![r] = u]
                 /\ \/ u = [t EXCEPT !.pc = "clear", !.org = o, !.hops = 0, !.perm = FALSE,
                                     !.bind = b, !.size = 0, !.limit = HtCap, !.asked = FALSE]
                    \/ u = [t EXCEPT !.perm = TRUE]
                    \/ \E pc : u = [t EXCEPT !.pc = pc]
    <3>1. \A out \in {"policy_denied", "validation_error", "confirmation_required", "declined",
                      "timed_out", "cancelled", "quota_exceeded"} : ~HtEnds(r, out)
      BY <1>2 DEF HtOutcomes
    <3>2. CASE HtPrepare(r)
      <4>1. htRun' = [htRun EXCEPT ![r] =
                        [t EXCEPT !.pc = "clear", !.org = o, !.hops = 0, !.perm = FALSE,
                                  !.bind = b, !.size = 0, !.limit = HtCap, !.asked = FALSE]]
        BY <2>1, <3>1, <3>2, Zenon DEF HtPrepare
      <4> QED  BY <4>1
    <3>3. CASE HtStanding(r)  BY <2>1, <3>3 DEF HtStanding, HtIInv
    <3>4. CASE HtAsk(r)
      <4>1. htRun' = [htRun EXCEPT ![r].pc = "ask"]  BY <3>1, <3>4, Zenon DEF HtAsk
      <4> QED  BY <2>1, <4>1 DEF HtIInv
    <3>5. CASE HtRefuses(r)  BY <3>1, <3>5, Zenon DEF HtRefuses
    <3>6. CASE HtAcquire(r)
      <4>1. htRun' = [htRun EXCEPT ![r].pc = "send"]  BY <3>1, <3>6, Zenon DEF HtAcquire
      <4> QED  BY <2>1, <4>1 DEF HtIInv
    <3> QED  BY <3>2, <3>3, <3>4, <3>5, <3>6
  <2>5. u.out = t.out /\ u.org \in {t.org, o}  BY <2>2, <2>4 DEF HtRecord
  <2>6. HtOutOk(u)  BY <2>2, <2>3, <2>5 DEF HtOutOk
  <2> QED  BY <2>4, <2>6 DEF HtOutStep
<1> QED  BY <1>1, <1>2

\* The user agrees: the run stays at its origin.
LEMMA HtAgreesOut ==
    ASSUME HtIInv, HtKinds, NEW r \in HtRuns, HtAgrees(r) \/ HtBigAgreed(r) \/ HtResumes(r)
    PROVE  HtOutStep(r)
<1>1. CASE \E out \in HtOutcomes : HtEnds(r, out)  BY <1>1, HtEndsOut
<1>2. CASE ~\E out \in HtOutcomes : HtEnds(r, out)
  <2>1. PICK t : t = htRun[r]  OBVIOUS
  <2>2. HtRecord(t) /\ HtOutOk(t)  BY <2>1 DEF HtIInv, HtRunOk, HtTyped, HtKinds
  <2>3. ~HtEnds(r, "quota_exceeded")  BY <1>2 DEF HtOutcomes
  <2>4. PICK u : /\ htRun' = [htRun EXCEPT ![r] = u]
                 /\ \/ \E y : u = [[t EXCEPT !.pc = "clear"] EXCEPT !.plain = y]
                    \/ \E y : u = [[t EXCEPT !.pc = "clear"] EXCEPT !.egress = y]
                    \/ u = [[t EXCEPT !.pc = "clear"] EXCEPT !.perm = TRUE]
                    \/ \E m : u = [t EXCEPT !.pc = "open", !.declared = 0, !.limit = m, !.asked = TRUE]
                    \/ \E m : u = [t EXCEPT !.pc = "read", !.limit = m, !.asked = TRUE]
    <3>1. CASE HtAgrees(r)
      <4>1. PICK v : v = [t EXCEPT !.pc = "clear"]  OBVIOUS
      <4>2. \/ \E y : htRun' = [htRun EXCEPT ![r] = [v EXCEPT !.plain = y]]
            \/ \E y : htRun' = [htRun EXCEPT ![r] = [v EXCEPT !.egress = y]]
            \/ htRun' = [htRun EXCEPT ![r] = [v EXCEPT !.perm = TRUE]]
        BY <2>1, <3>1, <4>1, Zenon DEF HtAgrees
      <4> QED  BY <4>1, <4>2, Zenon
    <3>2. CASE HtBigAgreed(r)  BY <2>1, <2>3, <3>2, Zenon DEF HtBigAgreed
    <3>3. CASE HtResumes(r)  BY <2>1, <3>3, Zenon DEF HtResumes
    <3> QED  BY <3>1, <3>2, <3>3
  <2>5. u.out = t.out /\ u.org = t.org  BY <2>2, <2>4 DEF HtRecord
  <2>6. HtOutOk(u)  BY <2>2, <2>5 DEF HtOutOk
  <2> QED  BY <2>4, <2>6 DEF HtOutStep
<1> QED  BY <1>1, <1>2

\* The request and its answer: a redirect that is followed names an origin.
LEMMA HtSendOut ==
    ASSUME HtIInv, HtKinds, NEW r \in HtRuns, HtSend(r) \/ HtNoReply(r) \/ HtRedirect(r) \/ HtReply(r)
    PROVE  HtOutStep(r)
<1>1. CASE \E out \in HtOutcomes : HtEnds(r, out)  BY <1>1, HtEndsOut
<1>2. CASE ~\E out \in HtOutcomes : HtEnds(r, out)
  <2>1. PICK t : t = htRun[r]  OBVIOUS
  <2>2. HtRecord(t) /\ HtOutOk(t)  BY <2>1 DEF HtIInv, HtRunOk, HtTyped, HtKinds
  <2>3. \A out \in {HtFailed(r), "timed_out", "cancelled"} : ~HtEnds(r, out)
    BY <1>2 DEF HtOutcomes, HtFailed
  <2>4. PICK u : /\ htRun' = [htRun EXCEPT ![r] = u]
                 /\ \/ u = [t EXCEPT !.pc = "wait"]
                    \/ \E h : \E o \in HtOrigins : u = [t EXCEPT !.pc = "send", !.hops = h, !.org = o]
                    \/ \E o, good : u = [t EXCEPT !.pc = "body", !.loc = o, !.good = good]
    <3>1. CASE HtSend(r)
      <4>1. htRun' = [htRun EXCEPT ![r].pc = "wait"]  BY <2>3, <3>1, Zenon DEF HtSend
      <4> QED  BY <2>1, <4>1 DEF HtIInv
    <3>2. CASE HtNoReply(r)  BY <2>3, <3>2, Zenon DEF HtNoReply
    <3>3. CASE HtRedirect(r)
      <4>1. PICK o \in HtOrigins, keeps \in BOOLEAN :
               htRun' = [htRun EXCEPT ![r] =
                  IF HtFollows(r, o, keeps)
                  THEN [t EXCEPT !.pc = "send", !.hops = t.hops + 1, !.org = o]
                  ELSE [t EXCEPT !.pc = "body", !.loc = o, !.good = FALSE]]
        BY <2>1, <3>3, Zenon DEF HtRedirect
      <4>2. PICK h, no : h = t.hops + 1 /\ no = FALSE  OBVIOUS
      <4>3. CASE HtFollows(r, o, keeps)
        <5>1. htRun' = [htRun EXCEPT ![r] = [t EXCEPT !.pc = "send", !.hops = h, !.org = o]]
          BY <4>1, <4>2, <4>3
        <5> QED  BY <5>1, Zenon
      <4>4. CASE ~HtFollows(r, o, keeps)
        <5>1. PICK w : w = [t EXCEPT !.pc = "body", !.loc = o, !.good = no]  OBVIOUS
        <5>2. htRun' = [htRun EXCEPT ![r] = w]  BY <4>1, <4>2, <4>4, <5>1
        <5>3. \E x, good : w = [t EXCEPT !.pc = "body", !.loc = x, !.good = good]  BY <5>1
        <5> QED  BY <5>2, <5>3
      <4> QED  BY <4>3, <4>4
    <3>4. CASE HtReply(r)  BY <2>1, <3>4, Zenon DEF HtReply
    <3> QED  BY <3>1, <3>2, <3>3, <3>4
  <2>5. u.out = t.out /\ (u.org = t.org \/ u.org \in HtOrigins)  BY <2>2, <2>4 DEF HtRecord
  <2>6. HtOutOk(u)  BY <2>2, <2>5 DEF HtOutOk
  <2> QED  BY <2>4, <2>6 DEF HtOutStep
<1> QED  BY <1>1, <1>2

\* The body, inline or into an artifact.
LEMMA HtBodyOut ==
    ASSUME HtIInv, HtKinds, NEW r \in HtRuns,
           HtInline(r) \/ HtDeclared(r) \/ HtOpen(r) \/ HtRead(r)
    PROVE  HtOutStep(r)
<1>0. PICK t : t = htRun[r]  OBVIOUS
<1>a. HtRecord(t) /\ HtOutOk(t)  BY <1>0 DEF HtIInv, HtRunOk, HtTyped, HtKinds
<1>1. CASE \E out \in HtOutcomes : HtEnds(r, out)  BY <1>1, HtEndsOut
<1>2. CASE \E run : HtDone(r, run) /\ HtRecord(run) /\ HtOutOk(run)  BY <1>2, HtDoneOut
<1>3. CASE ~(\E out \in HtOutcomes : HtEnds(r, out)) /\ ~\E run : HtDone(r, run) /\ HtRecord(run) /\ HtOutOk(run)
  <2>1. \A out \in HtReadErrors \union {"validation_error", "quota_exceeded",
                                        "confirmation_required", "cancelled"} : ~HtEnds(r, out)
    BY <1>3 DEF HtOutcomes, HtReadErrors
  <2>2. ASSUME NEW run, \/ run = t
                        \/ \E b : run = [t EXCEPT !.bind = b]
                        \/ \E n : run = [t EXCEPT !.size = n]
                        \/ \E b, n : run = [[t EXCEPT !.size = n] EXCEPT !.bind = b]
        PROVE  ~HtDone(r, run)
    <3>1. HtRecord(run) /\ run.out = t.out /\ run.org = t.org  BY <1>a, <2>2 DEF HtRecord
    <3>2. HtOutOk(run)  BY <1>a, <3>1 DEF HtOutOk
    <3> QED  BY <1>3, <3>1, <3>2
  <2>e. ASSUME NEW run, run = t \/ \E n : run = [t EXCEPT !.size = n]
        PROVE  ~HtExtracts(r, run)
    <3> DEFINE b == IF HtStepOf(r).takes THEN [run.bind EXCEPT !["var"] = run.org] ELSE run.bind
    <3>1. ~HtDone(r, [run EXCEPT !.bind = b])
      <4> HIDE DEF b
      <4> QED  BY <2>2, <2>e, Zenon
    <3> QED  BY <2>1, <3>1, Zenon DEF HtExtracts
  <2>3. PICK u : /\ htRun' = [htRun EXCEPT ![r] = u]
                 /\ \/ \E pc : u = [t EXCEPT !.pc = pc]
                    \/ \E d : u = [t EXCEPT !.pc = "big", !.declared = d]
                    \/ \E n : u = [t EXCEPT !.size = n]
    <3>1. CASE HtInline(r)
      <4>1. HtExtracts(r, t) \/ \E o \in HtReadErrors : HtEnds(r, o)
        BY <1>0, <3>1, Zenon DEF HtInline
      <4> QED  BY <2>1, <2>e, <4>1, Zenon
    <3>2. CASE HtDeclared(r)
      <4>1. \/ HtExtracts(r, t)
            \/ \E out \in {"quota_exceeded", "confirmation_required"} : HtEnds(r, out)
            \/ \E d : htRun' = [htRun EXCEPT ![r] = [t EXCEPT !.pc = "big", !.declared = d]]
            \/ htRun' = [htRun EXCEPT ![r].pc = "open"]
        BY <1>0, <3>2, Zenon DEF HtDeclared
      <4>2. CASE htRun' = [htRun EXCEPT ![r].pc = "open"]  BY <1>0, <4>2 DEF HtIInv
      <4> QED  BY <2>1, <2>e, <4>1, <4>2, Zenon
    <3>3. CASE HtOpen(r)
      <4>1. htRun' = [htRun EXCEPT ![r].pc = "read"]  BY <2>1, <3>3, Zenon DEF HtOpen
      <4> QED  BY <1>0, <4>1 DEF HtIInv
    <3>4. CASE HtRead(r)
      <4>1. \/ \E out \in {"quota_exceeded", "confirmation_required"} : HtEnds(r, out)
            \/ \E out \in HtReadErrors \union {"quota_exceeded"} : HtEnds(r, out)
            \/ htRun' = [htRun EXCEPT ![r].pc = "pause"]
            \/ htRun' = [htRun EXCEPT ![r].size = t.size + 1]
            \/ \E n \in {0, 1} : HtExtracts(r, [t EXCEPT !.size = t.size + n])
        BY <1>0, <3>4, Zenon DEF HtRead
      <4>2. CASE htRun' = [htRun EXCEPT ![r].pc = "pause"]  BY <1>0, <4>2 DEF HtIInv
      <4>3. CASE htRun' = [htRun EXCEPT ![r].size = t.size + 1]  BY <1>0, <4>3 DEF HtIInv
      <4> QED  BY <2>1, <2>e, <4>1, <4>2, <4>3, Zenon
    <3> QED  BY <3>1, <3>2, <3>3, <3>4
  <2>4. u.out = t.out /\ u.org = t.org  BY <1>a, <2>3 DEF HtRecord
  <2>5. HtOutOk(u)  BY <1>a, <2>4 DEF HtOutOk
  <2> QED  BY <2>3, <2>5 DEF HtOutStep
<1> QED  BY <1>1, <1>2, <1>3

\* Every step keeps the types; a grant is for the run's origin or for all.
LEMMA HtKindsStep == ASSUME HtIInv, HtKinds, [HtNext]_htVars PROVE HtKinds'
<1>1. CASE UNCHANGED htVars  BY <1>1 DEF htVars, HtKinds
<1>2. CASE HtSetEnabled \/ HtRevoke  BY <1>2 DEF HtSetEnabled, HtRevoke, HtKinds
<1>3. ASSUME NEW r \in HtRuns, HtWork(r) PROVE HtKinds'
  <2>1. HtOutStep(r)  BY <1>3, HtAskOut, HtAgreesOut, HtSendOut, HtBodyOut, Zenon DEF HtWork
  <2>2. \A q \in HtRuns : HtOutOk(htRun'[q])
    <3>1. PICK u : htRun' = [htRun EXCEPT ![r] = u] /\ HtOutOk(u)  BY <2>1 DEF HtOutStep
    <3>2. \A q \in HtRuns : htRun'[q] = IF q = r THEN u ELSE htRun[q]  BY <3>1 DEF HtIInv
    <3> QED  BY <3>1, <3>2 DEF HtKinds
  <2>3. htOn' = htOn
    BY <1>3, Zenon DEF HtWork, HtPrepare, HtStanding, HtAsk, HtAgrees, HtRefuses, HtAcquire,
       HtSend, HtNoReply, HtRedirect, HtReply, HtInline, HtDeclared, HtBigAgreed, HtOpen, HtRead,
       HtResumes, HtKeeps
  <2>4. htGrants' \subseteq HtOrigins \union {"all"}
    <3>1. CASE HtAgrees(r)
      <4>1. htRun[r].org \in HtOrigins
        BY <3>1 DEF HtAgrees, HtIInv, HtRunOk, HtBoundOk, HtUnderWay
      <4>2. PICK v : v = [htRun[r] EXCEPT !.pc = "clear"]  OBVIOUS
      <4>3. v.org = htRun[r].org
        <5>1. PICK t : t = htRun[r]  OBVIOUS
        <5>2. HtRecord(t)  BY <5>1 DEF HtIInv, HtRunOk, HtTyped
        <5> QED  BY <4>2, <5>1, <5>2 DEF HtRecord
      <4>4. htGrants' = htGrants \/ \E g \in {v.org, "all"} : htGrants' = htGrants \union {g}
        BY <3>1, <4>2, Zenon DEF HtAgrees
      <4> QED  BY <4>1, <4>3, <4>4 DEF HtKinds
    <3>2. CASE ~HtAgrees(r)
      <4>1. htGrants' = htGrants
        BY <1>3, <3>2, Zenon DEF HtWork, HtPrepare, HtStanding, HtAsk, HtRefuses, HtAcquire,
           HtSend, HtNoReply, HtRedirect, HtReply, HtInline, HtDeclared, HtBigAgreed, HtOpen,
           HtRead, HtResumes, HtKeeps
      <4> QED  BY <4>1 DEF HtKinds
    <3> QED  BY <3>1, <3>2
  <2> QED  BY <2>2, <2>3, <2>4 DEF HtKinds
<1> QED  BY <1>1, <1>2, <1>3, Zenon DEF HtNext

\* At first no run has an outcome or an origin.
LEMMA HtKindsInit == HtInit => HtKinds
BY DEF HtInit, HtKinds, HtOutOk, HtFresh

\* A run has an outcome or none, is at a step of its plan and at an origin
\* that the plan or a server named.
LEMMA HtTypedOK == HtIInv /\ HtKinds => HtTypeOK
<1> SUFFICES ASSUME HtIInv, HtKinds PROVE HtTypeOK  OBVIOUS
<1>1. \A r \in HtRuns : htRun[r].step \in 1 .. Len(HtPlan[r])
  BY HtPlanned DEF HtIInv, HtRunOk, HtTyped
<1> QED  BY <1>1 DEF HtKinds, HtOutOk, HtTypeOK
-----------------------------------------------------------------------------
(* The types of the model runtime.  A draft is based on a revision that    *)
(* there was; a check that can still be adopted is about a generation and  *)
(* of a kind.                                                              *)

MrStageFits(g) == /\ g.gen \in MrGens \union {0} /\ g.base \in Nat /\ g.key \in MrKeys
                  /\ g.evid \subseteq MrGens \X MrKinds

MrCheckStates == {"none", "completed", "cancelled", "failed", "interrupted"} \union MrRunning

MrStateFits(s) ==
    /\ s.rev \in Nat /\ s.gen \in MrGens /\ s.key \in MrKeys
    /\ s.denied \subseteq MrGens /\ s.retired \subseteq MrKeys
    /\ s.evid \subseteq MrGens \X MrKinds
    /\ MrStageFits(s.stage) /\ s.stage.base <= s.rev
    /\ s.check.state \in MrCheckStates

MrCallsFit == \A c \in MrCalls : mrCall[c].pc \in {"idle", "bound", "admitted", "done"}

MrRunFits == mrUp = "open" /\ mrCheck.pc # "none" =>
                mrMem.check.gen \in MrGens /\ mrMem.check.kind \in MrKinds

MrFits ==
    /\ MrStateFits(mrMem) /\ MrStateFits(mrDisk)
    /\ mrUp \in {"open", "closed"} /\ mrStatus \in {"applied", "failed"}
    /\ MrCallsFit /\ MrRunFits

\* A state whose fields are those of a state that fits, or fit themselves.
LEMMA MrFitsBut ==
    ASSUME NEW t, NEW s, MrStateFits(t), MrStageFits(s.stage), s.stage.base <= s.rev,
           s.rev \in Nat, s.gen \in MrGens, s.key \in MrKeys,
           s.denied \subseteq MrGens, s.retired \subseteq MrKeys,
           s.evid \subseteq MrGens \X MrKinds,
           s.check = t.check \/ s.check.state \in MrCheckStates
    PROVE  MrStateFits(s)
BY DEF MrStateFits

\* No draft, and the first check.
LEMMA MrEmptyFits == MrStageFits(MrNoStage) /\ MrNoStage.base = 0
<1>1. /\ MrNoStage.gen = 0 /\ MrNoStage.base = 0 /\ MrNoStage.key = MrFirst /\ MrNoStage.evid = {}
  BY DEF MrNoStage
<1>2. MrFirst \in MrKeys  BY MrAssumption
<1> QED  BY <1>1, <1>2 DEF MrStageFits

\* A save that fails.
LEMMA MrNotSavedFits ==
    ASSUME MrFits, NEW s, MrStateFits(s), MrNotSaved(s)
    PROVE  MrFits'
<1>1. /\ mrMem' = mrMem /\ mrCheck' = mrCheck /\ mrCall' = mrCall /\ mrUp' = mrUp
      /\ mrStatus' = mrStatus /\ mrDisk' \in {mrDisk, s}
  BY DEF MrNotSaved
<1> QED  BY <1>1, Zenon DEF MrFits, MrCallsFit, MrRunFits

\* A save that succeeds.
LEMMA MrSavedFits ==
    ASSUME MrFits, NEW s, MrStateFits(s), MrAdopted(s), mrUp' = mrUp,
           mrStatus' \in {"applied", "failed"}, MrCallsFit',
           \/ mrCheck'.pc = mrCheck.pc /\ s.check.gen = mrMem.check.gen /\ s.check.kind = mrMem.check.kind
           \/ mrCheck'.pc = "none"
           \/ s.check.gen \in MrGens /\ s.check.kind \in MrKinds
    PROVE  MrFits'
<1>1. mrMem' = s /\ mrDisk' = s  BY DEF MrAdopted
<1>2. MrRunFits'
  <2> SUFFICES ASSUME mrUp' = "open", mrCheck'.pc # "none"
               PROVE  s.check.gen \in MrGens /\ s.check.kind \in MrKinds
    BY <1>1 DEF MrRunFits
  <2> QED  BY DEF MrFits, MrRunFits
<1> QED  BY <1>1, <1>2, Zenon DEF MrFits

\* What is cut short stays where it is.
LEMMA MrCutFits ==
    ASSUME MrIInv, MrFits, NEW s
    PROVE  /\ mrCheck' = MrCutCheck(s) => mrCheck'.pc = mrCheck.pc
           /\ mrCall' = MrCutCalls(s) => MrCallsFit'
<1>1. ASSUME mrCheck' = MrCutCheck(s) PROVE mrCheck'.pc = mrCheck.pc
  <2>1. PICK b : mrCheck' = [mrCheck EXCEPT !.cut = b]  BY <1>1, Zenon DEF MrCutCheck
  <2> QED  BY <2>1 DEF MrIInv, MrCheckOk
<1>2. ASSUME mrCall' = MrCutCalls(s), NEW c \in MrCalls PROVE mrCall'[c].pc = mrCall[c].pc
  <2>1. mrCall'[c] \in {[mrCall[c] EXCEPT !.cut = TRUE], mrCall[c]}  BY <1>2 DEF MrCutCalls
  <2>2. PICK u : u = mrCall[c]  OBVIOUS
  <2>3. u = [pc |-> u.pc, gen |-> u.gen, cut |-> u.cut]  BY <2>2, Zenon DEF MrIInv, MrCallsOk
  <2> QED  BY <2>1, <2>2, <2>3
<1> QED  BY <1>1, <1>2 DEF MrFits, MrCallsFit

\* What a publication leaves.
LEMMA MrPublished == ASSUME NEW s, NEW g, MrPublish(s, g) PROVE mrStatus' \in {"applied", "failed"}
BY DEF MrPublish

\* A draft is based on the revision in use.
LEMMA MrStageKept == ASSUME MrIInv, MrFits, NEW a, NEW k \in MrKeys, MrStage(a, k) PROVE MrFits'
<1> DEFINE own  == MrStageLive
           oldg == IF own THEN mrMem.stage.gen ELSE mrMem.gen
           oldk == IF own THEN mrMem.stage.key ELSE mrMem.key
           oldo == IF own THEN TRUE ELSE mrMem.on
           keep == k = oldk /\ oldo
           g    == IF keep THEN oldg ELSE mrGen.gen + 1
           ev   == IF own THEN mrMem.stage.evid ELSE mrMem.evid
           new  == [id |-> mrGen.stage + 1, actor |-> a, base |-> mrMem.rev, gen |-> g,
                    key |-> k, evid |-> ev, late |-> FALSE]
<1>1. PICK t, n : t = mrMem /\ n = new  OBVIOUS
<1>2. PICK s : s = [t EXCEPT !.stage = n]  OBVIOUS
<1>3. /\ g \in MrGens
      /\ \/ /\ MrSaved(s)
            /\ UNCHANGED <<mrUp, mrRights, mrCheck, mrCall, mrRoute, mrStatus, mrProven>>
         \/ MrNotSaved(s)
  BY <1>1, <1>2 DEF MrStage
<1>4. ev \subseteq MrGens \X MrKinds  BY DEF MrFits, MrStateFits, MrStageFits
<1> HIDE DEF g, ev
<1>5. n.gen = g /\ n.base = mrMem.rev /\ n.key = k /\ n.evid = ev  BY <1>1
<1>6. mrMem.rev \in Nat  BY DEF MrFits, MrStateFits
<1>7. MrStageFits(n)  BY <1>3, <1>4, <1>5, <1>6, Zenon DEF MrStageFits
<1>8. /\ s.rev = t.rev /\ s.gen = t.gen /\ s.key = t.key /\ s.denied = t.denied
      /\ s.retired = t.retired /\ s.evid = t.evid /\ s.stage = n /\ s.check = t.check
  BY <1>1, <1>2 DEF MrIInv, MrStores, MrStateOk, MrRecord
<1>9. MrStateFits(t)  BY <1>1 DEF MrFits
<1>10. s.stage.base <= s.rev  BY <1>1, <1>5, <1>6, <1>8
<1>11. MrStateFits(s)  BY <1>7, <1>8, <1>9, <1>10, Zenon DEF MrStateFits
<1>12. CASE MrNotSaved(s)  BY <1>11, <1>12, MrNotSavedFits
<1>13. CASE /\ MrSaved(s)
            /\ UNCHANGED <<mrUp, mrRights, mrCheck, mrCall, mrRoute, mrStatus, mrProven>>
  <2>1. MrAdopted(s) /\ mrUp' = mrUp /\ mrStatus' = mrStatus /\ mrCheck' = mrCheck /\ mrCall' = mrCall
    BY <1>13 DEF MrSaved
  <2>2. mrStatus' \in {"applied", "failed"} /\ MrCallsFit'  BY <2>1 DEF MrFits, MrCallsFit
  <2> QED  BY <1>1, <1>8, <1>11, <2>1, <2>2, MrSavedFits
<1> QED  BY <1>3, <1>12, <1>13

\* What Activate, Discard and Revoke write.
LEMMA MrPolicyKept ==
    ASSUME MrIInv, MrFits, NEW a, MrActivate(a) \/ MrDiscard(a) \/ MrRevoke(a)
    PROVE  MrFits'
<1>1. PICK t, n : t = mrMem /\ n = MrNoStage  OBVIOUS
<1>2. MrStateFits(t) /\ MrRecord(t)  BY <1>1 DEF MrFits, MrIInv, MrStores, MrStateOk
<1>3. MrStageFits(n) /\ n.base = 0  BY <1>1, MrEmptyFits
<1>4. CASE MrActivate(a)
  <2>1. PICK st : st = t.stage  OBVIOUS
  <2>2. PICK d, r : /\ d = IF st.gen = t.gen THEN t.denied ELSE t.denied \union {t.gen}
                    /\ r = IF st.gen = t.gen THEN t.retired ELSE t.retired \union {t.key}
    OBVIOUS
  <2>3. PICK v : v = t.rev + 1  OBVIOUS
  <2>4. PICK s : s = [t EXCEPT !.rev = v, !.assigned = TRUE, !.gen = st.gen, !.key = st.key,
                               !.on = TRUE, !.evid = st.evid, !.stage = n, !.denied = d,
                               !.retired = r]
    OBVIOUS
  <2>5. \/ /\ MrAdopted(s) /\ mrUp' = mrUp
           /\ mrCheck' = MrCutCheck(s) /\ mrCall' = MrCutCalls(s) /\ MrPublish(s, s.gen)
        \/ MrNotSaved(s)
    BY <1>1, <1>4, <2>1, <2>2, <2>3, <2>4 DEF MrActivate
  <2>6. /\ s.rev = v /\ s.gen = st.gen /\ s.key = st.key /\ s.denied = d
        /\ s.retired = r /\ s.evid = st.evid /\ s.stage = n /\ s.check = t.check
    BY <1>2, <2>4 DEF MrRecord
  <2>7. st.gen \in MrGens
    <3>1. st.id # 0  BY <1>1, <1>4, <2>1 DEF MrActivate, MrOwnStage, MrStageLive
    <3>2. st.gen # 0  BY <1>1, <2>1, <3>1 DEF MrIInv, MrStores, MrStateOk
    <3> QED  BY <1>2, <2>1, <3>2 DEF MrStateFits, MrStageFits
  <2>8. MrStageFits(st) /\ v \in Nat /\ n.base <= v
    BY <1>2, <1>3, <2>1, <2>3 DEF MrStateFits
  <2>9. d \subseteq MrGens /\ r \subseteq MrKeys  BY <1>2, <2>2 DEF MrStateFits
  <2>10. s.stage.base <= s.rev /\ s.rev \in Nat  BY <2>6, <2>8
  <2>11. MrStateFits(s)
    BY <1>2, <1>3, <2>6, <2>7, <2>8, <2>9, <2>10, MrFitsBut, Zenon DEF MrStageFits
  <2>12. CASE MrNotSaved(s)  BY <2>11, <2>12, MrNotSavedFits
  <2>13. CASE /\ MrAdopted(s) /\ mrUp' = mrUp
              /\ mrCheck' = MrCutCheck(s) /\ mrCall' = MrCutCalls(s) /\ MrPublish(s, s.gen)
    BY <1>1, <2>6, <2>11, <2>13, MrSavedFits, MrCutFits, MrPublished
  <2> QED  BY <2>5, <2>12, <2>13
<1>5. CASE MrDiscard(a)
  <2>1. PICK s : s = [t EXCEPT !.stage = n]  OBVIOUS
  <2>2. \/ /\ MrAdopted(s) /\ mrUp' = mrUp /\ mrCall' = mrCall /\ mrStatus' = mrStatus
           /\ \E b : mrCheck' = [mrCheck EXCEPT !.cut = b]
        \/ MrNotSaved(s)
    BY <1>1, <1>5, <2>1, Zenon DEF MrDiscard, MrSaved
  <2>3. /\ s.rev = t.rev /\ s.gen = t.gen /\ s.key = t.key /\ s.denied = t.denied
        /\ s.retired = t.retired /\ s.evid = t.evid /\ s.stage = n /\ s.check = t.check
    BY <1>2, <2>1 DEF MrRecord
  <2>4. s.stage.base <= s.rev  BY <1>2, <1>3, <2>3 DEF MrStateFits
  <2>5. MrStateFits(s)  BY <1>2, <1>3, <2>3, <2>4, Zenon DEF MrStateFits
  <2>6. CASE MrNotSaved(s)  BY <2>5, <2>6, MrNotSavedFits
  <2>7. CASE /\ MrAdopted(s) /\ mrUp' = mrUp /\ mrCall' = mrCall /\ mrStatus' = mrStatus
             /\ \E b : mrCheck' = [mrCheck EXCEPT !.cut = b]
    <3>1. mrCheck'.pc = mrCheck.pc  BY <2>7 DEF MrIInv, MrCheckOk
    <3>2. mrStatus' \in {"applied", "failed"} /\ MrCallsFit'  BY <2>7 DEF MrFits, MrCallsFit
    <3> QED  BY <1>1, <2>3, <2>5, <2>7, <3>1, <3>2, MrSavedFits
  <2> QED  BY <2>2, <2>6, <2>7
<1>6. CASE MrRevoke(a)
  <2>1. PICK v, d, r, no : /\ v = t.rev + 1 /\ d = t.denied \union {t.gen}
                           /\ r = t.retired \union {t.key} /\ no = FALSE
    OBVIOUS
  <2>2. PICK s : s = [t EXCEPT !.rev = v, !.on = no, !.denied = d, !.retired = r, !.stage = n]
    OBVIOUS
  <2>3. \/ /\ MrAdopted(s) /\ mrUp' = mrUp
           /\ mrCheck' = MrCutCheck(s) /\ mrCall' = MrCutCalls(s)
           /\ MrPublish(s, mrRoute.gen) \/ mrStatus' = "applied"
        \/ MrNotSaved(s)
    BY <1>1, <1>6, <2>1, <2>2 DEF MrRevoke
  <2>4. /\ s.rev = v /\ s.gen = t.gen /\ s.key = t.key /\ s.denied = d
        /\ s.retired = r /\ s.evid = t.evid /\ s.stage = n /\ s.check = t.check
    BY <1>2, <2>2 DEF MrRecord
  <2>5. v \in Nat /\ n.base <= v  BY <1>2, <1>3, <2>1 DEF MrStateFits
  <2>6. d \subseteq MrGens /\ r \subseteq MrKeys  BY <1>2, <2>1 DEF MrStateFits
  <2>7. MrStateFits(s)  BY <1>2, <1>3, <2>4, <2>5, <2>6, MrFitsBut, Zenon DEF MrStateFits
  <2>8. CASE MrNotSaved(s)  BY <2>7, <2>8, MrNotSavedFits
  <2>9. CASE /\ MrAdopted(s) /\ mrUp' = mrUp
             /\ mrCheck' = MrCutCheck(s) /\ mrCall' = MrCutCalls(s)
             /\ MrPublish(s, mrRoute.gen) \/ mrStatus' = "applied"
    <3>1. mrStatus' \in {"applied", "failed"}  BY <2>9, MrPublished
    <3> QED  BY <1>1, <2>4, <2>7, <2>9, <3>1, MrSavedFits, MrCutFits
  <2> QED  BY <2>3, <2>8, <2>9
<1> QED  BY <1>4, <1>5, <1>6

\* A check is recorded with a generation and a kind.
LEMMA MrProbeKept ==
    ASSUME MrIInv, MrFits, NEW a, NEW kind \in MrKinds, NEW draft \in BOOLEAN, MrProbe(a, kind, draft)
    PROVE  MrFits'
<1> DEFINE g  == IF draft THEN mrMem.stage.gen ELSE mrMem.gen
           id == IF draft THEN mrMem.stage.id ELSE 0
<1>1. PICK t, c, b : /\ t = mrMem /\ b = g
                     /\ c = [state |-> "running", gen |-> g, kind |-> kind, actor |-> a, stage |-> id]
  OBVIOUS
<1>2. PICK s : s = [t EXCEPT !.check = c]  OBVIOUS
<1>3. MrStateFits(t) /\ MrRecord(t)  BY <1>1 DEF MrFits, MrIInv, MrStores, MrStateOk
<1>4. \/ /\ MrSaved(s) /\ mrCheck' = [MrNoRun EXCEPT !.pc = "start"]
         /\ UNCHANGED <<mrUp, mrRights, mrCall, mrRoute, mrStatus, mrProven>>
      \/ MrNotSaved(s)
  BY <1>1, <1>2, Zenon DEF MrProbe
<1>5. /\ s.rev = t.rev /\ s.gen = t.gen /\ s.key = t.key /\ s.denied = t.denied
      /\ s.retired = t.retired /\ s.evid = t.evid /\ s.stage = t.stage /\ s.check = c
  BY <1>2, <1>3 DEF MrRecord
<1>6. c.state = "running" /\ c.gen = b /\ c.kind = kind  BY <1>1
<1>7. b \in MrGens
  <2>1. CASE draft
    <3>1. mrMem.stage.id # 0  BY <2>1 DEF MrProbe, MrOwnStage, MrStageLive
    <3>2. mrMem.stage.gen # 0  BY <3>1 DEF MrIInv, MrStores, MrStateOk
    <3> QED  BY <1>1, <2>1, <3>2 DEF MrFits, MrStateFits, MrStageFits
  <2>2. CASE ~draft  BY <1>1, <2>2 DEF MrFits, MrStateFits
  <2> QED  BY <2>1, <2>2
<1>8. MrStateFits(s)
  <2>1. s.check.state \in MrCheckStates  BY <1>5, <1>6 DEF MrCheckStates, MrRunning
  <2> QED  BY <1>3, <1>5, <2>1, Zenon DEF MrStateFits
<1>9. CASE MrNotSaved(s)  BY <1>8, <1>9, MrNotSavedFits
<1>10. CASE /\ MrSaved(s)
            /\ UNCHANGED <<mrUp, mrRights, mrCall, mrRoute, mrStatus, mrProven>>
  <2>1. MrAdopted(s) /\ mrUp' = mrUp /\ mrStatus' = mrStatus /\ mrCall' = mrCall  BY <1>10 DEF MrSaved
  <2>2. mrStatus' \in {"applied", "failed"} /\ MrCallsFit'  BY <2>1 DEF MrFits, MrCallsFit
  <2>3. s.check.gen \in MrGens /\ s.check.kind \in MrKinds  BY <1>5, <1>6, <1>7
  <2> QED  BY <1>8, <2>1, <2>2, <2>3, MrSavedFits
<1> QED  BY <1>4, <1>9, <1>10

\* Steps of a check that write nothing.
LEMMA MrRunKept == ASSUME MrIInv, MrFits, MrAsk \/ MrAnswered \/ MrDeadline PROVE MrFits'
<1>1. /\ mrMem' = mrMem /\ mrDisk' = mrDisk /\ mrUp' = mrUp /\ mrStatus' = mrStatus
      /\ mrCall' = mrCall
  BY Zenon DEF MrAsk, MrAnswered, MrDeadline
<1>2. mrCheck.pc # "none"  BY DEF MrAsk, MrAnswered, MrDeadline, MrChecking
<1>3. MrRunFits'  BY <1>1, <1>2 DEF MrFits, MrRunFits
<1> QED  BY <1>1, <1>3, Zenon DEF MrFits, MrCallsFit

\* A settled check.
LEMMA MrSettledFits ==
    ASSUME NEW t, NEW st \in MrCheckStates, MrStateFits(t), MrRecord(t)
    PROVE  LET s == [t EXCEPT !.check = MrSettled(st)]
           IN  MrStateFits(s) /\ MrRecord(s) /\ s.stage = t.stage /\ s.evid = t.evid
<1>1. PICK k : k = MrSettled(st)  OBVIOUS
<1>2. /\ k.state = st
      /\ k = [state |-> k.state, gen |-> k.gen, stage |-> k.stage, kind |-> k.kind,
              actor |-> k.actor]
  BY <1>1 DEF MrSettled, MrNoCheck
<1>3. PICK s : s = [t EXCEPT !.check = k]  OBVIOUS
<1>4. /\ s.rev = t.rev /\ s.gen = t.gen /\ s.key = t.key /\ s.denied = t.denied
      /\ s.retired = t.retired /\ s.evid = t.evid /\ s.stage = t.stage /\ s.check = k
      /\ s = [rev |-> s.rev, assigned |-> s.assigned, gen |-> s.gen, key |-> s.key, on |-> s.on,
              denied |-> s.denied, retired |-> s.retired, evid |-> s.evid, stage |-> s.stage,
              check |-> s.check]
  BY <1>3 DEF MrRecord
<1>5. MrRecord(s)  BY <1>2, <1>4, Zenon DEF MrRecord
<1>6. MrStateFits(s)  BY <1>2, <1>4, Zenon DEF MrStateFits
<1> QED  BY <1>1, <1>3, <1>4, <1>5, <1>6, Zenon

\* A good answer is of a generation and a kind: it is evidence.
LEMMA MrFinishKept == ASSUME MrIInv, MrFits, MrFinish PROVE MrFits'
<1> DEFINE r    == mrMem.check
           good == MrPassed
           new  == IF good THEN {<<r.gen, r.kind>>} ELSE {}
           st   == CASE good -> "completed"
                     [] ~good /\ (mrCheck.cut \/ r.state = "cancel_requested") -> "cancelled"
                     [] OTHER -> "failed"
           s    == IF r.stage = 0 THEN [mrMem EXCEPT !.check = MrSettled(st), !.evid = @ \union new]
                   ELSE [mrMem EXCEPT !.check = MrSettled(st), !.stage.evid = @ \union new]
<1>1. /\ mrCheck.pc = "answered" /\ mrCheck' = MrNoRun
      /\ mrUp' = mrUp /\ mrStatus' = mrStatus /\ mrCall' = mrCall
      /\ \/ mrUp = "open" /\ MrSaved(s)
         \/ /\ mrUp = "open" /\ MrFault
            /\ mrMem' = [mrMem EXCEPT !.check = MrSettled("interrupted")]
            /\ mrDisk' \in {mrDisk, s}
         \/ mrUp = "closed" /\ UNCHANGED <<mrMem, mrDisk, mrFaults>>
  BY DEF MrFinish
<1>2. MrStateFits(mrMem) /\ MrRecord(mrMem)  BY DEF MrFits, MrIInv, MrStores, MrStateOk
<1>3. st \in MrCheckStates  BY DEF MrCheckStates
<1>4. mrUp = "open" => new \subseteq MrGens \X MrKinds  BY <1>1 DEF MrFits, MrRunFits
<1> HIDE DEF st, new
<1>5. ASSUME mrUp = "open" PROVE MrStateFits(s)
  <2>1. PICK m : m = mrMem  OBVIOUS
  <2>2. PICK t : t = [m EXCEPT !.check = MrSettled(st)]  OBVIOUS
  <2>3. MrStateFits(t) /\ MrRecord(t)  BY <1>2, <1>3, <2>1, <2>2, MrSettledFits, Zenon
  <2>4. t.evid = m.evid /\ t.stage = m.stage  BY <1>2, <1>3, <2>1, <2>2, MrSettledFits, Zenon
  <2>5. CASE r.stage = 0
    <3>1. PICK e : e = m.evid \union new  OBVIOUS
    <3>2. s = [t EXCEPT !.evid = e]  BY <2>1, <2>2, <2>5, <3>1
    <3>3. /\ s.rev = t.rev /\ s.gen = t.gen /\ s.key = t.key /\ s.denied = t.denied
          /\ s.retired = t.retired /\ s.evid = e /\ s.stage = t.stage /\ s.check = t.check
      <4> HIDE DEF s
      <4> QED  BY <2>3, <3>2 DEF MrRecord
    <3>4. e \subseteq MrGens \X MrKinds  BY <1>2, <1>4, <1>5, <2>1, <3>1 DEF MrStateFits
    <3> HIDE DEF s
    <3> QED  BY <2>3, <3>3, <3>4, Zenon DEF MrStateFits
  <2>6. CASE r.stage # 0
    <3>1. PICK g, e : g = m.stage /\ e = m.stage.evid \union new  OBVIOUS
    <3>2. PICK h : h = [g EXCEPT !.evid = e]  OBVIOUS
    <3>3. s = [t EXCEPT !.stage.evid = e]  BY <2>1, <2>2, <2>6, <3>1
    <3>4. s = [t EXCEPT !.stage = h]  BY <2>3, <2>4, <3>1, <3>2, <3>3 DEF MrRecord
    <3>5. /\ s.rev = t.rev /\ s.gen = t.gen /\ s.key = t.key /\ s.denied = t.denied
          /\ s.retired = t.retired /\ s.evid = t.evid /\ s.stage = h /\ s.check = t.check
      <4> HIDE DEF s
      <4> QED  BY <2>3, <3>4 DEF MrRecord
    <3>6. h.gen = g.gen /\ h.base = g.base /\ h.key = g.key /\ h.evid = e
      BY <1>2, <2>1, <3>1, <3>2 DEF MrRecord
    <3>7. MrStageFits(g) /\ g.base <= t.rev  BY <1>2, <2>3, <2>4, <3>1 DEF MrStateFits
    <3>8. e \subseteq MrGens \X MrKinds  BY <1>4, <1>5, <3>1, <3>7 DEF MrStageFits
    <3>9. MrStageFits(h)  BY <3>6, <3>7, <3>8, Zenon DEF MrStageFits
    <3> HIDE DEF s
    <3> QED  BY <2>3, <3>5, <3>6, <3>7, <3>9, Zenon DEF MrStateFits
  <2> QED  BY <2>5, <2>6
<1> HIDE DEF s
<1>6. MrCallsFit' /\ mrStatus' \in {"applied", "failed"}  BY <1>1 DEF MrFits, MrCallsFit
<1>7. mrCheck'.pc = "none"  BY <1>1 DEF MrNoRun
<1>8. CASE mrUp = "open" /\ MrSaved(s)
  BY <1>1, <1>5, <1>6, <1>7, <1>8, MrSavedFits DEF MrSaved
<1>9. CASE /\ mrUp = "open" /\ mrMem' = [mrMem EXCEPT !.check = MrSettled("interrupted")]
           /\ mrDisk' \in {mrDisk, s}
  <2>1. "interrupted" \in MrCheckStates  BY DEF MrCheckStates
  <2>2. MrStateFits(mrMem')  BY <1>2, <1>9, <2>1, MrSettledFits, Zenon
  <2>3. MrStateFits(mrDisk')  BY <1>5, <1>9 DEF MrFits
  <2>4. MrRunFits'  BY <1>7 DEF MrRunFits
  <2> QED  BY <1>1, <1>6, <2>2, <2>3, <2>4, Zenon DEF MrFits
<1>10. CASE UNCHANGED <<mrMem, mrDisk>>
  <2>1. mrMem' = mrMem /\ mrDisk' = mrDisk  BY <1>10
  <2>2. MrRunFits'  BY <1>7 DEF MrRunFits
  <2> QED  BY <1>1, <1>6, <2>1, <2>2, Zenon DEF MrFits
<1> QED  BY <1>1, <1>8, <1>9, <1>10

\* A check that is to be cancelled is about what it was about.
LEMMA MrCancelKept == ASSUME MrIInv, MrFits, MrCancel PROVE MrFits'
<1>1. PICK t, c : t = mrMem /\ c = [t.check EXCEPT !.state = "cancel_requested"]  OBVIOUS
<1>2. PICK s : s = [t EXCEPT !.check.state = "cancel_requested"]  OBVIOUS
<1>3. MrStateFits(t) /\ MrRecord(t)  BY <1>1 DEF MrFits, MrIInv, MrStores, MrStateOk
<1>4. /\ s.rev = t.rev /\ s.gen = t.gen /\ s.key = t.key /\ s.denied = t.denied
      /\ s.retired = t.retired /\ s.evid = t.evid /\ s.stage = t.stage /\ s.check = c
  BY <1>1, <1>2, <1>3 DEF MrRecord
<1>5. c.state = "cancel_requested" /\ c.gen = t.check.gen /\ c.kind = t.check.kind
  BY <1>1, <1>3 DEF MrRecord
<1>6. MrStateFits(s)
  <2>1. s.check.state \in MrCheckStates  BY <1>4, <1>5 DEF MrCheckStates, MrRunning
  <2> QED  BY <1>3, <1>4, <2>1, Zenon DEF MrStateFits
<1>7. \/ /\ MrSaved(s) /\ mrCheck' = [mrCheck EXCEPT !.cut = TRUE]
         /\ UNCHANGED <<mrUp, mrRights, mrCall, mrRoute, mrStatus, mrProven>>
      \/ MrNotSaved(s)
  BY <1>1, <1>2, Zenon DEF MrCancel
<1>8. CASE MrNotSaved(s)  BY <1>6, <1>8, MrNotSavedFits
<1>9. CASE /\ MrSaved(s) /\ mrCheck' = [mrCheck EXCEPT !.cut = TRUE]
           /\ UNCHANGED <<mrUp, mrRights, mrCall, mrRoute, mrStatus, mrProven>>
  <2>1. MrAdopted(s) /\ mrUp' = mrUp /\ mrStatus' = mrStatus /\ mrCall' = mrCall  BY <1>9 DEF MrSaved
  <2>2. mrStatus' \in {"applied", "failed"} /\ MrCallsFit'  BY <2>1 DEF MrFits, MrCallsFit
  <2>3. mrCheck'.pc = mrCheck.pc  BY <1>9 DEF MrIInv, MrCheckOk
  <2> QED  BY <1>1, <1>4, <1>5, <1>6, <2>1, <2>2, <2>3, MrSavedFits
<1> QED  BY <1>7, <1>8, <1>9

\* The steps of the calls.
LEMMA MrCallKept ==
    ASSUME MrIInv, MrFits, NEW c \in MrCalls, MrResolve(c) \/ MrAdmit(c) \/ MrOperate(c) \/ MrReturn(c)
    PROVE  MrFits'
<1>1. /\ mrMem' = mrMem /\ mrDisk' = mrDisk /\ mrUp' = mrUp /\ mrStatus' = mrStatus
      /\ mrCheck' = mrCheck
  BY Zenon DEF MrResolve, MrAdmit, MrOperate, MrReturn
<1>2. PICK t : t = mrCall[c]  OBVIOUS
<1>3. t = [pc |-> t.pc, gen |-> t.gen, cut |-> t.cut]  BY <1>2, Zenon DEF MrIInv, MrCallsOk
<1>4. PICK u : /\ mrCall' = [mrCall EXCEPT ![c] = u]
               /\ \/ \E g : u = [pc |-> "bound", gen |-> g, cut |-> FALSE]
                  \/ \E g : u = [pc |-> "admitted", gen |-> g, cut |-> FALSE]
                  \/ u = [t EXCEPT !.pc = "admitted"]
                  \/ u = MrOver
  BY <1>2, Zenon DEF MrResolve, MrAdmit, MrOperate, MrReturn
<1>5. u.pc \in {"bound", "admitted", "done"}  BY <1>3, <1>4 DEF MrOver, MrNoCall
<1>6. MrCallsFit'  BY <1>4, <1>5 DEF MrIInv, MrCallsOk, MrFits, MrCallsFit
<1>7. MrRunFits'  BY <1>1, Zenon DEF MrFits, MrRunFits
<1> QED  BY <1>1, <1>6, <1>7, Zenon DEF MrFits

\* A draft grows too late.
LEMMA MrLateKept == ASSUME MrIInv, MrFits, MrStageExpires PROVE MrFits'
<1>1. ASSUME NEW x, NEW b, MrStateFits(x), MrRecord(x)
      PROVE  MrStateFits(MrLateOf(x, b)) /\ MrLateOf(x, b).check = x.check
  <2>1. PICK s : s = MrLateOf(x, b)  OBVIOUS
  <2>2. PICK g, h : g = x.stage /\ h = [g EXCEPT !.late = b]  OBVIOUS
  <2>3. /\ s.rev = x.rev /\ s.gen = x.gen /\ s.key = x.key /\ s.denied = x.denied
        /\ s.retired = x.retired /\ s.evid = x.evid /\ s.stage = h /\ s.check = x.check
    BY <1>1, <2>1, <2>2 DEF MrRecord, MrLateOf
  <2>4. h.gen = g.gen /\ h.base = g.base /\ h.key = g.key /\ h.evid = g.evid
    BY <1>1, <2>2 DEF MrRecord
  <2>5. MrStageFits(h)  BY <1>1, <2>2, <2>4, Zenon DEF MrStateFits, MrStageFits
  <2> QED  BY <1>1, <2>1, <2>2, <2>3, <2>4, <2>5, Zenon DEF MrStateFits
<1>2. /\ MrStateFits(mrMem) /\ MrStateFits(mrDisk) /\ MrRecord(mrMem) /\ MrRecord(mrDisk)
  BY DEF MrFits, MrIInv, MrStores, MrStateOk
<1>3. /\ \E b : mrMem' = MrLateOf(mrMem, b)
      /\ \E b : mrDisk' = MrLateOf(mrDisk, b)
      /\ mrUp' = mrUp /\ mrStatus' = mrStatus /\ mrCheck' = mrCheck /\ mrCall' = mrCall
  BY Zenon DEF MrStageExpires, MrLateOf
<1>4. MrStateFits(mrMem') /\ MrStateFits(mrDisk') /\ mrMem'.check = mrMem.check
  BY <1>1, <1>2, <1>3, Zenon
<1>5. MrRunFits'  BY <1>3, <1>4, Zenon DEF MrFits, MrRunFits
<1> QED  BY <1>3, <1>4, <1>5, Zenon DEF MrFits, MrCallsFit

\* An interrupted check fits, too.
LEMMA MrInterruptedFits ==
    ASSUME NEW x, MrStateFits(x), MrRecord(x)
    PROVE  MrStateFits(MrInterrupted(x)) /\ MrRecord(MrInterrupted(x))
<1>1. "interrupted" \in MrCheckStates  BY DEF MrCheckStates
<1> QED  BY <1>1, MrSettledFits, Zenon DEF MrInterrupted

\* What a restart loads fits.
LEMMA MrLoadedFits ==
    ASSUME NEW d, MrStateFits(d), MrRecord(d)
    PROVE  MrStateFits(MrLoaded(d)) /\ MrRecord(MrLoaded(d))
<1>1. PICK i : i = MrInterrupted(d) OBVIOUS
<1>2. MrStateFits(i) /\ MrRecord(i)  BY <1>1, MrInterruptedFits
<1>3. CASE ~i.stage.late BY <1>1, <1>2, <1>3 DEF MrLoaded
<1>4. CASE i.stage.late
  <2>1. PICK g : g = MrNoStage OBVIOUS
  <2>2. PICK s : s = [i EXCEPT !.stage = g] OBVIOUS
  <2>3. s = MrLoaded(d) BY <1>1, <1>4, <2>1, <2>2 DEF MrLoaded
  <2>4. g = [id |-> g.id, actor |-> g.actor, base |-> g.base, gen |-> g.gen, key |-> g.key,
             evid |-> g.evid, late |-> g.late]
    BY <2>1 DEF MrNoStage
  <2>5. /\ s.rev = i.rev /\ s.gen = i.gen /\ s.key = i.key /\ s.denied = i.denied
        /\ s.retired = i.retired /\ s.evid = i.evid /\ s.stage = g /\ s.check = i.check
        /\ s = [rev |-> s.rev, assigned |-> s.assigned, gen |-> s.gen, key |-> s.key, on |-> s.on,
                denied |-> s.denied, retired |-> s.retired, evid |-> s.evid, stage |-> s.stage,
                check |-> s.check]
    BY <1>2, <2>2 DEF MrRecord
  <2>6. MrRecord(s) BY <1>2, <2>4, <2>5, Zenon DEF MrRecord
  <2>7. MrStageFits(g) /\ g.base = 0  BY <2>1, MrEmptyFits
  <2>8. s.stage.base <= s.rev  BY <1>2, <2>5, <2>7 DEF MrStateFits
  <2>9. MrStateFits(s) BY <1>2, <2>5, <2>7, <2>8, Zenon DEF MrStateFits
  <2> QED BY <2>3, <2>6, <2>9
<1> QED BY <1>3, <1>4

\* Close and New.
LEMMA MrProcessKept == ASSUME MrIInv, MrFits, MrClose \/ \E k \in MrKeys : MrRestart(k) PROVE MrFits'
<1>1. /\ MrStateFits(mrMem) /\ MrStateFits(mrDisk) /\ MrRecord(mrMem) /\ MrRecord(mrDisk)
  BY DEF MrFits, MrIInv, MrStores, MrStateOk
<1>2. CASE MrClose
  <2>1. /\ mrUp' = "closed" /\ mrMem' = MrInterrupted(mrMem) /\ mrDisk' \in {mrMem', mrDisk}
        /\ mrStatus' = mrStatus
        /\ mrCall' = [c \in MrCalls |-> [mrCall[c] EXCEPT !.cut =
                                            mrCall[c].cut \/ mrCall[c].pc = "admitted"]]
    BY <1>2 DEF MrClose
  <2>2. MrStateFits(mrMem') /\ MrStateFits(mrDisk')  BY <1>1, <2>1, MrInterruptedFits
  <2>3. ASSUME NEW c \in MrCalls PROVE mrCall'[c].pc = mrCall[c].pc
    <3>1. PICK t, b : t = mrCall[c] /\ b = (mrCall[c].cut \/ mrCall[c].pc = "admitted") OBVIOUS
    <3>2. mrCall'[c] = [t EXCEPT !.cut = b] BY <2>1, <3>1
    <3>3. t = [pc |-> t.pc, gen |-> t.gen, cut |-> t.cut]  BY <3>1, Zenon DEF MrIInv, MrCallsOk
    <3> QED BY <3>1, <3>2, <3>3
  <2>4. MrCallsFit'  BY <2>3 DEF MrFits, MrCallsFit
  <2>5. MrRunFits'  BY <2>1 DEF MrRunFits
  <2>6. mrUp' \in {"open", "closed"} /\ mrStatus' \in {"applied", "failed"}  BY <2>1 DEF MrFits
  <2> QED  BY <2>2, <2>4, <2>5, <2>6, Zenon DEF MrFits
<1>3. ASSUME NEW k \in MrKeys, MrRestart(k) PROVE MrFits'
  <2> DEFINE s == MrLoaded(mrDisk)
             n == MrImported(s, mrGen.gen + 1, k)
  <2>1. /\ \/ mrMem' = s
           \/ mrGen.gen < MrMaxGen /\ mrMem' = n
        /\ mrDisk' = mrMem'
    BY <1>3, Zenon DEF MrRestart, MrLoaded, MrImported
  <2>2. /\ mrUp' = "open" /\ mrStatus' = "applied" /\ mrCheck' = MrNoRun
        /\ mrCall' = [c \in MrCalls |-> IF mrCall[c].pc = "idle" THEN MrNoCall ELSE MrOver]
    BY <1>3 DEF MrRestart
  <2> HIDE DEF s, n
  <2>3. MrStateFits(s) /\ MrRecord(s)  BY <1>1, MrLoadedFits DEF s
  <2>4. mrGen.gen < MrMaxGen => MrStateFits(n)
    <3> SUFFICES ASSUME mrGen.gen < MrMaxGen PROVE MrStateFits(n)  OBVIOUS
    <3>1. PICK m, d, r : m = mrGen.gen + 1 /\ d = s.denied \union {s.gen} /\ r = s.retired \union {s.key}
      OBVIOUS
    <3>2. n = [s EXCEPT !.gen = m, !.key = k, !.on = TRUE, !.denied = d, !.retired = r]
      BY <3>1 DEF n, MrImported
    <3>3. /\ n.rev = s.rev /\ n.gen = m /\ n.key = k /\ n.denied = d /\ n.retired = r
          /\ n.evid = s.evid /\ n.stage = s.stage /\ n.check = s.check
      BY <2>3, <3>2 DEF MrRecord
    <3>4. m \in MrGens
      BY <3>1, MrAssumption DEF MrIInv, MrStores, MrGenOk, MrGens
    <3>5. d \subseteq MrGens /\ r \subseteq MrKeys  BY <2>3, <3>1 DEF MrStateFits
    <3> QED  BY <2>3, <3>3, <3>4, <3>5, Zenon DEF MrStateFits
  <2>5. MrStateFits(mrMem') /\ MrStateFits(mrDisk')  BY <2>1, <2>3, <2>4
  <2>6. MrCallsFit'  BY <2>2 DEF MrCallsFit, MrNoCall, MrOver
  <2>7. MrRunFits'  BY <2>2 DEF MrRunFits, MrNoRun
  <2>8. mrUp' \in {"open", "closed"} /\ mrStatus' \in {"applied", "failed"}  BY <2>2
  <2> QED  BY <2>5, <2>6, <2>7, <2>8, Zenon DEF MrFits
<1> QED  BY <1>2, <1>3

\* Every step keeps the types.
LEMMA MrFitsStep == ASSUME MrIInv, MrFits, [MrNext]_mrVars PROVE MrFits'
<1>1. CASE UNCHANGED mrVars
  BY <1>1, Zenon DEF mrVars, MrFits, MrCallsFit, MrRunFits
<1>2. ASSUME NEW a, MrDemoted(a) PROVE MrFits'
  BY <1>2, Zenon DEF MrDemoted, MrFits, MrCallsFit, MrRunFits
<1> QED  BY <1>1, <1>2, MrPolicyKept, MrStageKept, MrProbeKept, MrRunKept, MrFinishKept,
            MrCancelKept, MrCallKept, MrLateKept, MrProcessKept, Zenon
         DEF MrNext, MrRun

\* At first.
LEMMA MrFitsInit == ASSUME MrInit PROVE MrFits
<1>1. PICK n : n = MrNoStage  OBVIOUS
<1>2. MrStageFits(n) /\ n.base = 0  BY <1>1, MrEmptyFits
<1>3. PICK c : c = MrNoCheck  OBVIOUS
<1>4. c.state \in MrCheckStates  BY <1>3 DEF MrNoCheck, MrCheckStates
<1>5. PICK s : s = [rev |-> 0, assigned |-> FALSE, gen |-> 1, key |-> MrFirst, on |-> TRUE,
                    denied |-> {}, retired |-> {}, evid |-> {}, stage |-> n, check |-> c]
  OBVIOUS
<1>6. 1 \in MrGens /\ MrFirst \in MrKeys  BY MrAssumption DEF MrGens
<1>7. MrStateFits(s)  BY <1>2, <1>4, <1>5, <1>6 DEF MrStateFits
<1>8. mrMem = s /\ mrDisk = s  BY <1>1, <1>3, <1>5 DEF MrInit
<1>9. MrCallsFit /\ MrRunFits  BY DEF MrInit, MrCallsFit, MrRunFits, MrNoCall, MrNoRun
<1>10. mrUp \in {"open", "closed"} /\ mrStatus \in {"applied", "failed"}  BY DEF MrInit
<1> QED  BY <1>7, <1>8, <1>9, <1>10, Zenon DEF MrFits

\* Generations, credentials and evidence have their types in memory and as
\* stored, and a draft is never based on a revision to come.
LEMMA MrRuntimeTyped == MrSpec => []MrTypeOK
<1>1. MrIInv /\ MrFits => MrTypeOK
  BY DEF MrIInv, MrCheckOk, MrFits, MrStateFits, MrStageFits, MrCallsFit, MrCheckStates,
         MrTypeOK, MrStateType
<1>2. MrInit => MrIInv /\ MrFits  BY MrInitInv, MrFitsInit
<1>3. MrIInv /\ MrFits /\ [MrNext]_mrVars => MrIInv' /\ MrFits'  BY MrStepInv, MrFitsStep
<1> QED  BY <1>1, <1>2, <1>3, PTL DEF MrSpec
=============================================================================
