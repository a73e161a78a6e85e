----------------------------- MODULE RemoteExec ------------------------------
(***************************************************************************)
(* Approved SSH executions (internal/remoteaccess: service.go and the      *)
(* scheduled runbooks of runbooks.go).  The catalog is one record kept in  *)
(* memory under one lock and written whole to disk by save; a failed save  *)
(* breaks the service until a restart.  An execution leaves the lock twice,*)
(* to ask the owner and to run the command, and the catalog moves on       *)
(* meanwhile.                                                              *)
(*                                                                         *)
(* One owner and one route.  A request is previewed and approved on the    *)
(* dashboard ("approved"), confirmed in the chat it came from ("asked"),   *)
(* or is one firing of a scheduled runbook under a standing grant with a   *)
(* limited number of uses ("firing").  What a plan hashes - scope, route,  *)
(* servers, identities, grant, policy revision - is abstracted to the      *)
(* policy revision, which every change of them increments, and the uses of *)
(* the runbook grant.                                                      *)
(***************************************************************************)
EXTENDS Naturals, FiniteSets

CONSTANTS
    RxReqs,      \* the requests
    RxKind,      \* RxReqs -> {"approved", "asked", "firing"}
    RxExecs,     \* bound: execution ids, 1..n
    RxSlots,     \* awaiting or dispatched executions an owner may have
    RxMaxUses,   \* uses of the runbook grant
    RxMaxPolicy, \* bound: policy revisions
    RxMaxFaults  \* bound: failed saves and restarts

ASSUME RxAssumption ==
    /\ RxKind \in [RxReqs -> {"approved", "asked", "firing"}]
    /\ RxExecs \subseteq Nat \ {0} /\ RxSlots \in Nat /\ RxMaxUses \in Nat
    /\ RxMaxPolicy \in Nat /\ RxMaxFaults \in Nat

VARIABLES
    rxCat,    \* the catalog in memory
    rxDisk,   \* the catalog file
    rxBroken, \* a save failed
    rxAt,     \* where the call of each execution is
    rxCtx,    \* executions whose context is cancelled
    rxRes,    \* what the transport answered
    rxFire,   \* firings claimed by a call that is about to execute them
    rxLate,   \* previews that are five minutes old
    rxFaults, \* failed saves and restarts so far
    rxSent,   \* history: did the command run on the host
    rxUsed    \* history: runbook dispatches on disk, by the revision of their grant

rxVars == <<rxCat, rxDisk, rxBroken, rxAt, rxCtx, rxRes, rxFire, rxLate, rxFaults,
            rxSent, rxUsed>>
rxCall == <<rxAt, rxCtx, rxRes, rxFire>>

RxNoExec == [req |-> "none", state |-> "none", hash |-> <<0, 0>>]
NoPreview == [hash |-> <<0, 0>>, exec |-> 0, made |-> FALSE]

RxInit ==
    /\ rxCat = [enabled |-> TRUE, policy |-> 0, granted |-> TRUE, grant |-> 0, uses |-> 0,
                preview |-> [r \in RxReqs |-> NoPreview],
                claim |-> [r \in RxReqs |-> FALSE],
                exec |-> [e \in RxExecs |-> RxNoExec]]
    /\ rxDisk = rxCat
    /\ rxBroken = FALSE /\ rxLate = {} /\ rxFaults = 0
    /\ rxUsed = [p \in 0..RxMaxPolicy |-> 0]
    /\ rxAt = [e \in RxExecs |-> "none"] /\ rxCtx = {} /\ rxFire = {}
    /\ rxRes = [e \in RxExecs |-> "none"]
    /\ rxSent = [e \in RxExecs |-> FALSE]

-----------------------------------------------------------------------------
(* save, and the conditions the requests share.                             *)

\* The file is replaced and synced.
RxSaved(cat) == rxCat' = cat /\ rxDisk' = cat /\ UNCHANGED <<rxBroken, rxFaults>>

\* It could not be written, or was renamed and the directory not synced; the
\* catalog in memory keeps the change either way.
RxSaveFails(cat) ==
    /\ rxFaults < RxMaxFaults /\ rxFaults' = rxFaults + 1
    /\ rxCat' = cat /\ rxBroken' = TRUE
    /\ rxDisk' \in {rxDisk, cat}

\* plan's refusals, and what it hashes.
RxPlans(r) == /\ rxCat.enabled /\ ~rxBroken
              /\ RxKind[r] = "firing" => rxCat.granted /\ rxCat.uses < RxMaxUses
PlanHash(r) == <<rxCat.policy, IF RxKind[r] = "firing" THEN rxCat.uses ELSE 0>>

RxLiveStates == {"awaiting_approval", "dispatch_started"}
RxLiveExecs(cat) == {e \in RxExecs : cat.exec[e].state \in RxLiveStates}
RxActive == {e \in RxExecs : rxAt[e] \in {"confirm", "run", "ran"}}

\* Mutant: the limit is compared with the wrong sign.
RxRoomOneMore == Cardinality(RxLiveExecs(rxCat)) <= RxSlots

\* The owner may have another execution.
RxRoom == Cardinality(RxLiveExecs(rxCat)) < RxSlots

RxRest == UNCHANGED <<rxLate, rxSent, rxUsed>>

-----------------------------------------------------------------------------
(* Preview, and the call that starts an execution.                          *)

RxPreview(r) ==
    /\ RxKind[r] = "approved" /\ ~rxCat.preview[r].made
    /\ RxPlans(r)
    /\ LET cat == [rxCat EXCEPT !.preview[r] =
                     [hash |-> PlanHash(r), exec |-> 0, made |-> TRUE]]
       IN RxSaved(cat) \/ RxSaveFails(cat)
    /\ UNCHANGED rxCall /\ RxRest

RxPreviewExpires(r) ==
    /\ rxCat.preview[r].made /\ r \notin rxLate
    /\ rxLate' = rxLate \union {r}
    /\ UNCHANGED <<rxCat, rxDisk, rxBroken, rxFaults, rxCall, rxSent, rxUsed>>

\* ExecuteScheduledRunbook claims the firing on disk before anything runs; a
\* firing that is claimed already only answers.
RxClaim(r) ==
    /\ RxKind[r] = "firing" /\ ~rxCat.claim[r]
    /\ LET cat == [rxCat EXCEPT !.claim[r] = TRUE]
       IN \/ RxSaved(cat) /\ rxFire' = rxFire \union {r}
          \/ RxSaveFails(cat) /\ UNCHANGED rxFire
    /\ UNCHANGED <<rxAt, rxCtx, rxRes>> /\ RxRest

\* The claimed firing is refused at once; the claim stays.
RxDenied(r) ==
    /\ r \in rxFire
    /\ ~RxPlans(r) \/ ~RxRoom
    /\ rxFire' = rxFire \ {r}
    /\ UNCHANGED <<rxCat, rxDisk, rxBroken, rxFaults, rxAt, rxCtx, rxRes>> /\ RxRest

\* The approval's own conditions: unused, in time, and for the present plan.
Approves(r) ==
    /\ rxCat.preview[r].made /\ rxCat.preview[r].exec = 0
    /\ r \notin rxLate /\ rxCat.preview[r].hash = PlanHash(r)

\* executeWithTransport up to the confirmation: the intent is on disk first.
RxBegin(r, e) ==
    /\ RxPlans(r)
    /\ RxKind[r] = "approved" => Approves(r)
    /\ RxKind[r] = "firing" => r \in rxFire
    /\ rxCat.exec[e].state = "none" /\ rxAt[e] = "none"
    /\ \A d \in RxExecs : d < e => rxCat.exec[d].state # "none"
    /\ RxRoom
    /\ LET cat == [rxCat EXCEPT
                     !.exec[e] = [req |-> r, state |-> "awaiting_approval",
                                  hash |-> PlanHash(r)],
                     !.preview[r].exec = IF RxKind[r] = "approved" THEN e ELSE @]
       IN \/ RxSaved(cat) /\ rxAt' = [rxAt EXCEPT ![e] = "confirm"]
          \/ RxSaveFails(cat) /\ rxAt' = [rxAt EXCEPT ![e] = "done"]
    /\ rxFire' = rxFire \ {r}
    /\ UNCHANGED <<rxCtx, rxRes>> /\ RxRest

-----------------------------------------------------------------------------
(* The confirmation, the dispatch and the result.                           *)

RxSetState(e, s) == [rxCat EXCEPT !.exec[e].state = s]
RxStep(e, pc) == rxAt' = [rxAt EXCEPT ![e] = pc]

\* Mutant: some plan is still possible.
StillApprovedPlans(e) == RxPlans(rxCat.exec[e].req)

\* The plan still has the hash the owner saw, and nobody cancelled.
StillApproved(e) ==
    LET x == rxCat.exec[e]
    IN RxPlans(x.req) /\ PlanHash(x.req) = x.hash /\ e \notin rxCtx

RxRefused(e) ==
    /\ rxAt[e] = "confirm"
    /\ ~StillApproved(e) \/ RxKind[rxCat.exec[e].req] = "asked"
    /\ LET cat == RxSetState(e, "cancelled") IN RxSaved(cat) \/ RxSaveFails(cat)
    /\ RxStep(e, "done")
    /\ UNCHANGED <<rxCtx, rxRes, rxFire>> /\ RxRest

\* A secret changed version or cannot be read.
RxNoCredential(e) ==
    /\ rxAt[e] = "confirm" /\ StillApproved(e)
    /\ LET cat == RxSetState(e, "failed") IN RxSaved(cat) \/ RxSaveFails(cat)
    /\ RxStep(e, "done")
    /\ UNCHANGED <<rxCtx, rxRes, rxFire>> /\ RxRest

RxFiring(e) == RxKind[rxCat.exec[e].req] = "firing"

\* The uses of the grant after a dispatch.
RxUses(e) == IF RxFiring(e) THEN rxCat.uses + 1 ELSE rxCat.uses

\* The use of the grant and dispatch_started are on disk before the command.
RxDispatch(e) ==
    /\ rxAt[e] = "confirm" /\ StillApproved(e)
    /\ LET cat == [RxSetState(e, "dispatch_started") EXCEPT !.uses = RxUses(e)]
       IN /\ \/ RxSaved(cat) /\ RxStep(e, "run")
             \/ RxSaveFails(cat) /\ RxStep(e, "done")
          /\ rxUsed' = IF RxFiring(e) /\ rxDisk' = cat
                        THEN [rxUsed EXCEPT ![rxCat.grant] = @ + 1] ELSE rxUsed
    /\ UNCHANGED <<rxCtx, rxRes, rxFire, rxLate, rxSent>>

\* transport.Run: it ended with a status, or after Dispatched the connection
\* was lost and the command may or may not have run, or never got that far.
RxRun(e) ==
    /\ rxAt[e] = "run"
    /\ \E res \in {"completed", "exit_failed", "unknown_outcome", "failed"} :
          /\ e \in rxCtx => res \in {"unknown_outcome", "failed"}
          /\ rxRes' = [rxRes EXCEPT ![e] = res]
          /\ \E ran \in CASE res = "failed" -> {FALSE}
                          [] res = "unknown_outcome" -> BOOLEAN
                          [] OTHER -> {TRUE} :
                rxSent' = [rxSent EXCEPT ![e] = ran]
    /\ RxStep(e, "ran")
    /\ UNCHANGED <<rxCat, rxDisk, rxBroken, rxFaults, rxCtx, rxFire, rxLate, rxUsed>>

RxFinish(e) ==
    /\ rxAt[e] = "ran"
    /\ LET cat == RxSetState(e, rxRes[e]) IN RxSaved(cat) \/ RxSaveFails(cat)
    /\ RxStep(e, "done")
    /\ UNCHANGED <<rxCtx, rxRes, rxFire>> /\ RxRest

-----------------------------------------------------------------------------
(* The owner's changes, cancellation and restart.                           *)

\* Every change of the catalog makes older plans differ, and cancels the
\* running work of the owner.
RxChanged(cat) ==
    /\ rxCat.policy < RxMaxPolicy
    /\ LET new == [cat EXCEPT !.policy = @ + 1] IN RxSaved(new) \/ RxSaveFails(new)
    /\ rxCtx' = rxCtx \union RxActive
    /\ UNCHANGED <<rxAt, rxRes, rxFire>> /\ RxRest

\* PutServer, PutIdentity, PutRoute, CredentialChanged.
RxPut == RxChanged(rxCat)

\* PutGrant renews the uses of the runbook, at the revision it makes.
RxPutGrant ==
    RxChanged([rxCat EXCEPT !.granted = TRUE, !.uses = 0, !.grant = rxCat.policy + 1])

\* PutRunbook outdates the grant of the revision before.
RxPutRunbook ==
    /\ rxCat.granted
    /\ RxChanged([rxCat EXCEPT !.granted = FALSE])

RxSetEnabled(on) ==
    /\ rxCat.policy < RxMaxPolicy /\ on # rxCat.enabled
    /\ on => ~rxBroken
    /\ LET cat == [rxCat EXCEPT !.enabled = on, !.policy = @ + 1]
       IN RxSaved(cat) \/ RxSaveFails(cat)
    /\ rxCtx' = IF on THEN rxCtx ELSE rxCtx \union RxActive
    /\ UNCHANGED <<rxAt, rxRes, rxFire>> /\ RxRest

\* Cancel, the deadline of the run, or the account check of a running call.
RxCancel(e) ==
    /\ e \in RxActive \ rxCtx
    /\ rxCtx' = rxCtx \union {e}
    /\ UNCHANGED <<rxCat, rxDisk, rxBroken, rxFaults, rxAt, rxRes, rxFire>> /\ RxRest

\* Mutant: what was dispatched is cancelled.
RxReopenedCancelled(cat) ==
    [cat EXCEPT !.exec = [e \in RxExecs |->
        [cat.exec[e] EXCEPT !.state = IF @ \in RxLiveStates THEN "cancelled" ELSE @]]]

\* NewService after a crash or Close: what was dispatched is unknown, what was
\* only asked is cancelled.
RxReopened(cat) ==
    [cat EXCEPT !.exec = [e \in RxExecs |->
        [cat.exec[e] EXCEPT !.state =
            CASE @ = "dispatch_started" -> "unknown_outcome"
              [] @ = "awaiting_approval" -> "cancelled"
              [] OTHER -> @]]]

RxRestart ==
    /\ rxFaults < RxMaxFaults /\ rxFaults' = rxFaults + 1
    /\ rxCat' = RxReopened(rxDisk) /\ rxDisk' = rxCat'
    /\ rxBroken' = FALSE
    /\ rxAt' = [e \in RxExecs |-> IF rxAt[e] = "none" THEN "none" ELSE "done"]
    /\ rxCtx' = {} /\ rxFire' = {}
    /\ UNCHANGED <<rxRes, rxLate, rxSent, rxUsed>>

RxNext ==
    \/ \E r \in RxReqs : RxPreview(r) \/ RxPreviewExpires(r)
                          \/ RxClaim(r) \/ RxDenied(r)
    \/ \E r \in RxReqs, e \in RxExecs : RxBegin(r, e)
    \/ \E e \in RxExecs : \/ RxRefused(e) \/ RxNoCredential(e) \/ RxDispatch(e)
                          \/ RxRun(e) \/ RxFinish(e) \/ RxCancel(e)
    \/ RxPut \/ RxPutGrant \/ RxPutRunbook \/ RxRestart
    \/ \E on \in BOOLEAN : RxSetEnabled(on)

RxSpec == RxInit /\ [][RxNext]_rxVars

-----------------------------------------------------------------------------
(* Properties.                                                              *)

RxStates == {"none", "awaiting_approval", "dispatch_started", "completed",
             "exit_failed", "failed", "cancelled", "unknown_outcome"}

\* The catalog, the file and the calls have their types, and an owner never
\* has more executions under way than the limit.
RxTypeOK ==
    /\ \A cat \in {rxCat, rxDisk} :
          /\ cat.enabled \in BOOLEAN /\ cat.policy \in 0..RxMaxPolicy
          /\ cat.granted \in BOOLEAN /\ cat.uses \in Nat /\ cat.grant \in 0..cat.policy
          /\ \A e \in RxExecs : cat.exec[e].state \in RxStates
          /\ Cardinality(RxLiveExecs(cat)) <= RxSlots
    /\ rxAt \in [RxExecs -> {"none", "confirm", "run", "ran", "done"}]
    /\ rxCtx \subseteq RxExecs /\ rxFire \subseteq RxReqs /\ rxLate \subseteq RxReqs

\* One approval, and one firing of a schedule, run a command on the host at
\* most once: over repeated calls, redelivered firings, failed saves and
\* restarts (service.go's stored approval, runbooks.go's claim).
RxOnce ==
    \A r \in RxReqs : RxKind[r] # "asked" =>
        Cardinality({e \in RxExecs : rxSent[e] /\ rxDisk.exec[e].req = r}) <= 1

\* The file never denies what happened: a command that ran is recorded there
\* as dispatched, finished or unknown, also when the save that should have
\* told its result failed, so a restart cannot call it cancelled.
RxTruthful ==
    \A e \in RxExecs : rxSent[e] =>
        rxDisk.exec[e].state \in {"dispatch_started", "completed", "exit_failed",
                                  "unknown_outcome"}

\* A standing grant never dispatches a runbook more often than its uses, which
\* are on disk before the command: no restart gives a use back.
RxUsesBounded == \A p \in 0..RxMaxPolicy : rxUsed[p] <= RxMaxUses

\* A command is dispatched only under the plan its owner saw, although the
\* plan was made two lock periods earlier: nothing was changed in between.
RxUnderSeenPlan ==
    [][\A r \in RxReqs : \A e \in RxExecs :
          /\ RxKind[r] = "approved" /\ rxAt[e] = "confirm" /\ rxAt'[e] = "run"
          /\ rxCat.exec[e].req = r
          => /\ rxCat.preview[r].hash = <<rxCat.policy, 0>>
             /\ rxCat.enabled /\ ~rxBroken]_rxVars

\* An execution does not keep its slot: it settles, or a failed save has
\* stopped the service.
RxSettles ==
    \A e \in RxExecs : (rxCat.exec[e].state \in RxLiveStates)
                          ~> (rxBroken \/ rxCat.exec[e].state \notin RxLiveStates)

\* What the service keeps over repeated calls, failed saves and restarts: one
\* command per approval, a file that does not deny it, no use given back.
RxSafe == RxOnce /\ RxTruthful /\ RxUsesBounded
=============================================================================
