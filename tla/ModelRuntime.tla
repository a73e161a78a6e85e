---------------------------- MODULE ModelRuntime ----------------------------
(***************************************************************************)
(* The model runtime: a model's credential and routing policy, drafted,    *)
(* checked with live calls, activated and revoked while calls use them.    *)
(* Code: internal/modelruntime.                                            *)
(*                                                                         *)
(* One managed provider (its endpoint is pinned) with one profile, so that *)
(* one check runs at a time and only the last row of Probes matters.  A    *)
(* generation stands for the fingerprint of profile and connection.  Every *)
(* operation works under one mutex on a copy of the state, which it saves  *)
(* before it adopts it; checks and calls run outside the mutex.            *)
(***************************************************************************)
EXTENDS Naturals, FiniteSets

CONSTANTS
    MrAdmins,    \* the administrators
    MrKeys,      \* credentials
    MrFirst,     \* the credential that startup imports
    MrKinds,     \* the checks a profile must pass, "text" and "tools" in the code
    MrCalls,     \* calls to the model: turns of the assistant, translations
    MrMaxGen,    \* bound: generations
    MrMaxStages, \* bound: drafts
    MrMaxChecks, \* bound: checks
    MrMaxFaults  \* bound: failed saves, crashes, lost rights, failed publications

MrGens == 1 .. MrMaxGen

ASSUME MrAssumption == /\ MrFirst \in MrKeys /\ MrKinds # {}
                       /\ {MrMaxGen, MrMaxStages, MrMaxChecks} \subseteq Nat \ {0}
                       /\ MrMaxFaults \in Nat

VARIABLES
    mrMem,    \* Manager.state ...
    mrDisk,   \* ... and as stored
    mrGen,    \* the last generation, stage id and check drawn
    mrUp,     \* "open", "closed"
    mrRights, \* who is still an administrator
    mrCheck,  \* runProbe of the check in Probes
    mrCall,   \* the calls
    mrRoute,  \* what the router was given: revision and generation
    mrStatus, \* activationStatus
    mrFaults,
    mrProven  \* history: <<generation, kind>> that answered a check

mrVars == <<mrMem, mrDisk, mrGen, mrUp, mrRights, mrCheck, mrCall, mrRoute, mrStatus,
            mrFaults, mrProven>>

MrNoStage == [id |-> 0, actor |-> "none", base |-> 0, gen |-> 0, key |-> MrFirst,
              evid |-> {}, late |-> FALSE]
MrNoCheck == [state |-> "none", gen |-> 0, stage |-> 0, kind |-> "none", actor |-> "none"]
\* Of a settled check only its outcome is kept.
MrSettled(st) == [MrNoCheck EXCEPT !.state = st]
MrNoRun   == [pc |-> "none", cut |-> FALSE, pass |-> FALSE, auth |-> FALSE]
MrNoCall  == [pc |-> "idle", gen |-> 0, cut |-> FALSE]
MrOver    == [MrNoCall EXCEPT !.pc = "done"]

MrInit ==
    /\ mrMem = [rev |-> 0, assigned |-> FALSE, gen |-> 1, key |-> MrFirst, on |-> TRUE,
                denied |-> {}, retired |-> {}, evid |-> {}, stage |-> MrNoStage,
                check |-> MrNoCheck]
    /\ mrDisk = mrMem
    /\ mrGen = [gen |-> 1, stage |-> 0, check |-> 0]
    /\ mrUp = "open" /\ mrRights = MrAdmins
    /\ mrCheck = MrNoRun
    /\ mrCall = [c \in MrCalls |-> MrNoCall]
    /\ mrRoute = [rev |-> 0, gen |-> 1] /\ mrStatus = "applied"
    /\ mrFaults = 0 /\ mrProven = {}

MrFault == mrFaults < MrMaxFaults /\ mrFaults' = mrFaults + 1

\* persistLocked succeeds, also when only its answer is lost.
MrAdopted(s) == mrMem' = s /\ mrDisk' = s
MrSaved(s) == MrAdopted(s) /\ UNCHANGED mrFaults

\* It fails; the row may have been written all the same.
MrNotSaved(s) ==
    /\ MrFault
    /\ mrDisk' \in {mrDisk, s}
    /\ UNCHANGED <<mrMem, mrUp, mrRights, mrCheck, mrCall, mrRoute, mrStatus, mrProven>>

MrRunning == {"running", "cancel_requested"}

MrChecking == mrCheck.pc \in {"start", "asked", "answered"}

MrMayAct(a) == mrUp = "open" /\ a \in mrRights

MrStageLive == mrMem.stage.id # 0 /\ ~mrMem.stage.late

\* stageLocked
MrOwnStage(a) == MrStageLive /\ mrMem.stage.actor = a /\ mrMem.stage.base = mrMem.rev

-----------------------------------------------------------------------------
(* Drafts.                                                                 *)

\* Stage and StageHistory: a draft with the credential k, which gets a new
\* generation unless it is the one the draft is based on.
MrStage(a, k) ==
    /\ MrMayAct(a)
    /\ MrStageLive => /\ MrOwnStage(a)
                      /\ mrMem.check.stage = mrMem.stage.id => mrMem.check.state \notin MrRunning
    /\ LET own  == MrStageLive
           old  == IF own THEN [gen |-> mrMem.stage.gen, key |-> mrMem.stage.key, on |-> TRUE]
                   ELSE [gen |-> mrMem.gen, key |-> mrMem.key, on |-> mrMem.on]
           keep == k = old.key /\ old.on
           g    == IF keep THEN old.gen ELSE mrGen.gen + 1
           s    == [mrMem EXCEPT !.stage =
                       [id |-> mrGen.stage + 1, actor |-> a, base |-> mrMem.rev, gen |-> g,
                        key |-> k, evid |-> IF own THEN mrMem.stage.evid ELSE mrMem.evid,
                        late |-> FALSE]]
       IN /\ (~keep) => k \notin mrMem.retired
          /\ g \in MrGens \ mrMem.denied
          /\ mrGen.stage < MrMaxStages
          /\ mrGen' = [mrGen EXCEPT !.gen = IF keep THEN @ ELSE g, !.stage = @ + 1]
          /\ \/ /\ MrSaved(s)
                /\ UNCHANGED <<mrUp, mrRights, mrCheck, mrCall, mrRoute, mrStatus, mrProven>>
             \/ MrNotSaved(s)

\* StageTTL passes.
MrStageExpires ==
    /\ MrStageLive
    /\ mrMem' = [mrMem EXCEPT !.stage.late = TRUE]
    /\ mrDisk' = [mrDisk EXCEPT !.stage.late = @ \/ mrDisk.stage.id = mrMem.stage.id]
    /\ UNCHANGED <<mrGen, mrUp, mrRights, mrCheck, mrCall, mrRoute, mrStatus, mrFaults, mrProven>>

\* cancelDeniedLocked, in the state s.
MrCutCheck(s) == [mrCheck EXCEPT !.cut = @ \/
    /\ MrChecking
    /\ \/ s.check.gen \in s.denied
       \/ s.check.stage # 0 /\ s.check.stage # s.stage.id]
\* Mutant: calls that were admitted go on.
MrCutCallsBound(s) == [c \in MrCalls |->
    [mrCall[c] EXCEPT !.cut = mrCall[c].pc = "bound" /\ mrCall[c].gen \in s.denied]]

MrCutCalls(s) == [c \in MrCalls |->
    IF mrCall[c].pc = "admitted" /\ mrCall[c].gen \in s.denied
    THEN [mrCall[c] EXCEPT !.cut = TRUE] ELSE mrCall[c]]

\* The policy is published to the router, or that fails.
MrPublish(s, g) ==
    \/ /\ mrRoute' = [rev |-> s.rev, gen |-> g]
       /\ mrStatus' = "applied"
       /\ UNCHANGED mrFaults
    \/ /\ MrFault
       /\ mrStatus' = "failed"
       /\ UNCHANGED mrRoute

\* Activate: the draft's generation has passed every check.
MrActivate(a) ==
    /\ MrMayAct(a) /\ MrOwnStage(a)
    /\ LET st == mrMem.stage
           s  == [mrMem EXCEPT !.rev = @ + 1, !.assigned = TRUE, !.gen = st.gen, !.key = st.key,
                     !.on = TRUE, !.evid = st.evid, !.stage = MrNoStage,
                     !.denied  = IF st.gen = mrMem.gen THEN @ ELSE @ \union {mrMem.gen},
                     !.retired = IF st.gen = mrMem.gen THEN @ ELSE @ \union {mrMem.key}]
       IN /\ {st.gen} \X MrKinds \subseteq st.evid
          /\ \/ /\ MrAdopted(s)
                /\ mrCheck' = MrCutCheck(s) /\ mrCall' = MrCutCalls(s)
                /\ MrPublish(s, s.gen)
                /\ UNCHANGED <<mrUp, mrRights, mrProven>>
             \/ MrNotSaved(s)
    /\ UNCHANGED mrGen

\* Discard
MrDiscard(a) ==
    /\ MrMayAct(a) /\ MrOwnStage(a)
    /\ LET s == [mrMem EXCEPT !.stage = MrNoStage] IN
       \/ /\ MrSaved(s)
          /\ mrCheck' = [mrCheck EXCEPT !.cut = @ \/
                            (MrChecking /\ mrMem.check.stage = mrMem.stage.id)]
          /\ UNCHANGED <<mrUp, mrRights, mrCall, mrRoute, mrStatus, mrProven>>
       \/ MrNotSaved(s)
    /\ UNCHANGED mrGen

\* Revoke: the credential in use is denied, and no draft survives.  The
\* router keeps its bindings, which are refused from now on.
MrRevoke(a) ==
    /\ MrMayAct(a) /\ mrMem.on
    /\ LET s == [mrMem EXCEPT !.rev = @ + 1, !.on = FALSE, !.denied = @ \union {mrMem.gen},
                              !.retired = @ \union {mrMem.key}, !.stage = MrNoStage] IN
       \/ /\ MrAdopted(s)
          /\ mrCheck' = MrCutCheck(s) /\ mrCall' = MrCutCalls(s)
          /\ \/ mrMem.assigned /\ MrPublish(s, mrRoute.gen)
             \/ /\ ~mrMem.assigned
                /\ mrStatus' = "applied"
                /\ UNCHANGED <<mrRoute, mrFaults>>
          /\ UNCHANGED <<mrUp, mrRights, mrProven>>
       \/ MrNotSaved(s)
    /\ UNCHANGED mrGen

-----------------------------------------------------------------------------
(* Checks.                                                                 *)

\* Probe of the draft, or of the policy in use: recorded before it runs.
MrProbe(a, kind, draft) ==
    /\ MrMayAct(a)
    /\ ~MrChecking /\ mrGen.check < MrMaxChecks
    /\ IF draft THEN MrOwnStage(a) ELSE mrMem.assigned /\ mrMem.on
    /\ LET g == IF draft THEN mrMem.stage.gen ELSE mrMem.gen
           s == [mrMem EXCEPT !.check = [state |-> "running", gen |-> g, kind |-> kind, actor |-> a,
                                         stage |-> IF draft THEN mrMem.stage.id ELSE 0]]
       IN /\ g \notin mrMem.denied
          /\ mrGen' = [mrGen EXCEPT !.check = @ + 1]
          /\ \/ /\ MrSaved(s)
                /\ mrCheck' = [MrNoRun EXCEPT !.pc = "start"]
                /\ UNCHANGED <<mrUp, mrRights, mrCall, mrRoute, mrStatus, mrProven>>
             \/ MrNotSaved(s)

\* admitLocked, for a call of generation g and, of a check, its draft.
MrAdmits(g, stage) ==
    /\ mrUp = "open" /\ g \notin mrMem.denied
    /\ IF stage = 0 THEN mrMem.on /\ mrMem.gen = g
       ELSE /\ MrStageLive /\ mrMem.stage.id = stage
            /\ mrMem.stage.base = mrMem.rev /\ mrMem.stage.gen = g

\* The check calls the model, unless it is refused or cancelled.
MrAsk ==
    LET r == mrMem.check IN
    /\ mrCheck.pc = "start"
    /\ mrCheck' = [mrCheck EXCEPT !.pc =
          IF r.actor \in mrRights /\ ~mrCheck.cut /\ MrAdmits(r.gen, r.stage)
          THEN "asked" ELSE "answered"]
    /\ UNCHANGED <<mrMem, mrDisk, mrGen, mrUp, mrRights, mrCall, mrRoute, mrStatus, mrFaults, mrProven>>

\* The model's answers are good or not; the administrator's rights are read
\* once more.
MrAnswered ==
    LET r == mrMem.check IN
    /\ mrCheck.pc = "asked"
    /\ \E good \in BOOLEAN :
          /\ mrCheck' = [mrCheck EXCEPT !.pc = "answered", !.auth = r.actor \in mrRights,
                                        !.pass = good /\ ~mrCheck.cut]
          /\ mrProven' = IF good THEN mrProven \union {<<r.gen, r.kind>>} ELSE mrProven
    /\ UNCHANGED <<mrMem, mrDisk, mrGen, mrUp, mrRights, mrCall, mrRoute, mrStatus, mrFaults>>

\* The context of a check reaches its deadline.
MrDeadline ==
    /\ MrChecking /\ ~mrCheck.cut
    /\ mrCheck' = [mrCheck EXCEPT !.cut = TRUE]
    /\ UNCHANGED <<mrMem, mrDisk, mrGen, mrUp, mrRights, mrCall, mrRoute, mrStatus, mrFaults, mrProven>>

MrStillValid ==
    LET r == mrMem.check IN
    /\ mrCheck.auth /\ ~mrCheck.cut
    /\ r.gen \notin mrMem.denied
    /\ r.state # "cancel_requested"
    /\ IF r.stage = 0 THEN mrMem.on /\ mrMem.gen = r.gen
       ELSE /\ MrOwnStage(r.actor) /\ mrMem.stage.id = r.stage
            /\ mrMem.stage.gen = r.gen

MrPassed == mrCheck.pass /\ MrStillValid

\* The end of runProbe: a good result counts for what it was asked of, if
\* that is still current; a result that cannot be saved is not shown.
MrFinish ==
    LET r    == mrMem.check
        good == MrPassed
        new  == IF good THEN {<<r.gen, r.kind>>} ELSE {}
        st   == CASE good -> "completed"
                  [] ~good /\ (mrCheck.cut \/ r.state = "cancel_requested") -> "cancelled"
                  [] OTHER -> "failed"
        s    == IF r.stage = 0 THEN [mrMem EXCEPT !.check = MrSettled(st), !.evid = @ \union new]
                ELSE [mrMem EXCEPT !.check = MrSettled(st), !.stage.evid = @ \union new]
    IN
    /\ mrCheck.pc = "answered"
    /\ mrCheck' = MrNoRun
    /\ \/ mrUp = "open" /\ MrSaved(s)
       \/ /\ mrUp = "open" /\ MrFault
          /\ mrMem' = [mrMem EXCEPT !.check = MrSettled("interrupted")]
          /\ mrDisk' \in {mrDisk, s}
       \/ mrUp = "closed" /\ UNCHANGED <<mrMem, mrDisk, mrFaults>>
    /\ UNCHANGED <<mrGen, mrUp, mrRights, mrCall, mrRoute, mrStatus, mrProven>>

\* CancelProbe
MrCancel ==
    /\ MrMayAct(mrMem.check.actor)
    /\ mrMem.check.state = "running"
    /\ LET s == [mrMem EXCEPT !.check.state = "cancel_requested"] IN
       \/ /\ MrSaved(s)
          /\ mrCheck' = [mrCheck EXCEPT !.cut = TRUE]
          /\ UNCHANGED <<mrUp, mrRights, mrCall, mrRoute, mrStatus, mrProven>>
       \/ MrNotSaved(s)
    /\ UNCHANGED mrGen

-----------------------------------------------------------------------------
(* Calls.                                                                  *)

\* A call picks its binding from the router's snapshot ...
MrResolve(c) ==
    /\ mrCall[c].pc = "idle"
    /\ mrCall' = [mrCall EXCEPT ![c] = [pc |-> "bound", gen |-> mrRoute.gen, cut |-> FALSE]]
    /\ UNCHANGED <<mrMem, mrDisk, mrGen, mrUp, mrRights, mrCheck, mrRoute, mrStatus, mrFaults, mrProven>>

\* ... and asks to be admitted later (guardedProvider).
MrAdmit(c) ==
    /\ mrCall[c].pc = "bound"
    /\ mrCall' = [mrCall EXCEPT ![c] = IF MrAdmits(mrCall[c].gen, 0) THEN [mrCall[c] EXCEPT !.pc = "admitted"]
                                       ELSE MrOver]
    /\ UNCHANGED <<mrMem, mrDisk, mrGen, mrUp, mrRights, mrCheck, mrRoute, mrStatus, mrFaults, mrProven>>

\* WithOperationConnection: the connection in use, admitted under one lock.
MrOperate(c) ==
    /\ mrCall[c].pc = "idle" /\ MrAdmits(mrMem.gen, 0)
    /\ mrCall' = [mrCall EXCEPT ![c] = [pc |-> "admitted", gen |-> mrMem.gen, cut |-> FALSE]]
    /\ UNCHANGED <<mrMem, mrDisk, mrGen, mrUp, mrRights, mrCheck, mrRoute, mrStatus, mrFaults, mrProven>>

MrReturn(c) ==
    /\ mrCall[c].pc = "admitted"
    /\ mrCall' = [mrCall EXCEPT ![c] = MrOver]
    /\ UNCHANGED <<mrMem, mrDisk, mrGen, mrUp, mrRights, mrCheck, mrRoute, mrStatus, mrFaults, mrProven>>

-----------------------------------------------------------------------------
(* The process.                                                            *)

MrInterrupted(s) ==
    IF s.check.state \in MrRunning THEN [s EXCEPT !.check = MrSettled("interrupted")] ELSE s

\* Close adopts the interruption even if it cannot be saved.
MrClose ==
    /\ mrUp = "open"
    /\ mrUp' = "closed"
    /\ mrMem' = MrInterrupted(mrMem)
    /\ \/ mrDisk' = mrMem' /\ UNCHANGED mrFaults
       \/ MrFault /\ UNCHANGED mrDisk
    /\ mrCheck' = [mrCheck EXCEPT !.cut = @ \/ MrChecking]
    /\ mrCall' = [c \in MrCalls |-> [mrCall[c] EXCEPT !.cut = @ \/ mrCall[c].pc = "admitted"]]
    /\ UNCHANGED <<mrGen, mrRights, mrRoute, mrStatus, mrProven>>

\* New, after Close or a crash; startup then seeds the configured credential
\* k, which replaces the stored one only while nothing is managed.
MrRestart(k) ==
    /\ \/ mrUp = "closed" /\ UNCHANGED mrFaults
       \/ mrUp = "open" /\ MrFault
    /\ mrUp' = "open"
    /\ LET i == MrInterrupted(mrDisk)
           s == IF i.stage.late THEN [i EXCEPT !.stage = MrNoStage] ELSE i
           n == [s EXCEPT !.gen = mrGen.gen + 1, !.key = k, !.on = TRUE,
                          !.denied = @ \union {s.gen}, !.retired = @ \union {s.key}]
       IN /\ \/ k = s.key /\ mrMem' = s /\ UNCHANGED mrGen
             \/ /\ k # s.key /\ ~s.assigned /\ s.stage.id = 0 /\ k \notin s.retired
                /\ mrGen.gen < MrMaxGen
                /\ mrMem' = n /\ mrGen' = [mrGen EXCEPT !.gen = @ + 1]
          /\ mrDisk' = mrMem'
    /\ mrCheck' = MrNoRun
    /\ mrCall' = [c \in MrCalls |-> IF mrCall[c].pc = "idle" THEN MrNoCall
                                    ELSE MrOver]
    /\ mrRoute' = [rev |-> mrMem'.rev, gen |-> mrMem'.gen]
    /\ mrStatus' = "applied"
    /\ UNCHANGED <<mrRights, mrProven>>

\* An administrator loses the role.
MrDemoted(a) ==
    /\ a \in mrRights /\ MrFault
    /\ mrRights' = mrRights \ {a}
    /\ UNCHANGED <<mrMem, mrDisk, mrGen, mrUp, mrCheck, mrCall, mrRoute, mrStatus, mrProven>>

MrRun == MrAsk \/ MrAnswered \/ MrFinish

MrNext ==
    \/ \E a \in MrAdmins :
          \/ MrActivate(a) \/ MrDiscard(a) \/ MrRevoke(a) \/ MrDemoted(a)
          \/ \E k \in MrKeys : MrStage(a, k)
          \/ \E kind \in MrKinds, draft \in BOOLEAN : MrProbe(a, kind, draft)
    \/ MrRun \/ MrDeadline \/ MrCancel
    \/ \E c \in MrCalls : MrResolve(c) \/ MrAdmit(c) \/ MrOperate(c) \/ MrReturn(c)
    \/ \E k \in MrKeys : MrRestart(k)
    \/ MrStageExpires \/ MrClose

MrSpec == MrInit /\ [][MrNext]_mrVars

-----------------------------------------------------------------------------
(* Properties.                                                             *)

MrStateType(s) ==
    /\ s.rev \in Nat /\ s.gen \in MrGens /\ s.key \in MrKeys
    /\ s.denied \subseteq MrGens /\ s.retired \subseteq MrKeys
    /\ s.evid \subseteq MrGens \X MrKinds
    /\ s.stage.gen \in MrGens \union {0} /\ s.stage.base <= s.rev
    /\ s.check.state \in
          {"none", "completed", "cancelled", "failed", "interrupted"} \union MrRunning

\* The state in memory and the stored one, the check and the calls have
\* their types.
MrTypeOK ==
    /\ MrStateType(mrMem) /\ MrStateType(mrDisk)
    /\ mrUp \in {"open", "closed"} /\ mrStatus \in {"applied", "failed"}
    /\ mrCheck.pc \in {"none", "start", "asked", "answered"}
    /\ \A c \in MrCalls : mrCall[c].pc \in {"idle", "bound", "admitted", "done"}

\* A managed policy runs on a generation that itself answered every kind of
\* check: no late answer for an earlier draft, none carried over when the
\* credential changed, none from a check whose row was not saved.
MrProvenFirst == mrMem.assigned => {mrMem.gen} \X MrKinds \subseteq mrProven

\* Once a generation is denied, no call with it is left uncancelled, and it
\* is neither in use nor in a draft.
MrDeniedStops ==
    /\ \A c \in MrCalls : mrCall[c].pc = "admitted" /\ mrCall[c].gen \in mrMem.denied => mrCall[c].cut
    /\ mrCheck.pc = "asked" /\ mrMem.check.gen \in mrMem.denied => mrCheck.cut
    /\ mrMem.on => mrMem.gen \notin mrMem.denied
    /\ mrMem.stage.gen \notin mrMem.denied

\* A deny that took effect is never forgotten: not by a restart, a write
\* whose answer was lost or a restored policy.
MrDenyIsFinal == [][/\ mrMem.denied \subseteq mrMem'.denied
                    /\ mrMem.retired \subseteq mrMem'.retired]_mrVars

\* "applied" is the truth: the router has the stored policy.
MrAppliedTruthful == mrStatus = "applied" /\ mrMem.assigned =>
    mrRoute.rev = mrMem.rev /\ (mrMem.on => mrRoute.gen = mrMem.gen)

\* A check that was started is settled, also over a shutdown or a crash.
MrCheckSettles ==
    mrMem.check.state \in MrRunning ~> mrMem.check.state \notin MrRunning

\* What is in use was proven, nothing denied goes on, and the status is true,
\* however checks, activations, revocations, failed saves and crashes overlap.
MrSafe == MrProvenFirst /\ MrDeniedStops /\ MrAppliedTruthful
=============================================================================
