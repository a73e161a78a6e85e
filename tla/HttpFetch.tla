----------------------------- MODULE HttpFetch -----------------------------
(***************************************************************************)
(* The HTTP tool: runs of plans of several requests, the consents they     *)
(* need, redirects, downloads and the permits they share.                  *)
(* Code: internal/httpfetch (engine.go, steps.go, consent.go, redirect.go, *)
(* body.go, download.go, read.go, extract.go).                             *)
(*                                                                         *)
(* The runs are those of one user.  A server answers what it likes: any    *)
(* status, any Location, a body of any size.  The user may answer a        *)
(* question either way or let it expire.                                   *)
(***************************************************************************)
EXTENDS Naturals, Sequences, FiniteSets

CONSTANTS
    HtRuns,        \* calls of Run
    HtPlan,        \* their validated plans
    HtBackground,  \* the runs in which nobody can be asked
    HtOrigins,     \* exact origins ...
    HtPlain,       \* ... and those that are plain http
    HtMaxHops,     \* MaxRedirects
    HtSlots,       \* MaxTransfersGlobal
    HtUserMax,     \* MaxTransfersUser
    HtWriters,     \* MaxDownloadWriters
    HtPending,     \* MaxPendingGlobal
    HtAskAt,       \* ConsentThresholdBytes, in blocks
    HtCap          \* MaxDownloadBytes

HtSecrets == {"key", "var"}  \* a credential or inline secret, and an extracted variable

HtSteps == [to : HtOrigins \union {"location"}, mut : BOOLEAN, secrets : SUBSET HtSecrets,
            follow : BOOLEAN, get : {"inline", "download"}, takes : BOOLEAN,
            onError : BOOLEAN]

\* What Validate accepts: a variable is used only after the step that extracts
\* it, and "var" stands for one extracted value (the next one is another secret).
ASSUME HtAssumption ==
    /\ HtCap \in Nat /\ HtAskAt \in Nat
    /\ \A r \in HtRuns : HtPlan[r] \in Seq(HtSteps) /\ HtPlan[r] # <<>>
    /\ \A r \in HtRuns : \A i, j \in DOMAIN HtPlan[r] :
          HtPlan[r][i].takes /\ "var" \in HtPlan[r][j].secrets => i < j

HtOutcomes == {"completed", "http_error", "policy_denied", "validation_error", "declined",
               "timed_out", "cancelled", "confirmation_required", "quota_exceeded",
               "transport_error", "outcome_unknown"}

VARIABLES
    htRun,     \* runState and the position of each run
    htOn,      \* Engine.enabled
    htGrants,  \* standing grants of the user: origins, or "all"
    htSent,    \* history: requests that left, with the secrets they carried
    htSaid,    \* history: what the user said yes to
    htDoubt    \* history: mutations that left and were never answered

htVars == <<htRun, htOn, htGrants, htSent, htSaid, htDoubt>>

HtFresh == [pc |-> "next", step |-> 1, org |-> "none", hops |-> 0, perm |-> FALSE,
            bind |-> [k \in HtSecrets |-> "none"], egress |-> {}, plain |-> {},
            loc |-> "none", good |-> TRUE, declared |-> 0, size |-> 0, limit |-> HtCap,
            asked |-> FALSE, out |-> "none"]

HtInit ==
    /\ htRun = [r \in HtRuns |-> HtFresh]
    /\ htOn = TRUE /\ htGrants = {} /\ htSent = {} /\ htSaid = {} /\ htDoubt = {}

HtStepOf(r) == HtPlan[r][htRun[r].step]

\* The runs that hold a transfer permit, a writer's, a paused stream's.
HtBusy    == {r \in HtRuns : htRun[r].pc \in {"send", "wait", "body", "big", "open", "read",
                                              "pause"}}
HtWriting == {r \in HtRuns : htRun[r].pc \in {"read", "pause"}}
HtPaused  == {r \in HtRuns : htRun[r].pc = "pause"}

\* A step that is neither completed nor an accepted HTTP error ends the run;
\* what it held is released.
HtEnds(r, out) == htRun' = [htRun EXCEPT ![r] = [@ EXCEPT !.pc = "done", !.out = out,
                                                       !.declared = 0]]

HtKeeps == UNCHANGED <<htOn, htGrants, htSent, htSaid, htDoubt>>

\* Mutant: a secret is bound anew by every step that sends it.
HtBoundAnew(r, o) == [k \in HtSecrets |-> IF k \in HtStepOf(r).secrets THEN o ELSE htRun[r].bind[k]]

\* secretBinding: the first origin a secret is used with; a variable has the
\* one it came from.
HtBound(r, o) == [k \in HtSecrets |->
                    IF k \in HtStepOf(r).secrets /\ htRun[r].bind[k] = "none" THEN o
                    ELSE htRun[r].bind[k]]

HtTarget(r) == IF HtStepOf(r).to = "location" THEN htRun[r].loc ELSE HtStepOf(r).to

\* runStep up to the consents: the switch, the target and its validation,
\* the secrets in play.
HtPrepare(r) ==
    /\ htRun[r].pc = "next"
    /\ \/ ~htOn /\ HtEnds(r, "policy_denied")
       \/ htOn /\ HtTarget(r) = "none" /\ HtEnds(r, "validation_error")
       \/ htOn /\ HtTarget(r) # "none" /\ HtEnds(r, "policy_denied")
       \/ /\ htOn /\ HtTarget(r) # "none"
          /\ htRun' = [htRun EXCEPT ![r] =
                         [@ EXCEPT !.pc = "clear", !.org = HtTarget(r), !.hops = 0,
                                   !.perm = FALSE, !.bind = HtBound(r, HtTarget(r)),
                                   !.size = 0, !.limit = HtCap, !.asked = FALSE]]
    /\ HtKeeps

\* The pairs of origins that a step would carry a secret over, unapproved.
HtLeaks(r) == {<<htRun[r].bind[k], htRun[r].org>> : k \in HtStepOf(r).secrets}
                \ (htRun[r].egress \union {<<htRun[r].org, htRun[r].org>>})

\* The next consent that a step needs, in the code's order.
HtNeeds(r) ==
    IF htRun[r].org \in HtPlain \ htRun[r].plain /\ HtStepOf(r).secrets # {} THEN "plain"
    ELSE IF HtLeaks(r) # {} THEN "egress"
    ELSE IF HtStepOf(r).mut /\ ~htRun[r].perm THEN "mutation"
    ELSE "none"

\* hasStandingGrant
HtStanding(r) ==
    /\ htRun[r].pc = "clear" /\ HtNeeds(r) = "mutation"
    /\ {htRun[r].org, "all"} \cap htGrants # {}
    /\ htRun' = [htRun EXCEPT ![r].perm = TRUE]
    /\ HtKeeps

\* askConsent; when the grants cannot be read the user is asked all the same,
\* and a change that cannot be shown is not asked about but refused.
HtAsk(r) ==
    /\ htRun[r].pc = "clear" /\ HtNeeds(r) # "none"
    /\ \/ HtNeeds(r) = "mutation" /\ HtEnds(r, "policy_denied")
       \/ IF r \in HtBackground THEN HtEnds(r, "confirmation_required")
          ELSE htRun' = [htRun EXCEPT ![r].pc = "ask"]
    /\ HtKeeps

\* The user agrees, for a mutation perhaps for good; saving that may fail.
HtAgrees(r) ==
    /\ htRun[r].pc = "ask"
    /\ LET need == HtNeeds(r)
           run  == [htRun[r] EXCEPT !.pc = "clear"]
       IN \/ /\ need = "plain"
             /\ htRun' = [htRun EXCEPT ![r] = [run EXCEPT !.plain = @ \union {run.org}]]
             /\ htSaid' = htSaid \union {<<r, "plain", run.org>>}
             /\ UNCHANGED htGrants
          \/ \E p \in HtLeaks(r) :
             /\ need = "egress"
             /\ htRun' = [htRun EXCEPT ![r] = [run EXCEPT !.egress = @ \union {p}]]
             /\ htSaid' = htSaid \union {<<r, "egress", p>>}
             /\ UNCHANGED htGrants
          \/ /\ need = "mutation"
             /\ htRun' = [htRun EXCEPT ![r] = [run EXCEPT !.perm = TRUE]]
             /\ \/ UNCHANGED htGrants
                   /\ htSaid' = htSaid \union {<<r, "mutation", run.step>>}
                \/ \E g \in {run.org, "all"} :
                      /\ htGrants' = htGrants \union {g}
                      /\ htSaid' = htSaid \union {<<r, "mutation", run.step>>,
                                                  <<"always", "mutation", g>>}
    /\ UNCHANGED <<htOn, htSent, htDoubt>>

\* The user refuses, somebody else answers, the wait or the run is over.
HtRefuses(r) ==
    /\ htRun[r].pc \in {"ask", "big", "pause"}
    /\ \E o \in {"declined", "timed_out", "cancelled"} : HtEnds(r, o)
    /\ HtKeeps

\* The chain's budget and acquireTransfer: a full house is waited for until
\* the run's context ends, the user's own limit is an error at once.
HtAcquire(r) ==
    /\ htRun[r].pc = "clear" /\ HtNeeds(r) = "none"
    /\ \/ htRun[r].step > 1 /\ HtEnds(r, "timed_out")
       \/ Cardinality(HtBusy) >= HtSlots /\ HtEnds(r, "quota_exceeded")
       \/ /\ Cardinality(HtBusy) < HtSlots
          /\ IF Cardinality(HtBusy) >= HtUserMax THEN HtEnds(r, "quota_exceeded")
             ELSE htRun' = [htRun EXCEPT ![r].pc = "send"]
    /\ HtKeeps

\* classifyTransportError, for what is not the context's end.
HtFailed(r) == IF HtStepOf(r).mut THEN "outcome_unknown" ELSE "transport_error"

\* buildRequest, which may find a credential denied, and client.Do.
HtSend(r) ==
    /\ htRun[r].pc = "send"
    /\ \/ HtEnds(r, HtFailed(r)) /\ UNCHANGED htSent
       \/ /\ htRun' = [htRun EXCEPT ![r].pc = "wait"]
          /\ htSent' = htSent \union {[run |-> r, step |-> htRun[r].step, to |-> htRun[r].org,
                                       secrets |-> HtStepOf(r).secrets,
                                       mut |-> HtStepOf(r).mut]}
    /\ UNCHANGED <<htOn, htGrants, htSaid, htDoubt>>

\* No response: the transport fails, a hop is refused or loops, time is up.
HtNoReply(r) ==
    /\ htRun[r].pc = "wait"
    /\ \E o \in {HtFailed(r), "timed_out", "cancelled"} : HtEnds(r, o)
    /\ htDoubt' = IF HtStepOf(r).mut THEN htDoubt \union {<<r, htRun[r].step>>} ELSE htDoubt
    /\ UNCHANGED <<htOn, htGrants, htSent, htSaid>>

\* doWithRedirects follows a redirect, o being its target and keeps whether
\* its status keeps the method (307, 308): never to another origin, never
\* from https to http, never turning a mutation into a GET.
HtFollows(r, o, keeps) ==
    /\ HtStepOf(r).follow /\ htRun[r].hops < HtMaxHops
    /\ o = htRun[r].org
    /\ keeps \/ ~HtStepOf(r).mut

\* A redirect: followed, or returned as the response.
HtRedirect(r) ==
    /\ htRun[r].pc = "wait"
    /\ \E o \in HtOrigins, keeps \in BOOLEAN :
          htRun' = [htRun EXCEPT ![r] =
             IF HtFollows(r, o, keeps)
             THEN [@ EXCEPT !.pc = "send", !.hops = htRun[r].hops + 1, !.org = o]
             ELSE [@ EXCEPT !.pc = "body", !.loc = o, !.good = FALSE]]
    /\ HtKeeps

\* Any other response; its headers may name a location for a later url_from.
HtReply(r) ==
    /\ htRun[r].pc = "wait"
    /\ \E o \in HtOrigins \union {"none"}, good \in BOOLEAN :
          htRun' = [htRun EXCEPT ![r] = [@ EXCEPT !.pc = "body", !.loc = o, !.good = good]]
    /\ HtKeeps

\* The step is done: the loop of Run goes on, stops at a bad status or ends.
HtDone(r, run) ==
    htRun' = [htRun EXCEPT ![r] =
       IF ~run.good /\ ~HtStepOf(r).onError THEN [run EXCEPT !.pc = "done", !.out = "http_error"]
       ELSE IF run.step = Len(HtPlan[r])
            THEN [run EXCEPT !.pc = "done",
                             !.out = IF run.good THEN "completed" ELSE "http_error"]
       ELSE [run EXCEPT !.pc = "next", !.step = @ + 1]]

\* classifyReadError
HtReadErrors == {"transport_error", "timed_out", "cancelled"}

\* runExtract, whatever the response mode: a value is not found, or is bound
\* to the step's origin.
HtExtracts(r, run) ==
    \/ HtStepOf(r).takes /\ HtEnds(r, "validation_error")
    \/ HtDone(r, [run EXCEPT !.bind = IF HtStepOf(r).takes THEN [@ EXCEPT !["var"] = run.org]
                                      ELSE @])

\* readInline
HtInline(r) ==
    /\ htRun[r].pc = "body" /\ HtStepOf(r).get = "inline"
    /\ HtExtracts(r, htRun[r]) \/ \E o \in HtReadErrors : HtEnds(r, o)
    /\ HtKeeps

\* downloadResponse before the body: there may be none; a declared size beyond the threshold is
\* asked about, one beyond the cap refused.
HtDeclared(r) ==
    /\ htRun[r].pc = "body" /\ HtStepOf(r).get = "download"
    /\ \/ HtExtracts(r, htRun[r])
       \/ \E d \in 0 .. HtCap + 1 :
          IF d > HtCap THEN HtEnds(r, "quota_exceeded")
          ELSE IF d > HtAskAt THEN
             IF r \in HtBackground THEN HtEnds(r, "confirmation_required")
             ELSE htRun' = [htRun EXCEPT ![r] = [@ EXCEPT !.pc = "big", !.declared = d]]
          ELSE htRun' = [htRun EXCEPT ![r].pc = "open"]
    /\ HtKeeps

\* The answer names a limit m.
HtBigAgreed(r) ==
    /\ htRun[r].pc = "big"
    /\ \E m \in 1 .. HtCap :
          IF htRun[r].declared > m THEN HtEnds(r, "quota_exceeded") /\ UNCHANGED htSaid
          ELSE /\ htRun' = [htRun EXCEPT ![r] = [@ EXCEPT !.pc = "open", !.declared = 0,
                                                          !.limit = m, !.asked = TRUE]]
               /\ htSaid' = htSaid \union {<<r, "bytes", m>>}
    /\ UNCHANGED <<htOn, htGrants, htSent, htDoubt>>

\* Begin of an artifact and a writer's permit.
HtOpen(r) ==
    /\ htRun[r].pc = "open"
    /\ \/ HtEnds(r, "quota_exceeded")
       \/ Cardinality(HtWriting) >= HtWriters /\ HtEnds(r, "cancelled")
       \/ /\ Cardinality(HtWriting) < HtWriters
          /\ htRun' = [htRun EXCEPT ![r].pc = "read"]
    /\ HtKeeps

HtPauses(r) == ~htRun[r].asked /\ htRun[r].size >= HtAskAt

\* One turn of the read loop: pause at the threshold, stop at the limit, or
\* read a block, the last one perhaps together with the end.
HtRead(r) ==
    /\ htRun[r].pc = "read"
    /\ IF HtPauses(r) THEN
          IF Cardinality(HtPaused) >= HtPending THEN HtEnds(r, "quota_exceeded")
          ELSE IF r \in HtBackground THEN HtEnds(r, "confirmation_required")
          ELSE htRun' = [htRun EXCEPT ![r].pc = "pause"]
       ELSE IF htRun[r].size >= htRun[r].limit THEN HtEnds(r, "quota_exceeded")
       ELSE \/ htRun' = [htRun EXCEPT ![r].size = @ + 1]
            \/ \E n \in {0, 1} : HtExtracts(r, [htRun[r] EXCEPT !.size = @ + n])
            \/ \E o \in HtReadErrors \union {"quota_exceeded"} : HtEnds(r, o)
    /\ HtKeeps

\* The same connection goes on after the consent.
HtResumes(r) ==
    /\ htRun[r].pc = "pause"
    /\ \E m \in 1 .. HtCap :
          /\ htRun' = [htRun EXCEPT ![r] = [@ EXCEPT !.pc = "read", !.limit = m, !.asked = TRUE]]
          /\ htSaid' = htSaid \union {<<r, "bytes", m>>}
    /\ UNCHANGED <<htOn, htGrants, htSent, htDoubt>>

\* SetEnabled: the tool is turned off, or on again.
HtSetEnabled ==
    /\ htOn' = ~htOn
    /\ UNCHANGED <<htRun, htGrants, htSent, htSaid, htDoubt>>

\* RevokeHTTPStandingGrant, or a grant's end.
HtRevoke ==
    /\ \E g \in htGrants : htGrants' = htGrants \ {g}
    /\ UNCHANGED <<htRun, htOn, htSent, htSaid, htDoubt>>

HtWork(r) ==
    \/ HtPrepare(r) \/ HtStanding(r) \/ HtAsk(r) \/ HtAgrees(r) \/ HtRefuses(r)
    \/ HtAcquire(r) \/ HtSend(r) \/ HtNoReply(r) \/ HtRedirect(r) \/ HtReply(r)
    \/ HtInline(r) \/ HtDeclared(r) \/ HtBigAgreed(r) \/ HtOpen(r) \/ HtRead(r)
    \/ HtResumes(r)

HtNext == (\E r \in HtRuns : HtWork(r)) \/ HtSetEnabled \/ HtRevoke

-----------------------------------------------------------------------------
HtTypeOK ==
    /\ \A r \in HtRuns : /\ htRun[r].out \in HtOutcomes \union {"none"}
                         /\ htRun[r].step \in 1 .. Len(HtPlan[r])
                         /\ htRun[r].org \in HtOrigins \union {"none"}
    /\ htOn \in BOOLEAN /\ htGrants \subseteq HtOrigins \union {"all"}

(* A secret of a run stays with one origin; it reaches another one, or any *)
(* one over plain http, only after the user agreed to that in this run,    *)
(* whatever the servers answered before (secretBinding, checkEgress,       *)
(* doWithRedirects).                                                       *)
HtSecretsStay ==
    \A r \in HtRuns, k \in HtSecrets :
       LET went == {x \in htSent : x.run = r /\ k \in x.secrets}
           to   == {x.to : x \in went}
       IN /\ to # {} => \E home \in HtOrigins :
                           \A o \in to \ {home} : <<r, "egress", <<home, o>>>> \in htSaid
          /\ \A o \in to \cap HtPlain : <<r, "plain", o>> \in htSaid

(* A request that changes something left only when the user had agreed to  *)
(* this step, or once to every change at the origin it went to, redirects  *)
(* included (steps.go, hasStandingGrant).                                  *)
HtChangesAgreed ==
    \A x \in htSent :
       x.mut => \/ <<x.run, "mutation", x.step>> \in htSaid
                \/ \E g \in {x.to, "all"} : <<"always", "mutation", g>> \in htSaid

(* A download never reads past the threshold before the user agreed, nor   *)
(* past what was agreed to (downloadResponse).                             *)
HtBytesAgreed ==
    \A r \in HtRuns : LET n == htRun[r].size IN
       n > HtAskAt => \E m \in n .. HtCap : <<r, "bytes", m>> \in htSaid

(* A change that left and was not answered is never reported as having     *)
(* failed (classifyTransportError).                                        *)
HtDoubtReported ==
    \A d \in htDoubt : htRun[d[1]].out \in {"outcome_unknown", "timed_out", "cancelled"}

(* What the HTTP tool promises its user: where secrets go, what changes,   *)
(* what is read, what is in doubt.                                         *)
HtSafe == HtSecretsStay /\ HtChangesAgreed /\ HtBytesAgreed /\ HtDoubtReported

(* A run that began ends: every wait in it has a deadline (WallTimeout,    *)
(* ConsentWait, BodyIdleTimeout).                                          *)
HtSettles == \A r \in HtRuns : (htRun[r].pc # "next") ~> (htRun[r].pc = "done")
=============================================================================
