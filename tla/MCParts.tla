------------------------------ MODULE MCParts ------------------------------
(***************************************************************************)
(* The parts of the assistant that share no state, as one model: a         *)
(* behaviour is one of the parts in Parts, the others stay where they      *)
(* began.  Its states are the disjoint union of the parts' own state       *)
(* spaces, so that a property of a part holds here exactly when it holds   *)
(* of the part's own specification.                                        *)
(***************************************************************************)
EXTENDS MobileTurns, ChatEvents, McpClient, ChannelManager, MobileOAuth,
        RemoteExec, RemoteKeys, AssistantTurns, ModelRuntime, Debounce,
        Confirmations, Artifacts, HttpFetch, ChatImport, Reminders, AgentJobs,
        Credentials, Orchestrator

CONSTANT Parts

VARIABLE part

\* A part that stays where it began begins in one way.
PartsInit ==
    /\ part \in Parts
    /\ TurnInit /\ EventInit /\ McpInit /\ ChannelInit /\ OaInit
    /\ RxInit /\ KyInit /\ AsInit /\ MrInit /\ DbInit /\ CfInit /\ ArInit
    /\ HtInit /\ ImInit /\ RmInit /\ AjInit /\ CrInit /\ Init
    /\ part # "keys" => kyHost = {}

InTurns     == part = "turns"
InEvents    == part = "events"
InMcp       == part = "mcp"
InChannels  == part = "channels"
InOAuth     == part = "oauth"
InExec      == part = "exec"
InKeys      == part = "keys"
InAssistant == part = "assistant"
InModels    == part = "models"
InDebounce  == part = "debounce"
InConfirm   == part = "confirm"
InArtifacts == part = "artifacts"
InHttp      == part = "http"
InImport    == part = "import"
InReminders == part = "reminders"
InJobs      == part = "jobs"
InSecrets   == part = "secrets"
InAgents    == part = "agents"

PartsNext ==
    \/ /\ InTurns /\ TurnNext
       /\ UNCHANGED <<part, eventVars, mcpVars, channelVars, oaVars, rxVars, kyVars,
                      asVars, mrVars, dbVars, cfVars, arVars, htVars, imVars, rmVars,
                      ajVars, crVars, vars>>
    \/ /\ InEvents /\ EventNext
       /\ UNCHANGED <<part, turnVars, mcpVars, channelVars, oaVars, rxVars, kyVars,
                      asVars, mrVars, dbVars, cfVars, arVars, htVars, imVars, rmVars,
                      ajVars, crVars, vars>>
    \/ /\ InMcp /\ McpNext
       /\ UNCHANGED <<part, turnVars, eventVars, channelVars, oaVars, rxVars, kyVars,
                      asVars, mrVars, dbVars, cfVars, arVars, htVars, imVars, rmVars,
                      ajVars, crVars, vars>>
    \/ /\ InChannels /\ ChannelNext
       /\ UNCHANGED <<part, turnVars, eventVars, mcpVars, oaVars, rxVars, kyVars,
                      asVars, mrVars, dbVars, cfVars, arVars, htVars, imVars, rmVars,
                      ajVars, crVars, vars>>
    \/ /\ InOAuth /\ OaNext
       /\ UNCHANGED <<part, turnVars, eventVars, mcpVars, channelVars, rxVars, kyVars,
                      asVars, mrVars, dbVars, cfVars, arVars, htVars, imVars, rmVars,
                      ajVars, crVars, vars>>
    \/ /\ InExec /\ RxNext
       /\ UNCHANGED <<part, turnVars, eventVars, mcpVars, channelVars, oaVars, kyVars,
                      asVars, mrVars, dbVars, cfVars, arVars, htVars, imVars, rmVars,
                      ajVars, crVars, vars>>
    \/ /\ InKeys /\ KyNext
       /\ UNCHANGED <<part, turnVars, eventVars, mcpVars, channelVars, oaVars, rxVars,
                      asVars, mrVars, dbVars, cfVars, arVars, htVars, imVars, rmVars,
                      ajVars, crVars, vars>>
    \/ /\ InAssistant /\ AsNext
       /\ UNCHANGED <<part, turnVars, eventVars, mcpVars, channelVars, oaVars, rxVars,
                      kyVars, mrVars, dbVars, cfVars, arVars, htVars, imVars, rmVars,
                      ajVars, crVars, vars>>
    \/ /\ InModels /\ MrNext
       /\ UNCHANGED <<part, turnVars, eventVars, mcpVars, channelVars, oaVars, rxVars,
                      kyVars, asVars, dbVars, cfVars, arVars, htVars, imVars, rmVars,
                      ajVars, crVars, vars>>
    \/ /\ InDebounce /\ DbNext
       /\ UNCHANGED <<part, turnVars, eventVars, mcpVars, channelVars, oaVars, rxVars,
                      kyVars, asVars, mrVars, cfVars, arVars, htVars, imVars, rmVars,
                      ajVars, crVars, vars>>
    \/ /\ InConfirm /\ CfNext
       /\ UNCHANGED <<part, turnVars, eventVars, mcpVars, channelVars, oaVars, rxVars,
                      kyVars, asVars, mrVars, dbVars, arVars, htVars, imVars, rmVars,
                      ajVars, crVars, vars>>
    \/ /\ InArtifacts /\ ArNext
       /\ UNCHANGED <<part, turnVars, eventVars, mcpVars, channelVars, oaVars, rxVars,
                      kyVars, asVars, mrVars, dbVars, cfVars, htVars, imVars, rmVars,
                      ajVars, crVars, vars>>
    \/ /\ InHttp /\ HtNext
       /\ UNCHANGED <<part, turnVars, eventVars, mcpVars, channelVars, oaVars, rxVars,
                      kyVars, asVars, mrVars, dbVars, cfVars, arVars, imVars, rmVars,
                      ajVars, crVars, vars>>
    \/ /\ InImport /\ ImNext
       /\ UNCHANGED <<part, turnVars, eventVars, mcpVars, channelVars, oaVars, rxVars,
                      kyVars, asVars, mrVars, dbVars, cfVars, arVars, htVars, rmVars,
                      ajVars, crVars, vars>>
    \/ /\ InReminders /\ RmNext
       /\ UNCHANGED <<part, turnVars, eventVars, mcpVars, channelVars, oaVars, rxVars,
                      kyVars, asVars, mrVars, dbVars, cfVars, arVars, htVars, imVars,
                      ajVars, crVars, vars>>
    \/ /\ InJobs /\ AjNext
       /\ UNCHANGED <<part, turnVars, eventVars, mcpVars, channelVars, oaVars, rxVars,
                      kyVars, asVars, mrVars, dbVars, cfVars, arVars, htVars, imVars,
                      rmVars, crVars, vars>>
    \/ /\ InSecrets /\ CrNext
       /\ UNCHANGED <<part, turnVars, eventVars, mcpVars, channelVars, oaVars, rxVars,
                      kyVars, asVars, mrVars, dbVars, cfVars, arVars, htVars, imVars,
                      rmVars, ajVars, vars>>
    \/ /\ InAgents /\ Next
       /\ UNCHANGED <<part, turnVars, eventVars, mcpVars, channelVars, oaVars, rxVars,
                      kyVars, asVars, mrVars, dbVars, cfVars, arVars, htVars, imVars,
                      rmVars, ajVars, crVars>>

partsVars == <<part, turnVars, eventVars, mcpVars, channelVars, oaVars, rxVars, kyVars,
               asVars, mrVars, dbVars, cfVars, arVars, htVars, imVars, rmVars, ajVars,
               crVars, vars>>

PartsSpec == PartsInit /\ [][PartsNext]_partsVars

-----------------------------------------------------------------------------
(* The fairness of each part, while it is the part that runs.              *)

(* The clock runs; the supervisor restarts the process; the engine's ticks *)
(* and its workers, whose contexts have deadlines, keep going.             *)
TurnFairness ==
    /\ \A t \in Turns : WF_turnVars(InTurns /\ Worker(t))
    /\ WF_turnVars(InTurns /\ LeaseExpires /\ engine[runLease.epoch] # "run")
    /\ \A r \in Runs :
          /\ WF_turnVars(InTurns /\ AcquireRuntime(r))
          /\ WF_turnVars(InTurns /\ ReleaseRuntime(r))
          /\ WF_turnVars(InTurns /\ ReconcileSecurity(r))
          /\ WF_turnVars(InTurns /\ StopRun(r) /\ ~Holds(r))
          /\ WF_turnVars(InTurns /\ \E t \in Turns : Claim(r, t))

(* The devices' maintenance loop publishes; the client keeps watching. *)
EventFairness ==
    /\ WF_eventVars(InEvents /\ ReadOutbox) /\ WF_eventVars(InEvents /\ PublishTask)
    /\ WF_eventVars(InEvents /\ MarkPublished) /\ WF_eventVars(InEvents /\ TakeSnapshot)
    /\ WF_eventVars(InEvents /\ Watch) /\ WF_eventVars(InEvents /\ PollEvents)
    /\ WF_eventVars(InEvents /\ SendEvent)

(* Calls of an MCP server have deadlines. *)
McpFairness == \A p \in Plans : WF_mcpVars(InMcp /\ McpWork(p))

(* Requests run on; a cancelled channel returns from Start. *)
ChannelFairness ==
    /\ \A c \in Callers : WF_channelVars(InChannels /\ ChStep(c))
    /\ \A g \in ChRuns : /\ WF_channelVars(InChannels /\ ChReturns(g) /\ chRun[g].cancelled)
                         /\ WF_channelVars(InChannels /\ ChExits(g))

(* A confirmation ends by the run's deadline, the transport by its timeout; *)
(* whoever called then writes.                                             *)
RemoteFairness ==
    /\ \A e \in RxExecs :
          /\ WF_rxVars(InExec /\ (RxRefused(e) \/ RxNoCredential(e) \/ RxDispatch(e)))
          /\ WF_rxVars(InExec /\ RxRun(e))
          /\ WF_rxVars(InExec /\ RxFinish(e))
    /\ WF_kyVars(InKeys /\ \E o \in kyOps : KyRefuse(o) \/ KySend(o))
    /\ WF_kyVars(InKeys /\ \E o \in kyOps : KyChange(o) \/ KyLook(o))
    /\ WF_kyVars(InKeys /\ \E o \in kyOps : KyFinish(o))

(* A turn of the assistant and a sub-agent go on: the calls they make end  *)
(* by their deadlines.                                                     *)
TalkFairness ==
    /\ \A m \in AsMsgs : WF_asVars(InAssistant /\ AsStep(m))
    /\ WF_vars(InAgents /\ Finish)
    /\ \A a \in Agents : WF_vars(InAgents /\ AgentStep(a))

(* A check of a model has a deadline; timers fire and their callbacks run; *)
(* a question expires; the sweeper ticks and leases run out.               *)
SmallFairness ==
    /\ WF_mrVars(InModels /\ MrRun)
    /\ \A c \in DbChats : /\ WF_dbVars(InDebounce /\ DbFire(c))
                          /\ WF_dbVars(InDebounce /\ DbFlush(c))
                          /\ WF_dbVars(InDebounce /\ DbStopFlush(c))
    /\ WF_dbVars(InDebounce /\ \E b \in dbTaken : DbHandle(b))
    /\ \A o \in CfOps : /\ WF_cfVars(InConfirm /\ (CfAsk(o) \/ CfSet(o) \/ CfReturn(o)))
                        /\ WF_cfVars(InConfirm /\ CfExpires(o))
    /\ WF_arVars(InArtifacts /\ ArSweeping)
    /\ \A f \in ArIds : WF_arVars(InArtifacts /\ ArLeaseEnds(f))

(* Every wait of an HTTP run has a deadline.  Requests of an import run on *)
(* once they began, the worker claims and its handler ends, and stale      *)
(* tasks are put back; nobody has to upload, cancel or reindex anything.   *)
WebFairness ==
    /\ \A r \in HtRuns : WF_htVars(InHttp /\ HtWork(r))
    /\ WF_imVars(InImport /\ ImHandle)
    /\ WF_imVars(InImport /\ ImCancelRow) /\ WF_imVars(InImport /\ ImReindexRow)
    /\ \A u \in ImUploads : WF_imVars(InImport /\ ImRequest(u) /\ imUp[u] # "new")
    /\ \A j \in ImJobs : WF_imVars(InImport /\ ImReclaim(j))

(* The scheduler ticks and its worker claims and runs; backoffs pass and   *)
(* stale tasks are put back.                                               *)
ScheduleFairness ==
    /\ WF_rmVars(InReminders /\ RmRead("tick"))
    /\ \A r \in RmIds : WF_rmVars(InReminders /\ RmInsert("tick", r))
    /\ \A s \in RmSlots : WF_rmVars(InReminders /\ RmStep(s))
    /\ WF_rmVars(InReminders /\ RmClaiming)
    /\ \A i \in RmStore!Ids : /\ WF_rmVars(InReminders /\ RmBackoffEnds(i))
                              /\ WF_rmVars(InReminders /\ RmReclaim(i))

PartsFairSpec ==
    /\ PartsSpec
    /\ TurnFairness /\ EventFairness /\ McpFairness /\ ChannelFairness
    /\ RemoteFairness /\ TalkFairness /\ SmallFairness /\ WebFairness
    /\ ScheduleFairness

-----------------------------------------------------------------------------
(* What is said of several parts at once.                                  *)

(* The variables of the part that runs have their types.                   *)
PartsTypeOK ==
    /\ (InTurns    => TurnTypeOK)    /\ (InEvents    => EventTypeOK)
    /\ (InMcp      => McpTypeOK)     /\ (InChannels  => ChannelTypeOK)
    /\ (InOAuth    => OaTypeOK)      /\ (InExec      => RxTypeOK)
    /\ (InKeys     => KyTypeOK)      /\ (InAssistant => AsTypeOK)
    /\ (InModels   => MrTypeOK)      /\ (InDebounce  => DbTypeOK)
    /\ (InConfirm  => CfTypeOK)      /\ (InArtifacts => ArTypeOK)
    /\ (InHttp     => HtTypeOK)      /\ (InImport    => ImTypeOK)
    /\ (InReminders => RmTypeOK)     /\ (InJobs      => AjTypeOK)
    /\ (InSecrets  => CrTypeOK)      /\ (InAgents    => TypeOK)

(* Mobile turns of a chat keep their order and act only on an approval     *)
(* (TurnSafe); who follows its events misses none and hears of none twice  *)
(* (EventSafe).                                                            *)
MobileSafe == TurnSafe /\ EventSafe

(* What a chat approved runs once and as it was approved (AsSafe), and a   *)
(* question is answered by whom it was put to (CfSafe).                    *)
TalkSafe == AsSafe /\ CfSafe

(* What is scheduled happens once: a reminder's message (RmSafe), a        *)
(* firing's runbook and a job's firing (AjSafe), but for what their events *)
(* explain.                                                                *)
ScheduleSafe == RmSafe /\ AjSafe

(* Remote access keeps its word over repeated calls, failed saves and      *)
(* restarts: one command per approval and a file that does not deny it     *)
(* (RxSafe); a key inventory, in memory and in its file, that is right     *)
(* where it is definite, one writer at a time, and a last key that stays,  *)
(* but for scripts that come after the host was seen without them          *)
(* (KySafe).                                                               *)
RemoteSafe == RxSafe /\ KySafe

(* What was accepted and is still in use is not thrown away: a message in  *)
(* a debouncer's buffer (DbSafe), the part file of a download that runs    *)
(* (ArLivePartKept).                                                       *)
NothingLost == DbSafe /\ ArLivePartKept

(* What has ended stays ended: a turn that was completed or cancelled      *)
(* (fence), a token that was refused (live, SyncAccount), a model or a     *)
(* credential that was denied (Revoke, persistLocked).                     *)
NothingRevived == EndedTurnFinal /\ OaNoResurrection /\ MrDenyIsFinal

(* What acts outside acts under an authority that stands at that moment,   *)
(* although it was checked earlier and the lock was given up in between:   *)
(* a call of an MCP tool (execute's callback), a command over SSH          *)
(* (executeWithTransport after the confirmation).                          *)
UnderAuthority == McpSentUnderReview /\ RxUnderSeenPlan

(* Work that was accepted comes to an end that is recorded, also over a    *)
(* crash: mobile turns, MCP calls, SSH commands, key operations, checks of *)
(* a model, HTTP runs, imports and reminders.                              *)
WorkSettles ==
    /\ TurnSettles /\ McpSettles /\ RxSettles /\ KySettles /\ MrCheckSettles
    /\ HtSettles /\ ImSettles /\ RmRings

(* What was said arrives: a phone task's transition at its chat and at a   *)
(* client that watches, a debounced message at its handler, a message at   *)
(* the assistant and its answer.                                           *)
MessagesArrive == RefCatchesUp /\ ClientCatchesUp /\ DbDelivered /\ AsAllAnswered

(* Nobody waits for ever: a question for its answer, a stopped channel for *)
(* its goroutine, an orchestration for its agents, the disk for the files  *)
(* a dead process left.                                                    *)
WaitsEnd == CfSettles /\ CancelledEnds /\ Terminates /\ ArLeftoversGo

-----------------------------------------------------------------------------
(* Values of the parts' constants.                                         *)

OneChat == [t \in Turns |-> "c1"]

(* The first turn has an operation to confirm, and perhaps a native one. *)
Confirm    == [t \in Turns |-> IF t = "t1" THEN {"o1"} ELSE {}]
BothKinds  == [t \in Turns |-> IF t = "t1" THEN {"o1", "o2"} ELSE {}]

(* Two messages of one chat, and one of another. *)
TwoChats == [m \in DbMsgs |-> IF m = "n3" THEN "y" ELSE "x"]

(* Requests of remote access by their kind. *)
Kinds(a, q, k) == [r \in RxReqs |-> CASE r \in a -> "approved" [] r \in q -> "asked"
                                      [] r \in k -> "firing"]
SafeKinds == Kinds({"a1"}, {"q1"}, {"k1", "k2"})

(* Steps of HTTP plans.  r1 makes a change with a key, takes a variable    *)
(* and follows a location with both; r2 makes a change, r3 downloads and   *)
(* takes a variable.                                                       *)
Request(to, mut, secrets, follow, get, takes, onError) ==
    [to |-> to, mut |-> mut, secrets |-> secrets, follow |-> follow, get |-> get,
     takes |-> takes, onError |-> onError]
HttpPlans == [r \in HtRuns |->
    CASE r = "r1" -> <<Request("a", TRUE, {"key"}, TRUE, "inline", TRUE, TRUE),
                       Request("location", TRUE, {"key", "var"}, TRUE, "download",
                               FALSE, FALSE)>>
      [] r = "r2" -> <<Request("a", TRUE, {}, FALSE, "inline", FALSE, FALSE)>>
      [] r = "r3" -> <<Request("a", FALSE, {}, FALSE, "download", TRUE, FALSE)>>]

(* Every job of the schedule is a runbook. *)
Runbooks == [j \in AjJobs |-> "book"]

(* The first message asks for something, the others answer with "yes". *)
Answers == [m \in AsMsgs |-> IF m = "m1" THEN "text" ELSE "yes"]
NoTrigger == [m \in AsMsgs |-> "none"]
NoteFirst == [m \in AsMsgs |-> IF m = "m1" THEN "note" ELSE "none"]
RiskyBatches == {<<"ssh", "post">>, <<"shell">>}
PlainBatches == {<<"note">>, <<"mcp">>, <<"note", "translate">>, <<"translate">>}
=============================================================================
