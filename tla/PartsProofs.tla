---------------------------- MODULE PartsProofs ----------------------------
(***************************************************************************)
(* What the proofs of the parts say of the whole: a behaviour of the       *)
(* composition is a behaviour of every part, so that what was proved of    *)
(* the parts' own specifications holds of the composition.                 *)
(***************************************************************************)
EXTENDS MCParts, MobileProofs, ConnectorProofs, AccessProofs, TalkProofs, ScheduleProofs

(* A step of the composition is a step of the turns, or leaves them.       *)
LEMMA TurnsRefined == PartsSpec => TurnSpec
<1>1. PartsInit => TurnInit  BY DEF PartsInit
<1>2. [PartsNext]_partsVars => [TurnNext]_turnVars  BY Zenon DEF PartsNext, partsVars
<1> QED  BY <1>1, <1>2, PTL DEF PartsSpec, TurnSpec

(* The same of the devices' events.                                        *)
LEMMA EventsRefined == PartsSpec => EventSpec
<1>1. PartsInit => EventInit  BY DEF PartsInit
<1>2. [PartsNext]_partsVars => [EventNext]_eventVars  BY Zenon DEF PartsNext, partsVars
<1> QED  BY <1>1, <1>2, PTL DEF PartsSpec, EventSpec

(* The same of the MCP servers.                                            *)
LEMMA McpRefined == PartsSpec => McpSpec
<1>1. PartsInit => McpInit  BY DEF PartsInit
<1>2. [PartsNext]_partsVars => [McpNext]_mcpVars  BY Zenon DEF PartsNext, partsVars
<1> QED  BY <1>1, <1>2, PTL DEF PartsSpec, McpSpec

(* The same of the channels.                                               *)
LEMMA ChannelsRefined == PartsSpec => ChannelSpec
<1>1. PartsInit => ChannelInit  BY DEF PartsInit
<1>2. [PartsNext]_partsVars => [ChannelNext]_channelVars  BY Zenon DEF PartsNext, partsVars
<1> QED  BY <1>1, <1>2, PTL DEF PartsSpec, ChannelSpec

(* The same of the apps' tokens.                                           *)
LEMMA OaRefined == PartsSpec => OaSpec
<1>1. PartsInit => OaInit  BY DEF PartsInit
<1>2. [PartsNext]_partsVars => [OaNext]_oaVars  BY Zenon DEF PartsNext, partsVars
<1> QED  BY <1>1, <1>2, PTL DEF PartsSpec, OaSpec

(* The same of remote commands.                                            *)
LEMMA RxRefined == PartsSpec => RxSpec
<1>1. PartsInit => RxInit  BY DEF PartsInit
<1>2. [PartsNext]_partsVars => [RxNext]_rxVars  BY Zenon DEF PartsNext, partsVars
<1> QED  BY <1>1, <1>2, PTL DEF PartsSpec, RxSpec

(* The same of the keys of remote hosts.                                   *)
LEMMA KyRefined == PartsSpec => KySpec
<1>1. PartsInit => KyInit  BY DEF PartsInit
<1>2. [PartsNext]_partsVars => [KyNext]_kyVars  BY Zenon DEF PartsNext, partsVars
<1> QED  BY <1>1, <1>2, PTL DEF PartsSpec, KySpec

(* The same of the assistant's turns.                                      *)
LEMMA AsRefined == PartsSpec => AsSpec
<1>1. PartsInit => AsInit  BY DEF PartsInit
<1>2. [PartsNext]_partsVars => [AsNext]_asVars  BY Zenon DEF PartsNext, partsVars
<1> QED  BY <1>1, <1>2, PTL DEF PartsSpec, AsSpec

(* The same of the questions put to a user.                                *)
LEMMA CfRefined == PartsSpec => CfSpec
<1>1. PartsInit => CfInit  BY DEF PartsInit
<1>2. [PartsNext]_partsVars => [CfNext]_cfVars  BY Zenon DEF PartsNext, partsVars
<1> QED  BY <1>1, <1>2, PTL DEF PartsSpec, CfSpec

(* The same of the sub-agents.                                             *)
LEMMA AgentsRefined == PartsSpec => Spec
<1>1. PartsInit => Init  BY DEF PartsInit
<1>2. [PartsNext]_partsVars => [Next]_vars  BY Zenon DEF PartsNext, partsVars
<1> QED  BY <1>1, <1>2, PTL DEF PartsSpec, Spec

(* The same of the reminders.                                              *)
LEMMA RemindersRefined == PartsSpec => RmSpec
<1>1. PartsInit => RmInit  BY DEF PartsInit
<1>2. [PartsNext]_partsVars => [RmNext]_rmVars  BY Zenon DEF PartsNext, partsVars
<1> QED  BY <1>1, <1>2, PTL DEF PartsSpec, RmSpec

(* The same of the agent jobs.                                             *)
LEMMA JobsRefined == PartsSpec => AjSpec
<1>1. PartsInit => AjInit  BY DEF PartsInit
<1>2. [PartsNext]_partsVars => [AjNext]_ajVars  BY Zenon DEF PartsNext, partsVars
<1> QED  BY <1>1, <1>2, PTL DEF PartsSpec, AjSpec

(* Mobile turns of a chat keep their order and act only on an approval,    *)
(* and who follows the chat's events misses none, in every behaviour of    *)
(* the whole (engine.go, events.go).                                       *)
THEOREM MobileIsSafe == PartsSpec => []MobileSafe
<1>1. PartsSpec => []TurnSafe  BY TurnsRefined, TurnSafety
<1>2. PartsSpec => []EventSafe  BY EventsRefined, EventSafety
<1>3. TurnSafe /\ EventSafe => MobileSafe  BY DEF MobileSafe
<1> QED  BY <1>1, <1>2, <1>3, PTL

(* One command per approval and a truthful file (RxSafe), a key inventory  *)
(* that is right where it is definite, one writer for an installation, a   *)
(* last key that stays (KySafe): however calls, failed saves and restarts  *)
(* interleave, and whenever a script in doubt takes effect, unless it had  *)
(* been belied (service.go, keys.go).                                      *)
THEOREM RemoteIsSafe == PartsSpec => []RemoteSafe
<1>1. PartsSpec => []RxSafe  BY RxRefined, RxSafety
<1>2. PartsSpec => []KySafe  BY KyRefined, KySafety
<1>3. RxSafe /\ KySafe => RemoteSafe  BY DEF RemoteSafe
<1> QED  BY <1>1, <1>2, <1>3, PTL

(* What the sub-agents' Run reports is what was spent and what was done,   *)
(* and their shared budget is kept, in every behaviour of the whole        *)
(* (orchestrator.go, runner.go).                                           *)
THEOREM AgentsAreExact == PartsSpec => [](SummaryExact /\ BudgetKept)
BY AgentsRefined, SummaryIsExact, BudgetIsKept, PTL

(* What a chat approved runs once and as approved, and a question is       *)
(* answered by whom it was put to (assistant.go, interact).                *)
THEOREM TalkIsSafe == PartsSpec => []TalkSafe
<1>1. PartsSpec => [](AsSafe /\ AsBounded)  BY AsRefined, AsSafety
<1>2. PartsSpec => []CfSafe  BY CfRefined, CfSafety
<1>3. AsSafe /\ CfSafe => TalkSafe  BY DEF TalkSafe
<1> QED  BY <1>1, <1>2, <1>3, PTL

(* What acts outside acts under an authority that stands at that moment:   *)
(* an MCP call under a review in force, a command over SSH under the plan  *)
(* that was looked at (execute, executeWithTransport).                     *)
THEOREM ActsUnderAuthority == PartsSpec => UnderAuthority
<1>1. PartsSpec => McpSentUnderReview  BY McpRefined, McpSentReviewed
<1>2. PartsSpec => RxUnderSeenPlan  BY RxRefined, RxSeenPlan
<1>3. McpSentUnderReview /\ RxUnderSeenPlan => UnderAuthority  BY DEF UnderAuthority
<1> QED  BY <1>1, <1>2, <1>3

(* What is scheduled happens once: a reminder's message, a firing's        *)
(* runbook and a job's firing, but for what the histories explain          *)
(* (jobs.go, reminder_fire.go, agent_job.go, runbooks.go).                 *)
THEOREM ScheduleIsSafe == PartsSpec => []ScheduleSafe
<1>1. RmSafe /\ AjSafe => ScheduleSafe  BY DEF ScheduleSafe
<1> QED  BY <1>1, RemindersRefined, JobsRefined, RmSafety, AjSafety, PTL

(* Grants and refresh tokens are redeemed at most once and authority that  *)
(* was withdrawn is worthless (OaSafe), an approved MCP plan is called at  *)
(* most once (McpSafe), and no channel's entry outlives its goroutine      *)
(* (RegisteredRuns), in every behaviour of the whole.                      *)
THEOREM ConnectionsAreSafe == PartsSpec => [](OaSafe /\ McpSafe /\ RegisteredRuns)
BY OaRefined, OaSafety, McpRefined, McpSafety, ChannelsRefined, ChannelSafety, PTL

(* An operation of a mobile turn takes effect at most once in the whole.   *)
THEOREM EffectsOnce == PartsSpec => EffectsAtMostOnce
BY TurnsRefined, EffectsImplemented, PTL

(* A run of an import that says done has archived everything, a memory is  *)
(* imported once but for a failure between it and its key, and the staged  *)
(* file stays as long as a task will read it (import_handlers.go, Handle). *)
THEOREM ImportIsSafe == PartsSpec => []ImSafe
<1>1. PartsInit => ImInit  BY DEF PartsInit
<1>2. [PartsNext]_partsVars => [ImNext]_imVars  BY Zenon DEF PartsNext, partsVars
<1>3. ImIInv /\ [ImNext]_imVars => ImIInv'  BY ImStepInv
<1> QED  BY <1>1, <1>2, <1>3, ImInitInv, ImIInvSafe, PTL DEF PartsSpec

(* A secret is in one of its two tables until a request deletes it, and    *)
(* caches and skill have what the tables say where nothing overlapped      *)
(* (MigrateFromConfigOverrides, Set, Rotate, ReplayCredentials).           *)
THEOREM SecretsAreSafe == PartsSpec => []CrSafe
<1>1. PartsInit => CrInit  BY DEF PartsInit
<1>2. [PartsNext]_partsVars => [CrNext]_crVars  BY Zenon DEF PartsNext, partsVars
<1>3. CrIInv /\ [CrNext]_crVars => CrIInv'  BY CrStepInv
<1> QED  BY <1>1, <1>2, <1>3, CrInitInv, CrIInvSafe, PTL DEF PartsSpec

(* A secret stays with its origin, changes and bytes are agreed to, and a  *)
(* change in doubt is not reported as failed, whatever servers answer      *)
(* (consent.go, redirect.go, download.go, steps.go).                       *)
THEOREM HttpIsSafe == PartsSpec => []HtSafe
<1>1. PartsInit => HtInit  BY DEF PartsInit
<1>2. [PartsNext]_partsVars => [HtNext]_htVars  BY Zenon DEF PartsNext, partsVars
<1>3. HtIInv /\ [HtNext]_htVars => HtIInv'  BY HtStepInv
<1> QED  BY <1>1, <1>2, <1>3, HtInitInv, HtIInvSafe, PTL DEF PartsSpec

(* A step of the composition is a step of the runtime, or leaves it.       *)
LEMMA ModelsRefined == PartsSpec => MrSpec
<1>1. PartsInit => MrInit  BY DEF PartsInit
<1>2. [PartsNext]_partsVars => [MrNext]_mrVars  BY Zenon DEF PartsNext, partsVars
<1> QED  BY <1>1, <1>2, PTL DEF PartsSpec, MrSpec

(* The same of the whole: what a managed policy runs on was proven, and    *)
(* nothing that was denied goes on.                                        *)
THEOREM ModelsAreSafe == PartsSpec => []MrSafe
BY ModelsRefined, MrSafety, PTL

(* What has ended stays ended: a turn that was completed or cancelled, a   *)
(* token that was refused, a credential that was denied (fence, live,      *)
(* SyncAccount, Revoke).                                                   *)
THEOREM RevivesNothing == PartsSpec => NothingRevived
<1>1. PartsSpec => EndedTurnFinal  BY TurnsRefined, TurnEndsForGood
<1>2. PartsSpec => OaNoResurrection  BY OaRefined, OaRefusedForGood
<1>3. PartsSpec => MrDenyIsFinal  BY ModelsRefined, MrDeniesForGood
<1> QED  BY <1>1, <1>2, <1>3 DEF NothingRevived

(* A step of the composition is a step of the debouncer, or leaves it.     *)
LEMMA DebounceRefined == PartsSpec => DbSpec
<1>1. PartsInit => DbInit  BY DEF PartsInit
<1>2. [PartsNext]_partsVars => [DbNext]_dbVars  BY Zenon DEF PartsNext, partsVars
<1> QED  BY <1>1, <1>2, PTL DEF PartsSpec, DbSpec

(* The same of the artifact store.                                         *)
LEMMA ArtifactsRefined == PartsSpec => ArSpec
<1>1. PartsInit => ArInit  BY DEF PartsInit
<1>2. [PartsNext]_partsVars => [ArNext]_arVars  BY Zenon DEF PartsNext, partsVars
<1> QED  BY <1>1, <1>2, PTL DEF PartsSpec, ArSpec

(* A message in a debouncer is in one place and will be flushed, however   *)
(* timers, resets and the stop interleave; the part file of a download     *)
(* outlives the sweeps while its lease lasts (debounce.go, Sweep).         *)
THEOREM LosesNothing == PartsSpec => []NothingLost
<1>1. DbInit => DbIInv  BY DbInitInv
<1>2. DbIInv /\ [DbNext]_dbVars => DbIInv'  BY DbStepInv
<1>3. ArInit => ArIInv  BY ArInitInv
<1>4. ArIInv /\ [ArNext]_arVars => ArIInv'  BY ArStepInv
<1>5. DbIInv /\ ArIInv => NothingLost  BY DbIInvSafe DEF ArIInv, NothingLost
<1>6. DbSpec => []DbIInv  BY <1>1, <1>2, PTL DEF DbSpec
<1>7. ArSpec => []ArIInv  BY <1>3, <1>4, PTL DEF ArSpec
<1> QED  BY <1>5, <1>6, <1>7, DebounceRefined, ArtifactsRefined, PTL

(* A batch of the outbox holds rows that are there, with the task's state: *)
(* the due rows can be counted off in their order.                         *)
LEMMA OutboxRead == ASSUME EventIInv, EventKinds, ReadOutbox PROVE OutboxBatch'
<1>1. /\ version \in Nat /\ DOMAIN outbox = 1 .. version
      /\ version' = version
  <2>1. outbox \in Seq(OutboxRec)  BY Zenon DEF EventIInv, EventTyped
  <2>2. version \in Nat /\ Len(outbox) = version  BY EventAssumption DEF EventKinds
  <2>3. version' = version  BY Zenon DEF ReadOutbox
  <2> QED  BY <2>1, <2>2, <2>3
<1>2. PICK due : due = {i \in DOMAIN outbox : ~outbox[i].published}  OBVIOUS
<1>3. PICK low : low = {i \in due : Cardinality({j \in due : j < i}) < Batch}  OBVIOUS
<1>4. batch' = [k \in 1 .. Cardinality(low) |->
                  [seq |-> CHOOSE i \in low : Cardinality({j \in low : j < i}) = k - 1,
                   version |-> version]]
  BY Zenon, <1>2, <1>3 DEF ReadOutbox
<1>5. low \subseteq 1 .. version /\ IsFiniteSet(low) /\ Cardinality(low) \in Nat
  <2>1. low \subseteq 1 .. version  BY <1>1, <1>2, <1>3
  <2>2. IsFiniteSet(1 .. version)  BY <1>1, FS_Interval
  <2> QED  BY <2>1, <2>2, FS_Subset, FS_CardinalityType
<1>6. PICK f : f = [i \in low |-> i]  OBVIOUS
<1>7. ASSUME NEW k \in 1 .. Cardinality(low)
      PROVE  (CHOOSE i \in low : Cardinality({j \in low : j < i}) = k - 1) \in 1 .. version
  <2>1. f \in [low -> Int] /\ \A x, y \in low : f[x] = f[y] => x = y  BY <1>5, <1>6
  <2>2. k - 1 \in 0 .. Cardinality(low) - 1  BY <1>5
  <2>3. PICK i \in low : Cardinality(Lesser(low, f, i)) = k - 1
    BY <1>5, <2>1, <2>2, CountedOff
  <2>4. Lesser(low, f, i) = {j \in low : j < i}  BY <1>6 DEF Lesser
  <2>5. Cardinality({j \in low : j < i}) = k - 1  BY Zenon, <2>3, <2>4
  <2>6. (CHOOSE n \in low : Cardinality({j \in low : j < n}) = k - 1) \in low  BY Zenon, <2>5
  <2> QED  BY Zenon, <1>5, <2>6
<1>8. PICK R : R = [seq : 1 .. version, version : 0 .. version]  OBVIOUS
<1>9. ASSUME NEW k \in 1 .. Cardinality(low), NEW i \in 1 .. version
      PROVE  [seq |-> i, version |-> version] \in R
  <2>1. version \in 0 .. version  BY <1>1
  <2> QED  BY Zenon, <1>8, <2>1
<1>10. batch' \in [1 .. Cardinality(low) -> R]  BY Zenon, <1>4, <1>7, <1>9
<1>11. PICK b : b = batch'  OBVIOUS
<1>12. b \in Seq(R)
  <2>1. PICK n \in Nat : n = Cardinality(low)  BY <1>5
  <2>2. b \in [1 .. n -> R]  BY Zenon, <1>10, <1>11, <2>1
  <2> QED  BY <2>2
<1> QED  BY <1>1, <1>8, <1>11, <1>12, Zenon DEF OutboxBatch, OutboxRow

(* The variables of every part have their types, in every behaviour of the *)
(* whole and for every value of its constants.                             *)
THEOREM PartsTyped == PartsSpec => []PartsTypeOK
<1>1. PartsSpec => []TurnTypeOK  BY TurnsRefined, TurnInductive, TurnTyped, PTL
<1>2. PartsSpec => []EventTypeOK
  <2>1. EventIInv /\ [EventNext]_eventVars => EventIInv'  BY EventStepInv
  <2>2. EventIInv /\ EventKinds /\ [EventNext]_eventVars => EventKinds'
    BY EventKindsStep, OutboxRead
  <2> QED  BY <2>1, <2>2, EventsRefined, EventInitInv, EventKindsInit, EventTypedOK, PTL
           DEF EventSpec
<1>3. PartsSpec => []McpTypeOK  BY McpRefined, McpInductive, McpTypedOK, PTL
<1>4. PartsSpec => []ChannelTypeOK
  <2>1. ChannelIInv /\ [ChannelNext]_channelVars => ChannelIInv'  BY ChannelStepInv
  <2> QED  BY <2>1, ChannelsRefined, ChannelInitInv, ChannelTyped, PTL DEF ChannelSpec
<1>5. PartsSpec => []OaTypeOK  BY OaRefined, OaInductive, OaTyped, PTL
<1>6. PartsSpec => []RxTypeOK  BY RxRefined, RxInductive, RxTypedOK, PTL
<1>7. PartsSpec => []KyTypeOK  BY KyRefined, KyInductive, KyTyped, PTL
<1>8. PartsSpec => []AsTypeOK  BY AsRefined, AsTyped, PTL
<1>9. PartsSpec => []MrTypeOK  BY ModelsRefined, MrRuntimeTyped, PTL
<1>10. PartsSpec => []DbTypeOK  BY DebounceRefined, DbTyped, PTL
<1>11. PartsSpec => []CfTypeOK
  <2>1. CfIInv /\ [CfNext]_cfVars => CfIInv'  BY CfStepInv
  <2> QED  BY <2>1, CfRefined, CfInitInv, CfTypedOK, PTL DEF CfSpec
<1>12. PartsSpec => []ArTypeOK  BY ArtifactsRefined, ArTyped, PTL
<1>13. PartsSpec => []HtTypeOK
  <2>1. PartsInit => HtInit  BY DEF PartsInit
  <2>2. [PartsNext]_partsVars => [HtNext]_htVars  BY Zenon DEF PartsNext, partsVars
  <2>3. HtIInv /\ [HtNext]_htVars => HtIInv'  BY HtStepInv
  <2>4. HtIInv /\ HtKinds /\ [HtNext]_htVars => HtKinds'  BY HtKindsStep
  <2> QED  BY <2>1, <2>2, <2>3, <2>4, HtInitInv, HtKindsInit, HtTypedOK, PTL DEF PartsSpec
<1>14. PartsSpec => []ImTypeOK
  <2>1. PartsInit => ImInit  BY DEF PartsInit
  <2>2. [PartsNext]_partsVars => [ImNext]_imVars  BY Zenon DEF PartsNext, partsVars
  <2>3. ImIInv /\ [ImNext]_imVars => ImIInv'  BY ImStepInv
  <2>4. ImIInv /\ ImKinds /\ [ImNext]_imVars => ImKinds'  BY ImKindsStep
  <2> QED  BY <2>1, <2>2, <2>3, <2>4, ImInitInv, ImKindsInit, ImTypedOK, PTL DEF PartsSpec
<1>15. PartsSpec => []RmTypeOK  BY RemindersRefined, RmTypes, PTL
<1>16. PartsSpec => []AjTypeOK  BY JobsRefined, AjTypes, PTL
<1>17. PartsSpec => []CrTypeOK
  <2>1. PartsInit => CrInit  BY DEF PartsInit
  <2>2. [PartsNext]_partsVars => [CrNext]_crVars  BY Zenon DEF PartsNext, partsVars
  <2>3. CrIInv /\ [CrNext]_crVars => CrIInv'  BY CrStepInv
  <2>4. CrIInv /\ CrShaped /\ [CrNext]_crVars => CrShaped'  BY CrShapedStep
  <2> QED  BY <2>1, <2>2, <2>3, <2>4, CrInitInv, CrShapedInit, CrTypedOK, PTL DEF PartsSpec
<1>18. PartsSpec => []TypeOK  BY AgentsRefined, AgentsTyped, PTL
<1>19. /\ TurnTypeOK /\ EventTypeOK /\ McpTypeOK /\ ChannelTypeOK /\ OaTypeOK /\ RxTypeOK
       /\ KyTypeOK /\ AsTypeOK /\ MrTypeOK /\ DbTypeOK /\ CfTypeOK /\ ArTypeOK
       /\ HtTypeOK /\ ImTypeOK /\ RmTypeOK /\ AjTypeOK /\ CrTypeOK /\ TypeOK
       => PartsTypeOK
  BY Zenon DEF PartsTypeOK
<1> QED  BY <1>1, <1>2, <1>3, <1>4, <1>5, <1>6, <1>7, <1>8, <1>9, <1>10, <1>11, <1>12, <1>13,
            <1>14, <1>15, <1>16, <1>17, <1>18, <1>19, PTL
=============================================================================
