# Iulita: a TLA+ verification project

Iulita is a personal AI assistant: one Go process that connects chat channels
(Telegram, Slack, Discord, web chat, console and a mobile app) to language models, with
a registry of tools, a SQLite store, background jobs and a dashboard. This directory
holds TLA+ models of its concurrent core, the TLC configurations that check them on
small instances, and TLAPS proofs of their main properties for every instance.

Contents: 1 inventory, 2 plan, 3 modules and code, 4 runs and bounds, 5 fairness,
6 what is proved, 7 what is only model-checked, 8 disagreements found, 9 what is left
out. `PROJECT.json` has the index: components, runs, the map from definitions to
source lines, mutants, hazards, findings and theorems.

To check a run: `tlc -config TaskExec.cfg MCTaskQueue`. To check the proofs of a
module: `tlapm TaskQueueProofs.tla`.

## 1. Inventory

Paths are relative to `internal/`. "Hard" names what a test would hardly reach.

| component | state | operations | works with | hard | correct when |
|---|---|---|---|---|---|
| **task queue** `scheduler`, `storage/sqlite/tasks.go` | task rows (status, worker, claim time, attempts, unique key), scheduler state | create, claim, start, touch, complete, fail, cancel, reclaim, delete | handlers, dashboard REST workers, event bus | every statement is its own transaction; leases; crashes; several workers | a task is in one slot's hands, finished tasks stay finished, keys are unique, attempts bounded, every task finishes |
| task handlers, agent jobs, reminders `scheduler/handlers`, `skill/schedule`, `skill/reminders` | job and reminder rows, the ledger of scheduled SSH runs | create, pause, edit, delete; producers inside the tick or a trigger; one handler for each task type | task queue, assistant, channels, remote access | non-idempotent work under a queue that redelivers; whole-row edits from a stale read | a reminder is sent once, a firing dispatches its runbook at most once, and only for the job as it is |
| chat import `importer`, `scheduler/handlers/import_*`, `dashboard/import_handlers.go` | the run's row, imported keys, embedded chunks, one staged file per content | stage, import, heartbeat, cancel, reindex, sweep | task queue, storage | uploads, cancellation and dedup against a handler that resumes after a crash | "done" means imported, nothing is imported twice but for a named crash, the file stays while its task may need it, every run ends |
| **sub-agents** `agent` | shared token counter, results | Run, one goroutine per agent | LLM providers | check, call and deduction are three steps | bounded overrun, truthful errors, totals that add up, Run returns |
| assistant `assistant` | pending approvals, steering and follow-up queues, background queue | HandleMessage, Steer, FollowUp, Run, Shutdown, compression | channels, skills, LLM, storage | approval answered after it was replaced; compression against new messages | an approved call is the call that was asked about; no message lost |
| event bus `eventbus` | subscriptions, a wait group of asynchronous handlers | Subscribe, Publish, Shutdown | most components | Publish during Shutdown | Shutdown waits for every handler started |
| cost and rate limits `cost`, `ratelimit` | daily total and day, sliding windows | Track, IsExceeded, Reset, Allow | assistant, agents | the day changes between check and charge | no more than the limit in any window |
| interactive prompts `skill/interact`, `channel/telegram/confirm.go` | open prompts by chat | Ask, Confirm, answer, time out | channels, skills | an answer and the timeout at once; two prompts in one chat | one answer, to the prompt it was given for |
| channels `channel/*` | debounce buffers, prompt tables, connections | receive, send, edit, stream | assistant, channel manager | timer flush against new text | every text reaches the assistant once, in order |
| channel manager `channelmgr` | running instances with cancel functions | StartAll, AddInstance, UpdateInstance, StopInstance, HandleCredentialChanged, StopAll | channels, credentials | concurrent reload, stop while starting | one running channel at most per instance, with the latest configuration |
| LLM providers `llm` | router table, profile snapshots, caches | Complete, retry, fallback, route | vendors' HTTP APIs | switching routes under calls; retry of a charged call | a call uses one snapshot; a request is retried only when it may be |
| local model runtime `modelruntime` | durable revision, stages, probes, admissions, leases | Stage, probe, apply, roll back, acquire | storage, LLM | a stage prepared against an old revision; calls during a swap | an applied stage was validated against what it replaces |
| remote access `remoteaccess` | SSH sessions, leases, background commands | open, run, background, poll, kill | skills, vendors | lost connection with a command running | an outcome in doubt is not reported as failure or success |
| MCP client and worker `mcpclient`, `mcpworker` | connections with revisions, plans, executions, pooled sessions, broker leases | Create, Update, Action, Prepare, Approve, Execute, refresh, Invalidate | MCP servers | approval of a plan whose connection has changed; crash during an execution | only an approved, unchanged plan runs, and once |
| **mobile device tasks** `mobile/devices` | control stream, native sessions, phone tasks, commands, UI leases | OpenControl, Session, Create, Next, Receipt, Sync, Sweep, ... | mobile OAuth, conversations, the phone | lost sends, late receipts, reconnects, revocation, deadlines | nothing runs without authority or twice, what is reported is what is known, everything ends |
| mobile OAuth `mobile/oauthstore`, `browseroauth` | families, refresh chain, device flows, nonces, keys | authorise, refresh, bind, revoke, sweep | devices, conversations | refresh answered but lost; reuse detection | one live refresh token per family; revocation reaches everything |
| mobile conversations `mobile/conversations`, `engine` | turns, runtime lease and fence, prompts, tool journal, event log | Accept, Claim, Complete, Cancel, OpenPrompt, Decide, PrepareTool, StartTool, FinishTool, PublishTask | devices, assistant tools | two runtimes, a fence lost in the middle of a turn, a tool in doubt after a crash | one runtime writes; a tool that may have run is not run again |
| HTTP fetch and artifacts `httpfetch`, `httpartifact` | plans and consents, standing grants, permits; reservations, files, leases | run a plan, ask, redirect, download; Begin, Commit, Abort, Sweep, Delete | skills, storage, channels | a server chooses the next target; an answer that never comes; sweep against an open writer | secrets stay at their origin, changes and large bodies are agreed to, doubt is reported as doubt; quota kept; no file without a row for ever |
| storage `storage/sqlite` | the SQLite database | queries and statements | everything | statements outside a transaction | those of its clients |
| configuration and credentials `config`, `credential` | two tables (overrides, credentials), a cache of each, what skills were told | load, migrate, replay; get, set, rotate, delete, bind | dashboard, channels, LLM, skills | row, cache and notification are three steps; one store hides the other; a crash in the migration | no secret is lost; caches agree with their tables; a skill has the value that counts |
| skills `skill`, `skillmgr` | registry, installed packages | register, execute, install | assistant | mostly sequential | |
| dashboard `dashboard` | tokens | REST handlers | task queue, stores | mostly request handling | those of the stores |
| entrypoint, support, generated code | | wiring, formatting, catalogs, protobuf, Vue | | none of their own | |

## 2. Plan

The order was by what a fault would cost: work that is lost or done twice comes first.

1. The task queue (TaskStore, TaskQueue), the sub-agents' budget (Orchestrator) and the
   phone's control protocol (PhoneTasks), each with proofs.
2. Mobile conversations (MobileTurns), with the abstract specification ToolEffects that
   their journal implements, and the way of a phone task's event to the screen
   (ChatEvents).
3. Executions that leave a lock: MCP calls (McpClient), SSH commands and keys
   (RemoteExec, RemoteKeys), model routing (ModelRuntime), channels (ChannelManager).
4. Grants and conversations: MobileOAuth, AssistantTurns, Confirmations, Debounce.
5. Files, the web and the schedule: Artifacts, HttpFetch, ChatImport, Reminders,
   AgentJobs, Credentials.

All of these are built, and their safety is proved for every instance (section 6). What
would come next: prompts with free answers, terminals and transfers of remote
access, and the composition of AssistantTurns with Confirmations.

## 3. Modules and the code they model

| module | models |
|---|---|
| `TaskStore` | the statements on the task table (`storage/sqlite/tasks.go`, the task part of `imported.go`, the index and migration of `sqlite.go`) as functions on a row |
| `TaskQueue` | who issues them: `scheduler.go` tick, `worker.go` Start and executeTask, the REST handlers of remote workers, TriggerJob and the other requesters, crashes and the clock |
| `TaskQueueClaims` | what a comment in `handlers/jobs.go` says of the queue and the code does not keep |
| `TaskQueueProofs`, `MCTaskQueue` | proofs about TaskQueue; its instances for TLC |
| `Orchestrator` | `agent/orchestrator.go` Run with the loop of `agent/runner.go` |
| `PhoneTasks`, `PhoneTasksProofs`, `MCPhoneTasks` | `mobile/devices`: control.go, tasks.go, ui.go, parents.go, maintenance.go, session_revocation.go, the UI part of observations.go, with `transport/device.go` and oauthstore's invalidateDeviceState; proofs; instances |
| `ToolEffects` | abstract: an operation takes effect at most once, and a turn's report is true for good |
| `MobileTurns` | `mobile/conversations` (accept, claim, fence, journal, prompts, cancel, clear) and `mobile/engine`; it implements ToolEffects |
| `ChatEvents` | `mobile/devices/events.go`, `conversations/task_events.go`, `events.go` and the transport's WatchEvents |
| `McpClient` | `mcpclient` service.go, oauth.go, protocol.go |
| `ChannelManager` | `channelmgr/manager.go` under the dashboard's requests |
| `MobileOAuth` | `mobile/oauthstore` with the token endpoint of `mobile/browseroauth` |
| `RemoteExec`, `RemoteKeys` | `remoteaccess` service.go, runbooks.go; keys.go |
| `AssistantTurns` | `assistant/assistant.go` HandleMessage, compression, approvals; `messages_summary.go` |
| `ModelRuntime` | `modelruntime` manager.go, probes.go |
| `Debounce`, `Confirmations` | `channel/slack/debounce.go` and Telegram's; `channel/telegram/confirm.go` |
| `Artifacts` | `httpartifact` with its rows |
| `HttpFetch` | `httpfetch`: engine, steps, consent, redirect, body, download, extract |
| `ChatImport` | `dashboard/import_handlers.go`, `handlers/import_claude_export.go`, `import_reindex.go`, `imported.go` |
| `Reminders`, `AgentJobs` | `handlers/jobs.go` (ReminderJob, AgentJobsJob), `reminder_fire.go`, `agent_job.go`, the skills and requests that edit the rows, `runbooks.go` ExecuteScheduledRunbook; both INSTANCE TaskStore for the table |
| `Credentials` | `credential/store.go`, `config/store.go`, and the order of the start-up in `cmd/iulita/main.go` |
| `MCParts` | the parts from MobileTurns down, and Orchestrator, as one model for TLC |
| `MobileProofs`, `AccessProofs`, `ConnectorProofs`, `TalkProofs`, `ScheduleProofs` | proofs about the parts |
| `PartsProofs` | what these say of MCParts |

Operators named after a bug (ClaimableAny, EndCmdKeepsQueued, ConsentClosed, ...) stand
before the definition they deform. No specification uses them: substituted for that
definition, they show that a property notices the bug.

### TaskStore and TaskQueue

`tasks` is the table: a row has its status, owner, attempts, whether it holds its unique
key, whether its scheduled time has come (`due`), the age of its lease (`none`, `fresh`,
`expired`, for claimed_at against the stale timeout) and whether its TTL is over. Times
are these flags; actions of the clock (LeaseExpires, BackoffEnds, TaskTTLPasses,
NextRunPasses) set them.

The unit of atomicity is one SQL statement, since no method of tasks.go opens a
transaction. ClaimTask is therefore ClaimSelect (the candidates) and then ClaimUpdate
(one conditional update for each turn of its loop); CompleteTask and FailTask are a
query and a write; CreateTaskIfNotExists is a check and an insert, in the tick
(SchedCheck, SchedInsert) and for requesters (RequestCheck, RequestInsert). SQLite
orders the statements (one writer at a time); nothing orders the methods.

A *slot* is one of the `concurrency` executions of a worker, local or remote. A remote
slot goes through the REST handlers: it survives a Crash of the process and publishes no
event. GiveUp is a failing statement or the death of a remote worker: the slot forgets,
the row stays. Crash empties what is in memory and reruns the migration. The
coordinator's errors are actions of their own, because the tick goes on after each.

History variables: `reclaims` counts CleanupStaleTasks per task; `overrun` holds
the tasks it took from a slot that was still at work; `published` holds the TaskCompleted
events.

### Orchestrator

One goroutine per spec, clamped to MaxAgents. A goroutine waits for the semaphore, looks
at the context, checks the budget, calls the model and deducts: each is a step.
A response is what it cost and whether it asks for tools. Finish is what follows
`eg.Wait`.

### PhoneTasks

`stream`, `session`, `task` and `cmd` are the tables mobile_device_streams,
mobile_native_sessions, mobile_phone_tasks with mobile_ui_tasks, and mobile_phone_commands
of one device. Each method of Store runs in one transaction behind the account's
reservation (`store.go`, `with`), so one method is one action: OpenControl,
Capabilities, StopSession, Session, Create, CreateUI, Next_ (Next is TLA+'s own name),
Receipt, Sync, AdvanceUI, RenewUI, ReconcileParents, Sweep, DispatchLost and
InvalidateDeviceState. `sending` holds what lies between the commit of Next and the end
of its Send, where the connection may be lost and another stream may open. A receipt is
possible for any command that left the queue, in any order, any number of times, with
either value of its flags: the network and the phone are not trusted. An error rolls
the transaction back and ends the stream, which CloseControl covers. Deadlines are
flags again, set in the order the code's expiry bounds allow: a command before
its lease, a lease before its task, a task before its session. Restart loses the
ephemeral payloads.

`reconciled` is history: UI tasks whose uncertain command a receipt settled later.

### Who stands alone and who does not

The parts below share no variables in the code either: each keeps its own tables or its
own lock, and they meet through calls whose answers are choices of the callee. Where
they do meet, a module holds both sides: PhoneTasks has oauthstore's invalidation,
ChatEvents the two databases, MobileTurns the engine with the journal and the phone's
consents, AgentJobs the queue with the remote runbooks' ledger, Reminders the queue with the
rows, Credentials both stores with the start-up.

### MobileTurns, ToolEffects, ChatEvents

One account, one process at a time under a runtime lease with a fence. A turn is admitted,
claimed and worked on: each operation of its journal is prepared, perhaps confirmed by
the owner, started, done outside, and finished; the process may die, lose the lease,
or find the conversation cleared, cancelled or revoked between any two. ToolEffects is
what a user would want to know: an operation happens at most once, and "nothing happened"
or "all is known" stays true. MobileTurns instantiates it as `Promise`: `done` counts the
effects that really happened, `report` is TurnReport, the state of the turn's row as its
owner reads it; the run checks `EffectsAtMostOnce == Promise!EffectsSpec`. ChatEvents
follows a version of a phone task from the devices' outbox through PublishTask, the event
table and a client's cursor, with crashes between the publication and `published=1`, and a
log that forgets old events.

### Executions that leave a lock

McpClient, RemoteExec, RemoteKeys, ModelRuntime and HttpFetch have one shape: check under
the lock, act outside, record under the lock. Everything the owner can change in between
changes in between: revisions, reviews, policies, grants, credentials. "What was
shown" is kept with the plan, and the properties compare it with what stands when the
call leaves. A failed write (`Breaks`, `Faults`) breaks the service until its restart or
is undone, as the code does; a restart turns what was on its way into an unknown outcome.
In RemoteKeys the host is state of its own. Each operation is KyStart (check, mark, save),
the execution (KyRefuse, or KySend and then KyChange or KyLook) and KyFinish (record, save).
A save may fail and reach the file or not; memory is changed before it, so that `kyCat` and
`kyDisk` differ until KyRestart reads the file. A script whose connection or service was
lost while it ran goes to `kyLate` and may land at any later time or never: the lock on
the host orders it with scripts that write, but logins and inspections take none
(keys.go:206, 360). `kyStray` is history: scripts that landed after the host had been seen
without them (a removal after its key logged in, an installation after an inspection found
no line).
HttpFetch adds the server: any status, any Location, a body of any size around the
limits.

### AssistantTurns, Confirmations, Debounce, ChannelManager

Turns of one chat overlap (a web chat starts a goroutine for each message) and share the
pending approval and the stored history. The model and the tools are external: a model call
ends with a text, a batch of tool calls, an overflow or an error. Confirmations has the
dispatch loop, the buttons that stay until an edit removes them, and the select of click,
deadline and cancellation. Debounce has timers with Go's semantics: one that has fired
and is reset fires again.

### ChatImport, Reminders, AgentJobs

ChatImport has two uploads of one export, the row that says what became of it, one task and
a handler that resumes: a task is inserted after the row, and the handler reports before
the worker ends the task, so that a request can run in between. Reminders and AgentJobs
instantiate TaskStore: their tables are its rows, and they use its insertion, claim,
completion, failure and reclaim. ClaimTask with StartTask, and each of CompleteTask
and FailTask, is one step there (TaskQueue has the parts). An event that explains one more
message or one more firing is counted (`rmExcuse`, `ajExcuse`); section 8 lists what these
events are, for some of them are races without any fault.

### Credentials

A row, a cache and the value the skill was told, for each of the two stores, changed one
after the other; the start-up loads, migrates (row, cache, then the override), and
replays. A crash may come at any point. `crRaced` says that requests overlapped since the
start, after which the caches may differ from the tables (section 8).

## 4. Runs and bounds

Passing runs:

| run | states | what it shows |
|---|---|---|
| `task_exec` | 207,900 | One task at a time, two slots (one local, one remote and without a handler for j2), three faults: mutual exclusion, leases, attempts, events and final states over retries, crashes and reclaims |
| `task_settles` | 402,957 | Two tasks, a schedule producing both jobs against a trigger, one fault: keys stay unique although the check and the insert are two statements, and under fairness every unfinished task is finished |
| `phone_system` | 356,989 | A system task, two sessions, two generations, two streams, invalidation and a fenced origin |
| `phone_ui` | 150,321 | A UI task with its observation and one step, two streams, all faults; it ends under fairness |
| `phone_exclusive` | 473,685 | Two UI tasks on one session generation |
| `parts_safe` | 1,298,673 | Safety, action properties and the refinement of the parts |
| `parts_live` | 69,339 | Their liveness |

Runs that must fail, one disagreement each (section 8): `task_never_retried`,
`mobile_clear`, `history_loss`, `slack_debounce`, `artifact_quota`.

### The union of the parts

`part` is chosen in the initial state and never changes; only that part's Next moves,
everything else stays initial. The reachable states are the disjoint union of the parts'
own, so an invariant, an action property, a temporal property or a refinement of a part
holds in the union exactly when it holds of that part's own specification, provided it holds
in the initial states (where the others stay). Each part keeps its Spec for use on its
own. What is gained is one set of constants and one run for one kind of question; what is not
claimed is any interleaving between parts. `Parts` names those a run looks at:
oauth and secrets have no liveness property, jobs has none either (nobody has to keep a
schedule enabled), debounce and artifacts have their safety checked along the fair
behaviours (NothingLost).

| property | parts it is about |
|---|---|
| PartsTypeOK | the type invariant of every part |
| MobileSafe | TurnSafe: order of turns, one at a time, effects approved first. EventSafe: a follower misses nothing and hears of nothing twice |
| McpSafe | a call goes out at most once, a report is true, an authorization code is redeemed once |
| RegisteredRuns | the goroutine in the map runs and can be cancelled |
| OaSafe | a refresh token is redeemed once, revocation reaches everything, no token outlives the account version it was made for |
| RemoteSafe | RxSafe: one dispatch for an approval or a firing, truthful records, bounded grants. KySafe: a definite inventory is right, one writer, the last key stays, also when a script in doubt lands late, unless it was belied first |
| TalkSafe | AsSafe: an approved call is the one asked about, runs once, and not across the boundary of remote output. CfSafe: a question is answered by whom it was put to |
| MrSafe | a managed model was proven under its own fingerprint, a denied one stops, "applied" is true |
| HtSafe | secrets stay at their origin; changes and large bodies are agreed to; doubt is reported as doubt |
| ImSafe | done means done; no fact twice but for a named crash; the file stays while its task may resume |
| ScheduleSafe | RmSafe: one message a reminder. AjSafe: one dispatch a firing, for the job as it stands, one firing a period |
| CrSafe | no secret is lost, caches and tables agree, the skill has the value that counts |
| BudgetKept, SummaryExact | the sub-agents' overrun, error and totals |
| EffectsAtMostOnce | MobileTurns implements ToolEffects |
| NothingRevived | ended turns, refused tokens and denied models stay so |
| UnderAuthority | an MCP call or SSH command leaves under the review or plan that was shown |
| AsBounded | a turn makes a bounded number of model calls, and ends with the model's text only if what was asked for was done |
| NothingLost | DbSafe: text is in one place and will be flushed. ArLivePartKept: the file of a download in progress stays |
| WorkSettles | mobile turns, MCP calls, SSH commands, key operations, checks, HTTP runs, imports and reminders end and are recorded; of keys and commands, unless a failed save has stopped the service; of imports, where no run is left as section 8 describes |
| MessagesArrive | phone events at the screen, debounced text at its handler, an answer to every message |
| WaitsEnd | confirmations, stopped channels, sub-agents, leftovers on disk |

### Why the bounds are enough

*Tasks*: statements name one row by its id, apart from the unique key and the candidate
list, and those need two rows. *Slots*: a race over one row needs two; one is local
and one remote because only these behave differently. *MaxFaults 3* lets a task be
lost, taken over and lost again; j1 has two attempts, so that a retry, a last attempt
and a reclaim meet. *ClaimLimit* stands for LIMIT 20: 2 never cuts two tasks. *Agents*:
overrunning the budget takes two, and 3 tokens at 2 a call let both pass the check and
one fail it later. *Epochs and generations*: 2 give one stale value, and a third adds only
another stale one that no test tells apart from it. *Steps 1*: a UI task then has the
observation, a step that depends on it and an end. *MaxBusy* is the code's 8. Where a bound
might hide something, the theorems of section 6 hold for every value of it.

*Parts*: two of each actor that races (turns, callers, families, requests, keys, uploads,
operations, jobs), one value more of each version than is current, and enough faults for
the shortest bad trace of each mutant. Some instances are worth a word. MobileTurns:
two turns of one chat, the first with an operation to confirm and a native one. McpClient:
three changes let a connection be edited, refreshed and deleted around one plan. Debounce:
two messages of one chat and one of another. Reminders (live): three faults, so that the
three attempts of a task are used up and the row must be picked up again. AgentJobs: the
ledger of 10,000 entries that keeps 8,000 is one of two entries that keeps none, so
that a firing's entry is pruned while its task waits to be repeated; the run has the
scheduler's tick alone (`AjLoops`), and with the trigger beside it, and the clock, the
module passes on its own with 8.6 million states. RemoteKeys: three operations on two keys with
one fault (a failed save, or a restart): a lost removal, an inspection and a verification of
its key, or a lost install, a failed save and an inspection after the restart, with the script
landing anywhere in between. At first none, one or both keys are installed, for installing
them would use up the operations. The one way to lose the last key (section 8) takes four
operations and is met by the proof only. Credentials: two requests of any kind
after one start-up, with one crash or failed statement; three requests and two faults
pass on their own with 1.2 million states.

Deadlock is checked in the task and phone runs. The runs of MCParts do not check it:
a part whose bounded inputs are used up has nothing left to do. No run uses a state
constraint or symmetry.

## 5. Fairness

*TaskQueue*: weak fairness of the coordinator (`scheduler.go` ticks for the life of the
process), of every slot (`worker.go` polls in a loop, and handlers run under a timeout)
and of the passing of time. Not fair: requests, heartbeats, faults, cancellations. A lease
has to expire only when nobody holds the task. A slot that can execute every job it can
claim is part of the instance: `worker.go:140` explains why (section 8).

*PhoneTasks*: weak fairness of Sweep (Run calls it each second) and of deadlines. Nothing is
assumed of the phone, of its connection, or of any other method: the task ends even
if nobody ever answers.

*The parts* (MCParts; all weak): what is fair is what a loop of the code repeats or a
deadline of the code forces, and never a user, a request that has not come, or a fault.

| fairness | steps | because |
|---|---|---|
| TurnFairness | workers, claims, the successor of a process whose lease ran out, reconciliation after an account change | the engine polls; worker contexts have deadlines; a supervisor restarts the process |
| EventFairness | the publisher's steps, the client's watch and poll | the devices' maintenance loop; a client that is there keeps watching |
| McpFairness | the call, its answer, its record | calls have deadlines |
| ChannelFairness | requests that have begun, a cancelled channel's return | handlers run on; Start returns when its context ends |
| RemoteFairness | confirmation refused or answered, transport, record (of a command, of a key); not: a script that lands late, a save that works | deadlines of the run and of the transport |
| TalkFairness | turns of the assistant, goroutines of sub-agents | model calls and tools have deadlines |
| SmallFairness | a started check, timers and their callbacks, the expiry of a question, the sweeper, leases | the same |
| WebFairness | the steps of a run, the import handler, requests once they began, the reclaim of stale tasks | WallTimeout and ConsentWait; worker and scheduler loops |
| ScheduleFairness | the tick's read and inserts, the worker, backoffs, the reclaim | `Scheduler.Start`, `Worker.Start` |

The action that is fair is conjoined with the part being the one that runs.

## 6. What is proved

23,985 obligations in eight modules, for all values of the constants that satisfy the
modules' assumptions. All invariants and action properties of the passing runs are theorems,
and so is the refinement of ToolEffects.

| module | about | obligations |
|---|---|---|
| `TaskQueueProofs` | TaskQueue | 1,317 |
| `PhoneTasksProofs` | PhoneTasks | 1,626 |
| `MobileProofs` | MobileTurns with ToolEffects, ChatEvents | 2,730 |
| `AccessProofs` | MobileOAuth, RemoteKeys, RemoteExec, Credentials | 4,069 |
| `ConnectorProofs` | McpClient, ChannelManager, HttpFetch, Artifacts, ModelRuntime | 6,179 |
| `TalkProofs` | Confirmations, AssistantTurns, Orchestrator, Debounce | 3,096 |
| `ScheduleProofs` | Reminders, AgentJobs, ChatImport | 4,480 |
| `PartsProofs` | MCParts: what the above say of the composition | 488 |

*Assumptions.* They give the constants their types. Those with substance: something exists
(a job, an attempt per job, a session, a reminder, a first model); what is counted is
finite (turns, messages, keys, families, slots, loops, artifacts); a limit is at least one where the
code has a positive default, and a bound on faults or time is a number; a batch of tool
calls is not empty, as a response without calls ends the loop; an execution's number is positive, for zero is "none"; the
plans of HttpFetch are what Validate accepts (a variable is used after the step that
extracts it); the ledger keeps fewer entries than it may hold (8,000 of 10,000); the value
"none" is not a secret. TLC evaluates them in every run that extends the module.

**TaskQueue**: TypeCorrect, KeysUnique, Leases, MutualExclusion,
BoundedAttempts, TruthfulEvents and the action property FinalStates. The inductive
invariant `IInv` adds to the properties: `Fresh` (nobody knows an id not yet inserted),
`SlotInv` (what a slot believes of a task not overrun is true: a running slot's row is
running, a retry it decided on is still allowed) and `AttemptsInv` (a task that may
still be started has an attempt left). SlotInv is the heart: Exclusive alone is not
inductive, since ClaimUpdate could give a row to a second slot if a held row could be
pending. Every property excludes `overrun`, because a handler that outlives the stale
timeout really loses exclusivity: FailTask tests the id alone. The proofs
show this is the *only* way. Layout: what each statement does to a row (Effect lemmas),
what each action does to the table and the slots, one lemma for each conjunct.

**PhoneTasks**: TypeCorrect, QueueIsFenced, SystemIsTruthful,
StepsAreOrdered, UIIsExclusive, UISuccessIsComplete, CommandsNeverReplayed,
TasksEndForGood, OneSession, SessionsNotRevived. The inductive invariant is TypeOK,
`Core` and `Deadlines`. Core strengthens StepsInOrder to the rows that Insert and
AdvanceUI overwrite (a row beyond the current step is blank, a pending command belongs
to an open task). Deadlines says that a task whose time is over has only commands whose
time is over, without which a sweep could end a task and leave its command queued.
The actions fall into classes, each with one lemma: those that end tasks (EndStep),
move one command (CommandStep), set a flag (FlagStep) or touch no task (IdleStep);
Insert, AdvanceUI, Receipt and Sweep have proofs of their own. The step lemmas prove the
action properties and the invariant together. Sessions are proved apart from
tasks: every action but Session only retires them.

**MobileTurns**: TurnSafety, TurnEndsForGood, and EffectsImplemented, the refinement of
ToolEffects step by step. `TurnIInv` relates the journal's row of an operation, its effect,
its call on the way and its prompt (`OpInv`): nothing has happened before "started", nothing
is on its way after "succeeded", and what was started had an approval whose prompt is closed
for good. The generations of chat, account and lease are bounded by the faults that
made them. Each class of steps has a lemma (CallStep, PromptStep, WorkOnly, HaltMany,
AroundInv), so that an action's proof says which class it is in. *ChatEvents*: EventSafety.
A client's stream is the log after its cursor (`StreamFollows`), and a transition announced
is in the inbox or its row is too old to be published again (`Recalled`).

**MobileOAuth**: OaSafety, OaRefusedForGood. `OaIInv` says of each family what withdraws its
authority (owner epoch, device epoch, revocation: `Authority`) and how its chain of rows
agrees with it (`Rows`), with the one exception that a device's own recovery makes. Whether
a token is good is then one statement about the family (OaGood), and both theorems use it.
**RemoteKeys**: KySafety. A state in the catalog, in memory or in the file, is what one operation
left, and says which scripts of its key may yet land. `KyIInv` relates the two catalogs, the
mark of an operation under way (KyOpInv), what its execution found (KyFound) and the scripts
nobody waits for: a key is installed once, so that one that left the host comes back only by
a late script of that installation, and one that a removal counted on is not itself being
removed while it stands (OneStays). **RemoteExec**:
RxSafety, RxSeenPlan. The same `CatInv` holds of the catalog in memory and of the file, so
that a failed save (the file keeps the old one) and a restart (memory takes the file's) are
no cases of their own. The uses of a grant are counted by its revision: a claim counts
against the grant that stood, and a new revision starts again, as in the code.
**Credentials**: SecretsAreSafe; what each half-done operation still owes (`CrDoing`), for
operations that do not overlap.

**McpClient**: McpSafety, McpSentReviewed. A plan or a call names a revision, and as long as
that is the connection's own, what was reviewed then is reviewed now (`Names`): every edit
that could take the review away makes a new revision. **ChannelManager**: ChannelSafety, nearly
inductive as it stands. **HttpFetch**: HttpIsSafe; of a run what the user said to it,
of a request that left that it was covered by it, with the bound origin of each secret.
**Artifacts**, **Debounce**: LosesNothing. **ModelRuntime**: MrSafety, MrDeniesForGood; what
memory denies the stored state denies too (`MrStores`), so that a restart forgets nothing.

**Orchestrator**: OverrunIsBounded, BudgetErrorIsTruthful and, both together as the run
checks them, BudgetIsKept; SummaryIsExact, AgentsTyped. The bound is not inductive, because a call that
passed the check is not yet charged; `OverrunInv` charges every call in flight at its
highest cost, and the proof counts the calls in flight with FiniteSetTheorems. The totals
are folds: SumMoves (one term changes, and the sum by as much) is an induction over the
agents, done by the smallest set that breaks the rule (SmallestSet, from the library's
well-founded order on finite sets), and `Conserved` then follows step by step.
**AssistantTurns**: AsSafety, with AsBounded: two model calls pay for an iteration and an
overflow for one more; what a turn believes to have achieved, a tool it ran itself achieved;
a call that waits is of a turn that is over, so nobody else can add to what it was asked
for. **Confirmations**: CfSafety; a question that is still open has no answer anywhere (in
hand, in the channel, recorded).

**Reminders**: RmSafety counts: what was sent, the tasks that will be claimed
(pending, or running without a goroutine) and the goroutines that have yet to send are
together no more than one and the excuses, and one fewer while the row waits for a task.
Each step moves one task or one goroutine (RmMoves), and an excuse is drawn exactly where
the sum grows: a crash, a failed mark, a reclaimed overrun, a tick with an old read.
**AgentJobs**: AjSafety. For "one firing a period" the firings that loops still hold are
counted against the periods that have begun and the excuses, one fewer while the row may be
read (`AjCountedOf`). For "one dispatch a firing" the ledger is the point: a claimed firing
stays claimed when old entries go, because the floor rises with them (AjRaisedOk), and
there is an entry to cut at (AjCutoffIn, where the least element of a set of numbers stands
for an induction). **ChatImport**: ImportIsSafe; where the handler is says what of the
archive is there (`ImPlace`), and a fact without its key is the handler's or a failure's.

**The composition**: PartsNext moves one part and leaves the others, so that PartsSpec implies
each part's specification (the `Refined` lemmas), and what was proved of a part holds of
PartsSpec under the name of the run's property: MobileIsSafe, RemoteIsSafe, TalkIsSafe,
AgentsAreExact, ScheduleIsSafe, ConnectionsAreSafe, ImportIsSafe, SecretsAreSafe, HttpIsSafe, ModelsAreSafe,
LosesNothing, EffectsOnce, ActsUnderAuthority, RevivesNothing, PartsTyped.

**Types.** PartsTyped says that PartsTypeOK holds of the whole; it is put together from one
result for each of the eighteen parts. The inductive invariants above carry the types their
proofs need. What is left, where something is, is in a second invariant of the part
(`ArKinds`, `AsKinds`, `ImKinds`, `RmKinds`, `AjKinds`, `EventKinds`, `HtKinds`, `DbKinds`,
`CrShaped`), inductive given the first, and the two together give the part's TypeOK. What takes an argument:

- ReadOutbox and GetHistory take the first or the last rows of a query and put them in
  order: the k-th row is the one with k - 1 before it. That there is one is CountedOff: a
  finite set whose elements have different numbers has, for each k below its size, an element
  with exactly k smaller ones. It is an induction on the set, by its least counterexample.
- Reminders and agent jobs write the task table through TaskStore, whose statements are
  functions on a row. `RmRowsStay` and `AjRowsStay` say that every statement returns a row,
  `RmFreshRow` and `AjFreshRow` that an insert does. A row that has not been inserted keeps its
  initial value until the counter reaches it.
- What is written later than it was read (an edit of a job, the firings in a loop's hands)
  is typed where it is held, and not in the table only (`AjRowKinds`).
- The quota that artifacts reserve is at most one for each download that has begun
  (`ArKinds`): each reserves once, and a release never takes the count below zero.

## 7. What is only model-checked

Liveness everywhere (Settles, WorkSettles, MessagesArrive, WaitsEnd): fairness and ENABLED
are out of the proof system's reach. The properties of section 8 are false and have
counterexamples. Every invariant and every action property of the passing runs has a
theorem.

## 8. Where the code and its documentation disagree

Each has a run whose counterexample is the trace:

| run | the code | what is said |
|---|---|---|
| `task_never_retried` | CleanupStaleTasks puts a started task back whatever its attempts, so an agent job with one attempt is started again after a crash | handlers/jobs.go:200 "Agentic jobs are NOT idempotent [...], so never auto-retry the whole loop." |
| `mobile_clear` | clearing a conversation deletes the turn a worker holds; neither Complete nor Cancel finds it, and the engine takes that for a broken store and stops the process | docs/en/mobile-api.md:332 "Clear/cancel/revocation fence pending work" |
| `history_loss` | compression deletes every message up to the last it summarised, also those too old to be in the history it read | README.md:32 "automatically summarizes old messages when context window fills up" |
| `slack_debounce` | a timer that fired and whose callback waits for the mutex is reset: two Done for one Add | channel/slack/debounce.go:85 "its timerWG.Done() must be called here to balance the Add()" |
| `artifact_quota` | a periodic sweep zeroes the reservations of downloads in progress | httpartifact/store.go:100 "The reservation is held until Commit or Abort." |

Observed while modelling, without a run (most are stated in a module's comments or kept
out of a property by a history variable):

*Task queue.* FailTask's update tests the id alone, so a late failure can revive a
finished task after an overrun (tasks.go:214). CompleteTask's update may match no row then
(tasks.go:173), and its event is published all the same. ClaimTask's select and update are not one
transaction, though docs/en/scheduler.md:105 says so, and the conditional update makes up
for it (Exclusive). ClaimTask limits the candidates to twenty before it compares
capabilities (tasks.go:88, against main.go:2083). TouchTask matches any owner's row, so
its answer is not "still owned" (imported.go:425). A completion over REST publishes no
TaskCompleted (handlers.go:648). A task no worker has a handler for is failed before
its attempt is counted and returns for ever (worker.go:140). SaveSchedulerState failing
repeats the tick (scheduler.go:210). The comment on the token overrun (runner.go:146)
leaves out that every agent, not all but one, may be past the check; the proved bound is
one full call of each agent less one token.

*Phone.* A SUCCEEDED receipt that comes after Sweep made a UI command unknown_outcome lets
advanceUI queue the next step (maintenance.go:26, against control.go:346). OpenControl does
not look for unknown_outcome and reports such a UI task as cancelled (control.go:34, against
docs/en/mobile-api.md:356). ReconcileParents looks at eight tasks in no particular order
(parents.go:20).

*Reminders and jobs.* A reminder is sent again after a crash, a failed mark or an overrun,
and without any of them when the tick read the row before it was marked: the second task's
handler does not look at the status. A reminder cancelled with its task queued still
fires and is then marked fired. The schedule of a job is advanced before its task
is inserted (jobs.go:208), so a crash between the two skips a firing, and where the
advance fails the job fires again at the next tick. UpdateAgentJob writes the whole row
from an earlier read (agentjob_handlers.go:164, schedule.go:275), which can restore
a next_run that has passed. A trigger and the tick that read the same due job fire it twice
when the first task is over before the second insert.

*Credentials.* Rotate writes its credential again to record the date (store.go:324)
and overwrites a Set that came in between. Two overlapping requests can leave the cache
different from the table until a restart; a Set that races a Delete reports success though its UPDATE
matched no row. A secret saved on a skill's configuration page while a credential of
that name exists is told to the skill (main.go:2725 reads the override alone) until
the next start, when the older credential wins, against main.go:1564 "so skills pick up
tokens saved via dashboard"; deleting such an override tells the skill there is
no value although the credential is there. The migration copies base values from the
configuration file too, and so hides later edits of the file.

*Chat import.* A run can say "running" for ever (`imBroken`): a request that dies or fails
between the row and the task, one whose insert meets a task that has reported and has not yet
been ended, or a reindex that writes "running" after its task is over; import_handlers.go:132
speaks of a manual resume by uploading again, which answers already_queued. A crash after
the first chunk leaves a message embedded in part. A crash between a fact and its
key imports the fact twice. A late upload can turn "done" into "failed", because the
import removed the file both share.

*HTTP.* A change that was sent and then cancelled or timed out is reported as `cancelled` or
`timed_out` and not as `outcome_unknown` (steps.go, classifyTransportError's comment).
Disabling the tool does not cancel requests under way (engine.go:127 says it does); a
consent answered afterwards still sends. The timeout of a step is computed and never
applied (steps.go:99). A chunked body of exactly the hard cap is refused.

*Artifacts.* A sweep between the rename and the update of the row deletes file and row while
Commit reports success (store.go:319); a failing Close leaks a reservation; leases are
never renewed.

*Channels and prompts.* A disabled instance may keep running when a restart overlaps
(channelmgr/manager.go:417). A channel's goroutine that ends deletes the entry of its instance,
whosever it is by then (manager.go:832), and two reloads may both start one, of which the first
is then in no map; such a channel runs until it ends by itself or with the process. Telegram's flushAll does not wait for a callback that
already took its buffer. Confirmations are bound to the last sender of the chat, so in a
group another message rebinds them (confirm.go:271). A prompt's deferred delete removes a
newer prompt of its chat (prompter.go:97). Messages of several people in one buffer are
attributed to the first.

*Assistant.* A call to approve is stored before the question is sent; any member of a
chat may answer a prompt-level approval; a second compression stores no user id.

*Model runtime, OAuth, remote access.* Drafting A, then B, then A again and activating
denies the credential in use (manager.go ~895). A crash between the rollback of a replayed refresh
and its clean-up loses the family's revocation (transactions.go:74). Executions refused for
a missing credential get no end time and are never evicted (service.go:971).

*Managed keys.* A removal whose connection is lost may still be waiting on the host when an
inspection and a login with its key succeed, which take no lock there; the key is then
verified again, serves as the alternate for the removal of the last other key, and the first
removal lands: no key is left, against keys.go:234 "RemovePublicKey never removes [...] the
last verified key". In the same way an inspection may record `removed` before a lost
installation lands, and nothing looks again. A failing save leaves an installation
`..._pending` in memory with no operation under way, until a restart (keys.go:174, 214, 257).

## 9. What is left out

*TaskQueue*: TaskFailed events (nothing reads them back), payloads, logs, metrics. A
worker claims from a single goroutine; slots claim independently here, which
allows more. Ids are not reused, and MaxTask bounds them.

*Orchestrator*: prompts, tool filtering and tool execution, which touch neither the budget
nor the results of others; the delegate skill that calls Run.

*PhoneTasks*: one device and one OAuth family; a snapshot sent again unchanged; the limit
of 32 receipts; deletion of rows after seven days; ReconcileParents' LIMIT 8 (an instance
has two tasks); columns nothing reads once a row is closed are reset, which
merges states that behave alike. Private processing, telemetry and external bindings.

*The parts*: ModelRuntime without forbidden providers, the endpoint, legacy_preserved, the
vision and classifier checks, rate limits and the expiry of records. MobileOAuth without
keys, nonces and the capacity of tables; OaAccountChange stands for the dashboard's
password change, OaTimeUp for the clock; the clean-up after a replay commits. RemoteExec
without terminals, transfers and background output. RemoteKeys with one owner and one account
of one host, where the managed lines are all there is to log in with for a verification or a
removal (the first installation has another way in); nobody else edits the file; the
execution's own records and grants are RemoteExec's, and their saves are KyOtherSave here; a
failing save in NewService, after which there is no service. HttpFetch without cookies, raw
copies, discard mode, previews and the details of validation. ChatImport with one export,
one memory and a message of two chunks, one worker slot (main.go:2105), no overrun of a
lease (TaskQueue has it). AgentJobs without the per-user cap, the profile of a model,
and an in-memory claim that a failed save leaves behind (which only refuses more).
Credentials with one secret, no environment, keyring or base value, no owners, bindings
or audit. Confirmations without the prompts of free text.

*Not modelled*: the event bus (delivery to subscribers that log and count), cost and rate
limits (counters under one mutex), the LLM providers (sequential wrappers around HTTP clients),
skills (tool adapters: HTTP clients and formatting around storage calls, some ten
thousand lines), the other task handlers (one model call each), the entrypoint (wiring),
support packages, and the generated code (some thirteen thousand lines of protobuf) with the
front end. These make up most of the lines of the repository; none has an interleaving,
a crash or an order to get wrong that a module could say something about.
