# Telegram_UserBot in TLA+

Telegram_UserBot answers a person's private Telegram chats for them. This directory
specifies what it decides and what it must never get wrong: whether, when and what is
sent, what is remembered, what is erased, and which process may do it. The modules are
translated from the source; paths below are relative to `src/src/telegram_userbot` unless
they start with `docs/` or `deploy/`. Abbreviations: OR is
`adapters/persistence/orchestrator_repository.py`, TR is
`adapters/persistence/telegram_repository.py`; other files of `adapters/persistence` and
`processes` are given by their name alone.

## 1. The system

Three long-running processes (`app` owns the Telegram Session and sends, `worker` runs
durable jobs, `control` is the administrator's bot and web app) and a set of operations
helpers share one PostgreSQL database, the only source of truth; Redis carries wake-ups and
markers and may lose them. Every handler is one transaction under row locks. So handlers
interleave and never overlap, and what is hard lies *between* transactions: the model call,
the Telegram call, the provider call, a file written beside its row, the arrival of updates,
leases that lapse, overlapping processes, restarts.

| Component | State | Operations | Talks to |
|---|---|---|---|
| Telegram ingest (`TR ingest`) | `message_events`, `messages`, revisions, `content_revision` | create, edit, delete, attribution of outgoing messages, message-id mapping | orchestrator, in the same transaction |
| Orchestrator (OR) | `conversation_turns`, `model_runs`, grace authorizations, coverage, resume floors | collect, seal, start, renew, complete, supersede, fail, recover, invalidate | delivery, ingest |
| Modes and commands (`domain/conversation/mode.py`, `conversation_control_backend.py`) | pause flags, base modes, versions, takeover deadline | pause, resume, cancel, takeover end, reply_pending | orchestrator, same transaction |
| Outbound delivery (TR, `telegram_delivery.py`) | groups, intents, attempts, send leases | create, preflight and claim, RPC, settle, map, recover, cut | Telegram, ingest |
| App work lane (`app_scheduler.py`, `conversation_runtime.py`) | the step it is at | recovery every 30 s, a due turn first, then a group | all of the above |
| Model gateway (`model_gateway.py`, `model_runtime.py`, `context_repository.py`) | manifest of a run, prepared requests in memory | prepare, rebuild, call, retry, evict | orchestrator, keys |
| Model keys (`model_repository.py`) | profiles, configurations, credentials, markers | draft, validate, activate, set, replace, delete, invalidate | outbox, app cache |
| Session owner and supervision (`app.py`, `managed.py`, `ownership.py`) | advisory lock, Session file, drain | start, serve, disk-blocked, drain, force exit | lane, PostgreSQL |
| Control bot (`polling.py`, `durable_control.py`) | offset, receipts, buttons, commands | poll, claim, route, complete, reply, advance | app executes commands |
| Context previews (`context_control_backend.py`, `context_repository.py`) | requests, chunks | confirm, deliver, delete when due or erased | bot API, erasure |
| Durable jobs (`worker_runtime.py`, `repositories.py`) | `background_jobs`, wake-ups, leases and fences | create, publish, claim, renew, finish, retry, recover, rebuild | Redis, executors |
| Memory agent (`memory_pipeline.py`, `memory_results.py`) | generations, watermarks, proposals, memories, reviews | enqueue, prepare, generate, complete, fail, review, forget | jobs |
| Calendar summaries (`memory_periods.py`) | periods and their versions | scan, schedule, publish, invalidate | memory agent |
| Embeddings (`embedding_runtime.py`, `embedding_rebuild.py`) | spaces, records | stage, compute, backfill, switch, roll back | jobs, keys, erasure |
| Proactive messages (`proactive_*.py`) | candidates, reservations, budgets, drafts | lease, decide, reserve, publish, charge, sweep | delivery, jobs |
| Erasure (`scope_erasure_repository.py`, `adapters/media`) | requests, media objects, files, markers | barrier, redact, drop files, take inventory, complete | all of the above |
| Exports (`deploy/ops/data_export.py`) | requests, encrypted files | claim, fence, encrypt, seal, clean up | erasure |
| Restore (`deploy/ops/restore_gate.py`, `run_restore.py`) | gate, replay generation, ledger | close, replay, verify, open, replicate | erasure |
| Copilot drafts (OR) | `copilot_drafts`, tokens | request, edit, approve, ignore | delivery |
| Others | migrations, user interface, conversion of updates, build and backup | | |

`PROJECT.json` lists all components with their status and, under `hazards`, what is hard to
test in the code, line by line.

### What makes each modelled component correct

- *Delivery.* The contact reads a prefix of each output in order, each chunk once, whatever
  is lost, retried, mapped late or recovered; states tell the truth about Telegram; a
  revoked or orphaned output sends nothing more; the system's own echo is never taken for
  the account holder; a turn is completed over a reply that is all there.
- *Orchestrator.* One turn under way; a claim knows the whole log of the conversation, up
  to the messages it was authorised to disregard; revocation reaches everything in one
  transaction; nothing answered by the account holder, or received under a pause, is
  answered by the automation later; a run ends whatever happens to its process.
- *Model gateway and keys.* The provider is asked one and the same thing for a run, and not
  again once it may have worked on it, unless the status it answered with asks for another
  attempt; an active profile has a key; a deleted key leaves every cache.
- *Session owner.* Two processes never use the Session file at once unless the database took
  the lock away; a process told to stop comes to its end.
- *Control bot.* Commands are executed once and in order, whatever overlaps and restarts;
  the journal of a preview is ahead of the chat, and previews leave the chat again.
- *Jobs and memory.* A result is committed once; recorded work is done or given up; no
  message is passed over by a watermark; summaries stand on what they were built from; a key
  has one active memory; what is forgotten leaves no text and no vector.
- *Proactive.* No budget is exceeded, and its counters tell the truth.
- *Erasure, exports, restore.* What is erased is gone, stays gone against uploads,
  derivations and exports that had begun before, and does not return with a backup.

## 2. Modules

| Module | What it is |
|---|---|
| `Delivery` | one action per handler of outbound delivery |
| `OrderedOutput` | what delivery promises, in three actions; `Delivery` refines it (`KeepsPromise`) |
| `Orchestrator` | one conversation: ingest, commands, time and the work lane |
| `TurnTaking` | what a conversation promises, turn by turn; `Orchestrator` refines it (`TakesTurns`) |
| `ModelRequests`, `ModelKeys`, `SessionOwner`, `ControlUpdates`, `ContextPreviews` | services of `app` and `control` |
| `Jobs`, `MemoryRuns` | the durable queue, and the memory agent that runs on it (`MemoryRuns` extends `Jobs` and composes their steps) |
| `SettledWork`, `CommandStream`, `RationedMessages` | what durable work, the control bot and the budgets promise; `MemoryRuns`, `ControlUpdates` and `ProactiveBudget` refine them (`SettlesForGood`, `KeepsStream`, `KeepsRation`) |
| `MemoryWindow`, `MemoryPeriods`, `MemoryFacts` | which messages are read, which summaries follow from them, what is remembered |
| `Embeddings`, `ProactiveBudget`, `ScopeErasure`, `DataExports`, `RestoreGate` | services of `worker`, maintenance and operations |
| `AppServices`, `WorkerServices` | a behaviour runs one of the services, the one in `focus` |
| `MCDelivery`, `MCOrchestrator`, `MCAppServices`, `MCWorkerServices` | instances for TLC |
| `DeliveryProofs`, `OrchestratorProofs`, `OrchestratorSafety` | theorems about delivery and the orchestrator |
| `MemoryProofs`, `FactsProofs`, `ErasureProofs`, `AppServicesProofs`, `WorkerServicesProofs` | theorems about the services and the two compositions |

### Delivery

Groups, turns, intents and attempts are the tables of the same names. `groupState`,
`istate` and `attemptState` are their `state` columns; `attempt` is `attempt_count`, with
which the fencing token moves; `lease` is the live owner of a turn's lease or nobody;
`sendLease` and `due` say whether the time in the column lies ahead or is past; `fresh`
says whether the content snapshot (or an exact grace) still holds; `echo` is the
attribution of the projected outgoing message. The lane is `instance`, `pc`, `cur`,
`token` and `reply`; `net` and `accepted` are Telegram.

| Code | Actions |
|---|---|
| `_create_group`, proactive delivery | `CreateByRun`, `CreateByWorker` |
| `_next_delivery_group`, `dispatch_group` | `SelectGroup`, `AdmissionRefused`, `RefusedAfterClaim` |
| `preflight_intent` with `claim_intent`, `_cancel_delivery_remainder` | `PreflightClaim`, `PreflightCut`, `PreflightNothing` |
| `send_text`, `send_prepared` | `CallTelegram`, `AnswerAccepted`, `AnswerRejected`, `AnswerLost` |
| `finish_attempt` | `SettleFenced`, `SettleRefused` |
| `recover_stale_sending`, `recover_once` | `Recover`, `Restart` |
| `reconcile_outbound_message_id` | `MapMessageId` |
| ingest with `_reconcile_intent` (`ReconcileGroup`) and `reconcile_completed_delivery` | `Echo`, `EchoEdited` |
| `human_takeover_after_ingest`, `_invalidate_pre_send` | `HumanConfirmed`, `HumanPending`, `Invalidate`, `Incoming` |

Each group has a conversation of its own, so the content of a conversation is the flag
`fresh`. The reply of the model is not looked at, nor are texts, typing and read marks.

### Orchestrator

An event of the conversation is its position in the log, so `events` is at the same time
the last event id and `content_revision` (both advance by one in `_advance_conversation`).
A message of the contact is the event of its current revision (`live`). `floor` is the later
of account and conversation resume floor, which the code only ever uses through their
maximum; `version` is the sum of `control_version` and `mode_version`, which the code only
compares for equality and only increases. A turn carries the columns of
`conversation_turns` that decide something, and the run of its only generation: a retry
within a run is the same model call. `output` is its delivery group, with one chunk.

| Code | Actions |
|---|---|
| `handle_new_incoming`, `collect_message`, `create_pending_turn` | `IncomingKept`, `IncomingJoins`, `IncomingOpensTurn`, `IncomingSupersedes` |
| `_update_message`, `invalidate_after_content_change` | `Edit`, `Delete` |
| `_classify_source`, `human_takeover_after_ingest` | `HumanWrites`, `HumanUnattributed` |
| `reconcile_completed_delivery`, `reconcile_outbound_message_id` | `EchoCompletes`, `EchoUnattributed`, `MapMessageId` |
| `set_account_control`, `set_conversation_control`, `end_temporary_human`, `_execute` | `Pause`, `Resume`, `Cancel`, `EndTakeover`, `ReplyPending` |
| `seal_turn` and `start_generation` (one transaction of `run_due_turn`) | `StartGeneration`, `StartCollides` |
| `renew_generation_lease`, `_maintain_generation` | `RenewRefused`, `LeaseLapses` |
| `complete_generation`, `_supersede`, `fail_generation` | `CompletePlanned`, `CompleteRefused`, `CompleteTooLate`, `FailGeneration` |
| `recover_expired_generations`, `recover_stale_sending` | `RecoverGeneration`, `RecoverSend` |
| `_next_delivery_group`, `preflight_intent`, `finish_attempt` | `SelectOutput`, `AdmissionRefused`, `ClaimOutput`, `CutOutput`, `SettleSent`, `SettleOtherwise` |

A handler that raises rolls back, so it is a step that does not exist: this is how
`seal_turn`'s refusal (it writes `cancelled` and raises) and an echo whose follow-up turn is
refused (`EchoCompletes`) behave. `CancelWork` is `_invalidate_pre_send`. `whilePaused` and
`whileHuman` remember which events came under a pause or a takeover; the code has no such
columns, the properties need them.

### The services of `app` and `control`

| Code | Module and actions |
|---|---|
| `model_gateway._prepare`, `model_runtime` manifest, selection of sources | `ModelRequests`: `UsePrepared`, `PrepareRequest` (`BindManifest`), `LoadPrepared`, `PrepareRefused` |
| `conversation_runtime` attempt loop, `protocols.py` classification of errors | `CompositionFails`, `ConnectFails`, `SendRequest`, `RequestRefused`, `AnswerIsLost`, `Answered`, `RecordRetry`, `RetryFence`, `EndRun`, `AttemptEnds` |
| `start_control_session`, `validate_draft`, `activate_draft` | `ModelKeys`: `StartControlSession`, `ValidateDraft`, `ActivateDraft`, `DropDraft` |
| `create_key_launch`, `claim_key_launch`, `set_credential`, `delete_credential` | `CreateKeyLaunch`, `SetKey`, `DeleteKey` |
| outbox relay, marker observer, compensation | `PublishMarker`, `LoseMarkers`, `ObserveMarker`, `Compensate`, `ReadRequest`, `KeepRequest` |
| `app.py` start and its unwinding, `PostgresSessionOwnership` | `SessionOwner`: `Boot` to `FinishStart`, `StartFails`, `CloseStarted`, `ReleaseStarted`, `LoseConnection`, `ProbeFails` |
| `managed.py` supervisor, drain hook, deadline; disk-blocked state | `RequestDrain`, `DrainHook`, `ServeSettles`, `FinalClose`, `FinalRelease`, `ForceExit`, `EnterBlocked`, `LeaveBlocked` |
| `polling.py`, `durable_control.py`, the app's command runner | `ControlUpdates`: `PollOnce`, `HandleTransactional`, `HandleBoundary`, `RouteButton`, `CompleteUpdate`, `DeliverReply`, `MarkResponse`, `AdvanceOffset`, `ProcessNext` |
| `deliver_preview`, `delete_due`, preview rows | `ContextPreviews`: `ConfirmPreview`, `ClaimChunk`, `SendChunk`, `RecordChunk`, `FinishDelivery`, `ClaimDeletions`, `CallDelete`, `FinishDeletion`, `EraseScope` |

State follows the tables and the objects in memory that outlive a transaction (`atHand`,
`cached`, `session`, `appStage`, `poller`, `pass`). A manifest is a set of sources with
versions, a key is its version number, a button press and a command are kinds of updates:
what they contain decides nothing. `ModelRequests` has one run, and everything it was built
from may be edited, replaced or withdrawn at any point; `SessionOwner` has, in each process,
the two tasks (service and supervisor) that can close the client. History variables
(`requested`, `lockLost`, `raced`, `replies`) exist for the properties only.

### The services of `worker` and operations

| Code | Module and actions |
|---|---|
| `worker_runtime.py`: create, publish, consume and claim, renew, finish, tick | `Jobs`: `CreateJob`, `PublishWakeup`, `PublishUnmarked`, `LoseWakeup`, `Consume`, `Renew`, `RunExecutor`, `Succeed`, `FailOrRetry`, `ExecutionDies`; recovery, erasure re-arming and rebuilding in `TickRows`, `TickBoxes` |
| `memory_pipeline.py` `prepare`, `complete`, `fail`, `enqueue_pending` | `MemoryRuns`: `Prepare`, `PrepareDeclines`, `Generate`, `Complete`, `FailMemory`, `Tick` |
| `refresh_pending_job`, `_partition_backlog`, `require_coverage`, `verify_completion` | `MemoryWindow`: `RefreshTurn`, `PrepareGeneration`, `PrepareWaits`, `CompleteGeneration`, `GenerationGivesUp` |
| `memory_periods.py` `scan_conversation`, `job_inputs`, `publish`, `invalidate` | `MemoryPeriods`: `Scan`, `PreparePeriod`, `PublishPeriod`, `PeriodGivesUp` |
| `_accept_proposal`, `forget_memory`, review actions | `MemoryFacts`: `SealManifest`, `RecordCandidate`, `RecordAndAccept`, `DropAnswer`, `IssueReview`, `ConfirmReview`, `ExecuteReview`, `ReconcileErasure` |
| `embedding_runtime.py`, `embedding_rebuild.py` | `Embeddings`: `StageText`, `EmbeddingTick`, `ClaimPiece`, `PreparePiece`, `CompletePiece`, `RecordFailure`, `SettlePiece`, `ActivateConfig`, `RequestRollback` |
| `proactive_publisher`, `proactive_repository`, `proactive_delivery` | `ProactiveBudget`: `ClaimNext`, `RecordDecision`, `ReserveBudget`, `Publish`, `CompleteJob`, `PreflightIntent`, `SendMessage`, `ApproveDraft`, `Sweep` |
| `scope_erasure_repository`, media ingestion and cleanup | `ScopeErasure`: `RequestErasure`, `PrepareErasure` (barrier, redaction, files, completion), `UploadStep`, `CleanupStep` |
| `data_export.py` | `DataExports`: `ClaimExport` to `GiveUpExport`, `RemoveExpired` to `RecordErased`, `RemoveStale` |
| `run_restore.py`, `restore_gate.py` | `RestoreGate`: `RunCommand` over `Stages`, `LateCommand`, `OperatorRuns`, `CleanScope`, `ReplicateLedger` |

Time is relative: a lease, a deadline or a quiet period is over or not, and a step that ends
it is an action of its own. A fencing token is the owner or attempt that a comparison of
tokens would single out. In `DataExports` and `ScopeErasure` files are state beside the rows
and are written and removed in steps of their own, under the locks the code takes.

### Composition

Within `Delivery`, `Orchestrator` and `MemoryRuns` the components that write each other's
rows are composed action by action. `AppServices` and `WorkerServices` put services together
that share no row one writes and another reads, so interleaving them would only multiply
states: `focus` picks the one that runs, the others rest, and each service is checked in
every order of its own steps under its own fairness. Where a service is affected by another
one, the effect is an environment action of its module: a human in `ProactiveBudget`
(`InvalidatePreSend`), an erasure in `Embeddings`, `ContextPreviews` and `DataExports`.

## 3. Runs

Properties are stated in the modules, each with the behaviour it is about.

| Run | Shows |
|---|---|
| `delivery` | `NoBlindResend`, `CancelledIsSilent`, `GroupReflectsChunks`, `CompletedTurnDelivered`, `OwnEchoNeverHuman`, and the refinement `KeepsPromise` |
| `orchestrator` | `PlannedIsStillWanted`, `PauseBacklogUnanswered`, `HumanHasAnswered`, `CompletedIsCovered`, `OutputIsCurrent`, `StaleIsDiscarded`, and the refinement `TakesTurns` |
| `orchestrator_live` | `GenerationEnds` |
| `app_services` | safety: `OneRequestPerRun`, `ActiveProfileHasKey`, `SoleSession`; the refinement `KeepsStream`; liveness: `SendingResolves`, `DeletedKeyForgotten`, `DrainEnds`, `UpdatesAreHandled`, `PreviewsVanish` |
| `worker_services` | safety: `NoMessageSkipped`, `WeekStandsOnDays`, `OneActivePerKey`, `ForgottenLeavesNothing`, `VectorsFollowTexts`, `ErasedScopeIsEmpty`, `ErasedExportIsGone`, `ErasureSurvivesRestore`; the refinements `SettlesForGood`, `KeepsRation`; liveness: `WorkSettles`, `BacklogIsCovered`, `PeriodsCatchUp`, `RebuildSettles`, `ErasureCompletes` |
| `retry_wait`, `partial_resume`, `pending_echo`, `due_turn_starts`, `answered_once`, `edit_rebuilds`, `takeover_backlog` | one sentence of the documents each that the code does not keep (section 6) |

**Bounds.** `delivery` has a two-chunk reply (a chunk in every state beside an earlier and a
later one) and a one-chunk message of the other kind, which competes for the lane; one
restart (an orphan of the first instance meets the second) and one mishap, which may be
any of rejection, lost answer, refused admission, dropped submission or edited echo.
`orchestrator` has three events, two turns, two commands, one restart and one mishap: enough
for a message answered late, one arriving within and one after the grace, a supersede with
replacement, pause *and* resume around a message, an edit between two others, a takeover
that lapses or is ended. `app_services` (255 thousand states): one output of two chunks; two
attempts at a request and one change of each thing it was built from; one profile and three
key changes (set, replace, delete, with a run on either side); two processes that contend
for the Session file and two mishaps; two pollers over sequences of two or three updates
(two commands; a button and a command; an update without effect between) and two mishaps; a
preview of two messages, two maintenance passes and two mishaps. `worker_services` (378
thousand states): one job of each kind, two workers, two attempts, one re-arming, one mishap;
two days and three changes of the past (enough for a summary of the week to be built,
undermined and built again); three events in batches of one, two refreshes, a removal and a
dead letter (a batch leaves a backlog that is merged); two candidates in the account's budget
of one and one of them in a second budget, two publishers; two keys, two proposals, a review
and an edit of the message quoted; one image of two objects and two cleanups; two exporters,
two cleaners, two attempts, two mishaps; two texts, two configurations, two pieces; one
restore with two closes. Each property is broken by a plausible slip in the code within these
bounds (`mutants`; the slips stand before the definitions they spoil). Only counters nobody
resets are bounded, by guards on the constants named `Max...`. A run that has used up its
bounds, or a service with nothing left to do, stops, so deadlock is not checked.

**Fairness.** The lane is a loop without exit whose RPC and model calls have timeouts, so
its steps are weakly fair; in `Delivery` recovery is one branch of the idle lane, on a 30 s
timer, hence strongly fair. Workers, pollers, maintenance passes and publishers are loops
that take whatever is due, and their steps end (calls have timeouts), so each is weakly fair;
so is the scheduler's tick, when the disk admits it. Time passes: leases nobody renews lapse
(a lease a process is working under need not), deadlines and quiet periods come. Telegram
answers what it was sent. Of the Session owner only the forced exit and the supervisor's
look at a service that returned are fair: a cycle may hang, a disconnect may fail, a
container need not start again. Nothing is assumed of people, commands, updates, restarts,
crashes, lost messages or mishaps.

## 4. Theorems

`DeliveryProofs` proves, for any number of groups, chunks per group, process instances and
mishaps, and from `ConstantsAssumption` alone:

| Theorem | Property |
|---|---|
| `TypeCorrect` | `TypeOK` |
| `Invariance` | `TypeOK /\ IInv` |
| `NoBlindResendHolds`, `SentIsVisibleHolds`, `ChunksInOrderHolds`, `OpenAttemptIsSendingHolds`, `CancelledIsSilentHolds` | the invariants named |
| `EchoInvariance`: `EchoInv /\ CompletedInv` | `OwnEchoNeverHumanHolds`, `CompletedTurnDeliveredHolds` |
| `GroupsInvariance`: `GroupsInv` | `GroupReflectsChunksHolds` |
| `OutcomesAreFinalHolds`, `ClaimsAreAuthorizedHolds` | the action properties named |
| `KeepsPromiseHolds` | every behaviour of `Delivery` is one of `OrderedOutput` |

No safety invariant is inductive alone. `NoBlindResend` says nothing of a chunk in the
lane's hands: between the claim and the RPC the chunk is not yet in the network, and a
settlement computed for it must find what it expects. `IInv` adds what the transactions
rely on: `ChunkInv` (a submitted or visible chunk has been attempted, and every chunk before
an attempted one is sent), `LaneInv` (the chunk in the lane's hands is in nobody else's, it
is untouched until the call, and the answer tells what Telegram did with it),
`OpenAttemptIsSending`, and `GroupInv` (a group is planned or cancelled only without a side
effect). The step of
each action is a lemma that treats the parts it disturbs. The refinement maps
`open` to the turns still `output_ready`, `released` to the chunks ever attempted and
`visible` to the accepted ones: a claim is `Release`, an acceptance `Appear`, the end of a
turn `Close`, every retry, mapping, late receipt and recovery a stutter.

Two more invariants stand on `IInv`. `EchoInv` (a projected echo is of a visible chunk, an
attributed one of a chunk recorded as sent, none is the account holder's) and
`CompletedInv` (the echoes of a completed turn are all attributed) give what a completed
turn promises. `GroupReflectsChunks` alone is not inductive. A settlement, a mapping, a
recovery and an echo refresh the group, and a refresh says of it what its chunks are,
whatever they are doing (`RefreshedSays`, `RefreshKeepsView`): the echo of an earlier chunk
makes the group `partial`, and so selectable, while a later one is still `sending`. A
preflight that cuts the remainder writes the state of the group without looking at its chunks
again, which is right only because no chunk of a group under preflight is unknown
(`PreflightView`); a settlement and a mapping keep that because the other chunks are at rest,
chunks going in order (`OthersAtRest`). `GroupsInv` says so. What does not hold is that a
group whose chunks are all sent is `sent` (section 6).

`OrchestratorProofs` and `OrchestratorSafety` prove, for any number of events, turns,
commands, process instances and mishaps, with and without takeovers, and from
`OrchestratorConstants` alone:

| Theorem | Property |
|---|---|
| `OrchestratorTypeCorrect` | `TypeOK` |
| `OrchestratorInvariance` | `TypeOK /\ IInv` |
| `OneTurnUnderWayHolds`, `PlannedIsStillWantedHolds`, `LeaseHasItsLaneHolds`, `PauseBacklogUnansweredHolds`, `HumanHasAnsweredHolds`, `CompletedIsCoveredHolds` | the invariants named |
| `OutputIsCurrentHolds`, `StaleIsDiscardedHolds` | the action properties named |
| `OrchestratorTakesTurns` | `TakesTurns`: every behaviour of `Orchestrator` is one of `TurnTaking` |

The argument has three parts. `Moves` classifies what a step does: each row opens, is joined,
stays, ends, completes, starts its run or plans its output, and the step as a whole either
takes no permission away (`Undisturbed`) or ends all work (`Revokes`); the proof that every
action is such a step is where each handler is read. `IInv` adds to the invariants what they
lean on: `LogInv` (a current message the account holder has answered is covered; what came
in under a pause is below the floor once the pause is over, for only a resume, which moves
the floor to the last event, opens the gate), `RowInv` (a turn under way has sources, all of
them current, and the versions of the conversation, so a planned output still has what its
run was given) and `LaneInv` (what made a run stale stays so: the grace is over, and the lease
or the revision is gone for good). Each invariant then follows from `Moves` in a lemma of
its own. `AnsweredOnce` and `TakeoverBacklogUnanswered` fail for want of just such a lemma:
nothing moves the coverage at a cancel after the claim, nor the floor when a takeover lapses.

The refinement maps the state of a turn to its `phase` (collecting is gathering, generating
thinking, output_ready ready; cancelled, superseded and failed are over), a planned output to
`offered`, one that was ever claimed to `released` and what the contact sees to `seen`. `Moves`
says how a step moves the turns; `RepliesMove` says the same of the outputs, with `ReplyInv`:
a turn has no output before it is planned, the lane dispatches an output that is planned or
was cut, and what the contact sees was claimed. Every row then takes a turn (`RowTakesTurn`,
`RepliesAsPromised`), the turns of one transaction together (`TurnsTakenInStep`): a supersede
is `Ends` of one turn and `Opens` of another, a pause or an edit ends all. A turn that was
over may still be answered, when the echo of its claimed reply comes after a cancel.

The services. Each safety property and each refinement of `app_services` and
`worker_services` is a theorem, for every value of the constants and from the assumption its
module names (`JobsConstants`, `PeriodsConstants`, `WindowConstants`, `FactsConstants`,
`BudgetConstants`, `ExportConstants`, `UpdatesConstants`, `KeysConstants`, `OwnerConstants`,
`PreviewsConstants`): bounds are
naturals, a null value is not a member, tables are functions, there are finitely many
candidates. The requests of a run, scope erasure, the restore and the embeddings need none.

| Theorem | Property | What the inductive invariant adds |
|---|---|---|
| `RunsSpecResultCommittedOnce` | `ResultCommittedOnce` | `RunsInv`: a generation has one result exactly if it succeeded |
| `RunsSpecSettlesForGood` | `SettlesForGood` | `RunningIsSealed`: what runs was prepared, and preparation sealed its inputs. A job's row is proved to move as its kind allows (`StatesStep`), a generation as an answer, a failure or an invalidation moves it (`GenerationsStep`), an erasure request to be closed for good |
| `RunsSpecTypeCorrect`, `RunsSpecLeaseIsExclusive`, `RunsSpecLostLeaseStaysLost` | `MemoryRunsTypeOK`, `LeaseIsExclusive`, `LostLeaseStaysLost` | `JobsInv`: executions of a job differ by their fence and none is ahead of its row, for only a claim raises a fence or brings a lease. The types need it: whoever may record a success has a re-arming to spare |
| `PeriodsSpecWeekStandsOnDays` | `WeekStandsOnDays` | `PeriodsInv`: the types, no more; an invalidation that touches a day touches the week built from it, and publication reads the days again |
| `WindowSpecNoMessageSkipped`, `WindowSpecWatermarkAdvances` | `NoMessageSkipped`, `WatermarkAdvances` | `WindowInv`: everything at or below a watermark is decided, so that it cannot become a message later; every range asked for ends at an event that is there, with all events before it |
| `FactsSpecOneActivePerKey`, `FactsSpecForgottenLeavesNothing` | the properties named | `FactsInv`: an operation that changes a memory names it, a review names a row or memory there is. The rest is in the steps: a memory becomes active only under a key that is free or given up in the same step, and forgetting takes the texts of all its versions and of all proposals about it |
| `EmbeddingSpecVectorsFollowTexts` | `VectorsFollowTexts` | `EmbeddingInv`: nothing of a text that is gone waits for a vector either; the active space has a record of every staged text until an erasure begins |
| `ErasureSpecErasedScopeIsEmpty` | `ErasedScopeIsEmpty` | `ErasureInv`: who writes a file has a row for it; beyond the cleanup of media no object is left; whoever is about to record the check saw no file, and none may be written since |
| `RestoreSpecErasureSurvives` | `ErasureSurvivesRestore` | `RestoreInv`: a gate is closed into a generation after the backup's; a scope whose erasure was begun again and is complete holds nothing; a gate opened since, and a runner past the opening, have seen that; the replica has the whole ledger that was given |
| `ExportSpecErasedExportIsGone` | `ErasedExportIsGone` | `ExportInv`: who works on files has the lock; a revoked row is past being claimed; a cleaner that looked saw the revocation; nobody is past the fence once the files are recorded as cleaned |
| `BudgetSpecBudgetHonoured` | `BudgetHonoured` | `BudgetInv`: the counters of a budget are the numbers of places held and charged in it, and within its limit; what began to be sent is charged, and what left is not sent again |
| `BudgetSpecKeepsRation` | `KeepsRation` | `ChargedIsStarted`: a place is charged in the step that begins to send its message, so a charge and a message under way are one standing (`StandingOf`), although the row of a place keeps other states |
| `RequestsSpecOneRequestPerRun` | `OneRequestPerRun` | `RequestsInv`: what the runtime has in hand, and what went out, is what is bound; once the provider worked on a request the call is over, or failed in a way that is not retried, unless its status asked for another attempt (`overlooked` counts these) |
| `UpdatesSpecCommandsOnceInOrder` | `CommandsOnceInOrder` | `UpdatesInv`: no poller is past the offset and what is passed is completed; a completed command waits or was executed, and what was executed came before what waits; a completed update is in the hands of one poller at most that may answer it |
| `UpdatesSpecKeepsStream` | `KeepsStream` | `NoiseIsSilent`: a poller comes to answer an update only if it had an effect. Everything else a poller does, and every restart, is a stutter of the stream |
| `KeysSpecActiveProfileHasKey` | `ActiveProfileHasKey` | `KeysInv`: a profile's key is alive whatever the state of the profile, since an activation only looks whether there is one |
| `OwnerSpecSoleSession` | `SoleSession` | `OwnerInv`: whoever uses the file, or is about to, has the lock or has lost it unasked; whoever is about to give it back has no client left. The lock alone does not say so, because two tasks of a process give it back and close the client in steps of their own |
| `PreviewsSpecShownIsJournalled` | `ShownIsJournalled` | `PreviewsInv`: an unconfirmed request has nothing in the journal; what a sender has in hand is `sending` there, and not in the chat before its call; what a pass deletes was claimed, and what it reports as deleted is gone. Two passes may delete the same message, and still neither records one that is there |
| `AppSpecSafe`, `WorkerSpecSafe` | all of the above | every step of a composition is a step of the service in `focus` and a stutter of the others (`AppServiceSteps`, `ServiceSteps`), so each keeps beside the others what it keeps alone |

No safety proof uses fairness: the argument is about Init and Next (the lemmas named
`...Safely`), so it holds of a service alone and of one among others. `Jobs` has no
specification of its own; it is proved about as `MemoryRuns` runs it. `LeaseIsExclusive`
and `LostLeaseStaysLost` are stated in `MemoryProofs`; before they were proved, TLC found no
violation of them, nor of `JobsInv`, with one job, two workers, three attempts, leases of two
ticks and two mishaps (650 thousand states), nor of `ShownIsJournalled` and `PreviewsInv` with
the previews of the `app_services` run (44 thousand).

Proved and in no run: `ChunksInOrder`, `SentIsVisible`, `OpenAttemptIsSending`,
`OutcomesAreFinal`, `ClaimsAreAuthorized` (of `Delivery`), `LeaseHasItsLane` (of
`Orchestrator`), `WatermarkAdvances`, `ShownIsJournalled`, and the types and leases of
`MemoryRuns`. What the runs check follows in part from these, and a theorem says more than a
run would. `OneTurnUnderWay`, `ResultCommittedOnce`, `CommandsOnceInOrder` and
`BudgetHonoured` are proved too, and lead to the refinements: `TakesTurns`, `SettlesForGood`,
`KeepsStream` and `KeepsRation` say as much of every step, so the runs check those instead.

Only model-checked, all of it liveness: `GenerationEnds`, `SendingResolves`,
`DeletedKeyForgotten`, `DrainEnds`, `UpdatesAreHandled`, `PreviewsVanish`, `WorkSettles`,
`BacklogIsCovered`, `PeriodsCatchUp`, `RebuildSettles`, `ErasureCompletes`. Liveness under fairness and `ENABLED` are out of the
prover's reach, as are induction over data and `RECURSIVE` operators, which no module uses.

## 5. What is not modelled, and why

- *COPILOT and base modes.* A change of base mode acts as pause and resume do (version,
  floor, invalidation). The control bot requests a draft of a COPILOT turn, but issuing its
  tokens, editing, ignoring, approval and expiry are called by tests alone, so no process
  takes a draft through its life; approval and ignoring of a proactive draft are in
  `ProactiveBudget`, as operations of the repository that the tests exercise.
- *Operational blocks and maintenance.* The gates read `operational_state`, but in this
  commit no path persists a block: the one write in `start_generation` is taken back by
  the conflict raised after it. It is READY throughout.
- *An edit without a change of text* (it invalidates too, without a new revision), edits and
  deletes of outgoing messages in `Orchestrator`, reactions, forwarded media, albums.
- *Several chunks in Orchestrator, several events per conversation in Delivery, several
  conversations in Orchestrator.* The final gate is in both; each module keeps in detail what
  the other abstracts. Retries within a run are in `ModelRequests`.
- *Scheduler leader.* Its advisory lock is taken, probed and lost as that of the Session, and
  a second leader is harmless to `Jobs`, whose tick is one action of anybody.
- *The finding of proactive occasions* and the cursors of its scans: which candidates arise
  decides nothing about their budgets.
- *Retrieval scores, ranking, token budgets, prompts, provider protocols, keyboards, texts,
  authentication, encryption, image decoding, conversion of updates, migrations, images and
  compose files, backups.* Data, projection or I/O. The effect of a constraint of the schema
  is part of the action it refuses.

## 6. Where documents and code disagree

Shown by a run (`findings` quotes the sentences):

1. `retry_wait`: a first chunk answered by a flood wait leaves its group `sending`, which
   the selection does not look for; it waits for ever.
2. `partial_resume`: a dispatch walks from the first chunk, which a partial group has sent,
   so the rest is never sent. Such a group is also selected first for ever and starves
   younger ones.
3. `pending_echo`: a message kept as `system_pending` is not looked at again when its chunk
   is mapped.
4. `due_turn_starts`: a new message between plan and claim cuts the output and leaves its
   turn `output_ready`; the next due turn then violates `uq_conversation_turns_processing`,
   and the error ends the process, again after each restart.
5. `answered_once`: a cancel between claim and echo lets a later replacement answer the same
   message a second time.
6. `edit_rebuilds`: an edit cancels the turn, and nothing builds it again.
7. `takeover_backlog`: `expire_temporary_human` is never scheduled, so a lapsed takeover
   moves no floor, and its backlog is answered by the next replacement.

In `findings` without a run of their own; the model does what the code does:

- *Delivery*: an echo makes a group `partial` while its last chunk is under way; when a
  mapping settles that chunk under a preflight of the group, the closed gate
  (`duplicate_delivery`) writes `partial` over a group that is sent, possibly with its turn
  completed.
- *Model calls*: 408, 409, 425 and every 5xx are retried as not sent, a 504 included, though
  the provider may have worked on the request; `OneRequestPerRun` is stated up to these.
- *Previews*: the deletion of a half-delivered preview raises in every maintenance pass and
  keeps the pass from those after it (`Obstructs` in `PreviewsVanish`); one whose answer was
  lost in the middle stays `delivering`.
- *Memories*: an identity is derived from the place of a fact in the answer, so that a
  forgotten memory's row can become active again with its old version; `SUPERSEDE` violates
  a foreign key that is not deferrable (`MemoryFacts` has the rows as the code means them);
  nothing creates `memory.review_action` jobs; forgetting keeps the vector payload.
- *Proactive*: every message sent leaves its reservation `send_unknown`, for ever.
- *Exports*: a crash after the rename leaves the file of that attempt (until an erasure); the
  first fence stops the renewal of the lease.
- *Restore*: a memory the backup does not have is not restored into the ledger, which is then
  refused as a regression.
- *Embeddings*: a space that is rolled back is filled and never activated.
- *Session*: the loss of the advisory lock only makes the process not ready, which is why
  `SoleSession` is stated up to `lockLost`; a disk that fills up during the start is taken for
  a failure.

Noted while modelling:

- `seal_turn` writes `cancelled` and raises, so the refusal is rolled back and the turn is
  selected again each cycle; while it is due, no group is dispatched.
- `complete_generation` supersedes without a replacement, unlike `docs/architecture/
  02-message-lifecycle.md` section 11, and `expire_generation_grace` is never called.
- A replacement turn created by a message without text, or by an echo, has events after its
  last member from the start: its run can never count as unchanged.
- An echo whose follow-up turn is refused by the mode gate is rolled back with its projection.
- A message of the account holder during an unsettled send stays `system_pending`.
- A restart leaves planned groups of the old instance to be cut, where section 15.3 of
  `02-message-lifecycle.md` has them sent.
- A failed refresh of the typing indicator ends `_maintain_generation`, and with it the renewal
  of the run's lease.
- A second poller's `recover_pending_responses` may mark replies the first is about to send;
  an update whose routing always fails blocks those after it (as does a period's job whose
  identity is spent, and a generation whose range holds a message that is never decided).
- `expire_proactive_targets` and `preflight_intent`, and key mutations and activations, take
  their row locks in opposite orders; PostgreSQL resolves such a deadlock by an error.
- `embedding_rebuild.py` looks at ten spaces a tick, the same ten while they last.
- A dead-lettered `reconcile_erasure` job is not created again; no code in `src` creates an
  erasure request for a contact or an account, nor calls `expire_due` of the exports.
- A runner of the restore that fails after the open leaves the gate open; a stage command that
  timed out may take effect later (`LateCommand`).

## 7. Plan

Done: delivery and its promise; the orchestrator; the services of `app`, `control`, `worker`
and operations, and their compositions; a theorem for every invariant and action property
of every passing run, and for five refinements: of `OrderedOutput`, `TurnTaking`,
`SettledWork`, `CommandStream` and `RationedMessages`.

Next, in order of importance:

1. Action properties of the services: a recorded erasure never goes back, a vector is of the
   text it was computed from.
2. An abstract specification of erasure over `ScopeErasure`, `DataExports` and `RestoreGate`:
   what is erased at a point of the ledger is in no store, file or export after it.
3. Two conversations on one lane: starvation by a refused turn or a stuck group.
