# Verification of SupervisorBridge

SupervisorBridge carries commands from a Supervisor (ChatGPT) to an implementer
(Gemini in AI Studio) and reports back, by acting on two browser pages. What
makes it hard is that neither page can be asked whether a click took effect,
while the program may crash, be started twice, be stopped or be corrected by
hand between any two of its steps. This directory models that in TLA+, checks
small instances with TLC and proves the central facts for all instances with
TLAPS. Paths such as `src/bridge/runtime.py` are relative to the repository.

## The system

| Component | State it keeps | Operations | Hard behaviour |
|---|---|---|---|
| Runtime engine (`src/bridge/runtime.py`) | none between cycles | `run_once`: one cycle, dispatched on the task file | everything below happens between two of its awaits |
| Task state machine (`src/state/task_state.py`) | `current_state` | `transition_to`, `LEGAL_TRANSITIONS` | skipped saves, illegal corrections by hand |
| State repository (`src/state/state_repository.py`) | `active_task.json`, `completed_ledger.json` | save, load, clear, archive | crash between ledger and task file; the ledger is read, changed and written without a lock |
| Idempotency manager (`src/safety/idempotency.py`) | `idempotency_records.json` | `record_operation`: load, check, replace | a read-modify-write without a lock |
| Orchestrator, checkpoint (`src/safety/orchestrator.py`, `checkpoint.py`) | `checkpoint.json` | `prepare_operation`, `confirm_operation` | stop checked once, then awaits |
| Emergency stop (`src/safety/emergency_stop.py`) | `emergency_stop.json` | engage, release, is_engaged | engaged while an operation is under way |
| Submitter, returner (`src/bridge/submission.py`, `return_to_supervisor.py`) | none | prepare, fill, click, save, confirm | a click that raises after taking effect |
| Reconciliation (`src/state/recovery.py`) | none | verdict on a prepared submission or return from ledger, page, record, checkpoint | partial evidence |
| Inspector, session guard (`src/bridge/response_inspector.py`, `src/protocol/session_guard.py`) | none | accept a report by TASK_ID and PHASE | reports of other phases on the page |
| Generation monitor (`src/bridge/generation_monitor.py`), timeout | samples, start time | `detect_state`, `wait_for_completion`, `can_retry` | the page changes between queries; a failed query reads as absence |
| Command intake (`src/protocol/message_parser.py`, `command_classifier.py`, `supervisor_protocol.py`) | none | the newest executable command of the conversation | messages read while being written |
| Loop controller, loop guard (`src/bridge/loop_controller.py`, `src/safety/loop_guard.py`) | counters | `run_loop` | limits counting idle cycles, a second guard inside `prepare_operation` |
| Report parser (`src/protocol/implementer_protocol.py`) | none | the report in the newest turn | turns read while being written |
| State inspector (`src/diagnostics/state_inspector.py`) | none | what the files say, for the operator | its own reading of orphans |
| Browser connection, tabs, adapters | CDP connection | queries, clicks | exceptions |
| Command line, configuration, logging, paths, hashing | none | | |

All processes share the files of `data/state/`; every process and the pages
interact through clicks and queries only. `PROJECT.json` lists each component
with its modules, and each hazard with the line where it bites.

What must be true, by component:

- engine, idempotency, orchestrator: no browser operation is clicked twice; a
  click is always preceded by a durable record; a confirmed operation happened;
- recovery: a task that is waited for was submitted; missing evidence never
  counts as proof in either direction;
- return: a report goes back only as the answer to its command;
- repository: only returned tasks are archived; records or a ledger that a cycle
  could not read are not written over by it, and no submission begins unless all
  evidence could be read;
- state machine: a task under manual review stays there until a human acts;
- emergency stop: after it, only operations already under way may land;
- retry: one retry at a time, within the budget;
- monitor: completed only when it is so, a retry never before a response;
- intake and report parser: the newest well-formed envelope, or nothing;
- loop: every loop ends, and its limits never leave an operation half done;
- all together: an accepted command gets archived or reviewed.

## Modules

| Module | Models |
|---|---|
| `TaskStates` | the states, `LEGAL_TRANSITIONS`, the groups `run_once` dispatches on |
| `Operations` | commands, idempotency keys, records, ledger, and `Reconcile` |
| `Bridge` | processes running `run_once` over the shared files, browser, operator; `DeliveryHolds`, the refinement of `Delivery` |
| `Delivery` | the abstract promise: each operation at most once, after its submission; only returned commands archived |
| `Generation` | `wait_for_completion` and `detect_state` over a changing page |
| `CommandIntake` | how a command is found in the assistant messages |
| `ReportIntake` | how a report is found in a turn of AI Studio, over the texts of `CommandIntake` |
| `Loop` | `run_loop` and both loop guards around the cycles of `Bridge` |
| `StateFiles` | `Bridge` over state files damaged from outside, and `state-inspect` |
| `MCBridge`, `MCLoop`, `MCFiles` | instances of `Bridge`, `Loop` and `StateFiles` |
| `BridgeProofs`, `AnswerProofs` | theorems about `Bridge`: types, at most once, reports and confirmations |
| `HaltProofs` | emergency stop, manual review, dry run |
| `DeliveryProofs` | waiting, archive, order of retries, refinement of `Delivery`; the task in hand during a cycle; review of failed operations |
| `LoopProofs`, `FilesProofs`, `GenerationProofs` | theorems about `Loop`, `StateFiles` and `Generation` |
| `IntakeProofs` | theorems about `CommandIntake` and `ReportIntake` |

### Bridge

A command is one canonical `[SUPERVISOR]` block, so one SHA256 (taken to be
injective). `TaskOf`, `PhaseOf` and `Mentions` say which commands share a
TASK_ID, a PHASE, and whose TASK_ID occurs in whose text; reconciliation
searches for nothing but that. An idempotency key is a record of operation
type, command and retry attempt. The key contains the identity that
`record_operation` compares, so a mismatch of identities cannot occur.

`active`, `records`, `checkpoint`, `ledger` and `estop` are the files. Of the
checkpoint only its existence is ever read. Writes are atomic as in the code
(temporary file, then replace). `pc`, `job`, `op`, `snap`, `entries`,
`report` and `dry` are the locals of one cycle, gone when it ends. `snap` is the
copy of the records that `record_operation` loads in one step and writes back in
another, and `entries` the copy of the ledger that `archive_to_ledger` does the
same with.
`clicks`, `answered`, `reported` and `armed` are the world and history: the
clicks that took effect, the commands answered in AI Studio, the pairs of
command and report sent back, the processes that had passed the stop check when
the stop was engaged.

A step of a cycle is the code between two points where something else can
happen: an await or a durable write. `run_once` maps to actions as follows.

| Code | Actions |
|---|---|
| `runtime.py` 101-235, start of cycle | `HaltOnStop`, `HaltOnTask`, `BeginCycle`, `OrphanCheck` |
| 266-335, fresh command | `Intake`, then the submission |
| 341-440, recovery of a submission | `Advance`, `ResumeProven`, `Resubmit`, `HaltAmbiguous` |
| 442-474, recovery of a return | `ReconcileReturn` |
| 476-600, polling | `FindRetry`, `DetectRetryExecuted`, `DetectRetryAmbiguous`, `DetectNothingToDo`, `DetectCompleted`, `AcceptReport`, `RejectReport` |
| 602-653, retry | `DetectRetryAvailable`, `SaveRetry`, `ClickRetry`, `RetryButtonMissing`, `RetryClickRaises` |
| `orchestrator.py`, `idempotency.py`, prepare | `Prepare` (stop, load, check), `WritePrepared`, `WriteCheckpoint` |
| confirm | `ConfirmLoad`, `WriteConfirmed`, `Resave` |
| `submission.py`, `return_to_supervisor.py` | `PageNotReady`, `ClickSend`, `ClickRaises`, `SaveUncertain`, `SaveSubmitted`, `MarkReturned` |
| `archive_to_ledger`, `clear_active_task` | `ArchiveLoad`, `ArchiveWrite`, `ArchiveClear` |
| 669-682, or the process dying | `Interrupt`, at any step |

A click that raises (`ClickRaises`, `RetryClickRaises`) may or may not have
taken effect. Evidence from the pages is what earlier clicks left there, or
nothing: extraction may be incomplete. The outcomes of `detect_state` are
chosen freely, because the page may show anything at any time. `COMPLETED` with
an acceptable report needs a report that exists.

The environment posts any command at any time, also one that was executed
before, which stands as well for the partial reading of older messages. Gemini
answers only what was submitted. The operator acts between cycles: he engages
or releases the stop at any time, removes a halted task file or a checkpoint,
or sets a reviewed task to one of `OperatorStates` (`README.md`:235).

`PROJECT.json` gives the lines of every definition under "map".

### Generation

The monitor reads the page with one query per element. `ChangePage` may put any
other page between any two queries, and a query may raise, which `inspect()`
and `extract_latest_response_text` turn into "absent". `Shown` lists the modes
of the page, `White` the texts of white space only, which `detect_state` takes
for no response and the sampling does not. `blank` remembers that there was no
response at some time of a check, `unheard` that the query for the turns or for
their text raised. Time is counted in poll intervals.
`run_once` uses `detect_state` alone; nothing calls `wait_for_completion`.

### CommandIntake

A text is a sequence of marks (`START`, `END`), blocks and prose. A block is a
complete `[SUPERVISOR]`...`[/SUPERVISOR]` and its headers are in order or not.
`Extract` follows the code (count, pair, take the last, look for nested marks,
take the block), and `IsCommandOf` is a definition without a search: the last
start mark, its next end mark, the block between. ChatGPT writes token by token
and the bridge may read after each, so every text up to the bound is read.

### ReportIntake

The report parser reads the same kind of text with other rules: tags must match
in number, the report runs from the last start tag to the next end tag, and its
headers count only when it begins with them. `START` and `END` stand for the
report tags here, and a block for header lines and the prose below them.

### Loop

`Loop` adds the controller to `Bridge`: `at` says where each loop is, `guard` is
the controller's `LoopGuard`, `safety` the one of the engine's
`SafetyOrchestrator`, both new with every loop. `RunOnce` wraps a step of
`Bridge`; the first and the last step of a cycle are seen by `pc` leaving and
reaching `"idle"`. `result` keeps what the controller reads of the result of a
cycle: its operation signature (`IDEMPOTENCY_KEY`, or `ACTION_TAKEN` for a
resumed submission and a return, which name no key) and `CYCLE_TERMINAL`.
`CheckpointAndGuard` is the end of `prepare_operation`, where the orchestrator's
guard may raise with the record and the checkpoint written. `effects` counts the
clicks of a cycle. A loop over dry runs is left out: it changes nothing but a
retry's record and repeats itself up to the limit.

### StateFiles

`damage` says what is wrong with each file and the variables of `Bridge` what it
contained. A garbled file is one that its loader rejects: every file that does not
parse, an empty one other than the records, and a task or a ledger of the wrong
shape. The loaders of records and
checkpoint look at no schema, so records that parse are taken as they are, and a
checkpoint of `{}` or `null` reads as none. A task file may also carry an unknown
state or a command that does not have its hash. `Reads` lists
the files that are loaded at each label. Where one of them is damaged the cycle
fails in the way of that place (`Fails`), which differs: `HALTED`, an error, a
review, or an exception that leaves `run_once`. `Judged` is reconciliation,
which stops at the first file that decides. Otherwise the step is that of
`Bridge`. An empty records file is no damage to the code, so `BlankRecords`
empties the records. Damage falls between any two steps; a step that writes the
file anew ends it, and so does the operator, who may also remove an unusable
task file. A garbled `emergency_stop.json` reads as engaged, like `EngageStop`.
`Inspection` is `state-inspect` over the same files, with the two flags it raises.

## Runs

Every property of a passing run has a mutant in `PROJECT.json`: a plausible bug
in the named definition, under which TLC finds the property violated.

### Passing

| Run | Instance | Shows |
|---|---|---|
| `Crash` | 2 commands, 1 process, 2 retries, 2 faults, stop, operator | `TypeOK`; `AtMostOnce`, `IntentOnDisk`, `RetriesSettleInOrder`, `WaitingWasSubmitted`, `ReturnsAnswerTheirCommand`, `ConfirmedWasClicked`, `FailedOperationIsReviewed`; `ManualReviewHalts`, `StopLetsOnlyArmedLand`; `DeliveryHolds` |
| `Operator` | 2 phases of one task, dry runs, 6 states the operator may set, 1 fault | `AtMostOnce`, `ReturnsAnswerTheirCommand`, `ArchivedWasReturned`, `DryRunTouchesNoTask` |
| `Duplicate` | 2 commands, 2 processes (symmetric), 1 fault | `WaitingWasSubmitted`, `ConfirmedWasClicked`, `ArchivedWasReturned` |
| `Loop` | 2 commands, 1 process, 1 retry, 1 fault, operator; 3 iterations, `max_cycles` none or 2; with fairness | `LoopTypeOK`, `OneEffectPerCycle`, `GuardNeverStrands`, `NoRepeatedOperation`; `BridgeHolds`; `LoopEnds`, `TaskSettlesUnlessReturnFails` |
| `Damage` | 2 commands, 1 process, 1 retry, 1 fault, dry runs, 3 states the operator may set; 2 damages | `FilesTypeOK`, `OperationsNeedEvidence`, `OnlyBlankedReturnsRepeat`; `UnreadEvidenceIsKept`, `InspectionAgrees` |
| `Waiting` | 2 samples, 3 page changes, 2 failed queries | `TypeOK`, `QuietVerdict`, `NoPartialText`, `RetryOnlyWithoutResponse`, `WaitEnds` |
| `Intake` | 2 good blocks, 1 bad, 7 tokens | `LastEnvelopeDecides`, `NoOlderCommand`, `CommandIsFinal`; `LastReportOnly`, `ReportIsFinal` |

Why the bounds are enough to be interesting. Two commands are the fewest by
which evidence, reports or records of one could be taken for the other. Two
faults reach a crash during the recovery from a crash; two retries are the
fewest that have an order. Two processes suffice for every lost update. The
theorems below hold without bounds. `NoPartialText` speaks of fewer than
`2 * Samples - 1` page changes and failed queries together, here three: with as
many, the page can pass for finished, or both signs of generation go unheard,
and be generating again at every sample, so the condition is tight, and the run
goes up to it. Two failed queries are what it takes to miss both signs at once.
`FailedOperationIsReviewed` excuses the states in `OperatorStates`, in `Crash`
only `RETURN_PREPARED`, and a task whose TASK_ID is in the ledger: its
records are no orphan, so its command may be accepted again over an old record. In `Intake`, six tokens nest an envelope or hold two
reports and a seventh makes two messages or a text behind them.

`Loop` has exactly as many iterations as a task has operations:
`MaxIterations = MaxRetries + 2`, the least for which `GuardNeverStrands` can
hold, where the settings have 10 and 3. With `max_cycles` 2 a loop ends in the
middle of a task and the next one goes on. `Damage` needs two damages for an
emptied records file next to an unreadable checkpoint, the pair that would let a
submission be repeated. Its operator removes no checkpoint: with both records
and checkpoint gone nothing on disk tells of a submission any more, and only the
page protects it.

`TypeOK` of `Bridge` includes the retry count within its budget and of
`Generation` the clock within its limit; both have mutants that break it.

Deadlock is checked in the runs of `Bridge`, `Loop` and `StateFiles`: an idle
process can always start a cycle, and a loop that ended another one. `Generation` ends when the wait returns and `CommandIntake` at its
bound, so those runs do not check it.

Fairness. In `Loop` the controller and its cycles go on (`WF` of `Cycle`,
`Record`, `StopAtMaxCycles`): they wait for nothing but queries, file writes and
`asyncio.sleep`. `WF(StartLoop)` says that the operator or a scheduler starts a
loop again when one has ended, which the code asks for by ending on the first
halted cycle and after ten cycles; `LoopEnds` does not use it. `SF` of
`DetectCompleted` and `AcceptReport` says that an implementer who is polled for
ever is found to have completed at some time and that its report is well formed,
and `WF(GeminiAnswers)` that a submitted command is answered in the end: both
are assumptions about Gemini and not about the code. `LiveSpec` of `Bridge`, for
`WedgedReturn`, has the same without the loop. `WF(Monitor)` in `Generation`
says a query or a sleep ends.

### Violations

Each is a disagreement of code and documentation, found while modelling; TLC
gives the shortest behaviour.

- `DuplicateClick` (`AtMostOnce`): two invocations load the records before
  either writes and both click.
- `FalseOrphan` (`OrphanIsUnarchived`): nothing removes the checkpoint, so each
  cycle after the first archived task reports `ORPHANED_STATE`.
- `WedgedReturn` (`TaskSettles`): after a crash past the `PREPARED` record of a
  return, every cycle raises on that record. `RETURN_PREPARED`, which would
  lead to reconciliation, is never saved.
- `PhaseMention` (`WaitingWasSubmitted`): the TASK_ID of an earlier phase proves
  the submission of a later one.
- `RetryUnclicked` (`ConfirmedRetryWasClicked`): a generation under way, or a
  response that was there before, confirms a prepared retry that was never
  clicked.

### Further disagreements, met while modelling and not run

- Two processes also lose records (the whole file is replaced from an old copy),
  so `IntentOnDisk` needs one process; likewise they lose entries of the ledger,
  after which a returned task is an orphan; and they save over
  `MANUAL_REVIEW_REQUIRED`, so `ManualReviewHalts` needs one process too.
- A click that has passed the stop check lands after the stop is engaged, where
  `README.md`:200 says "blocked instantly". `StopLetsOnlyArmedLand` states
  what does hold. The same line names the wrong file.
- Reports are matched by TASK_ID and PHASE, so a reissued command of the same
  task and phase gets the report to its earlier version. `Distinct` below is
  this assumption.
- A dry run writes the `CONFIRMED` record of a reconciled retry
  (`src/bridge/runtime.py`:496 against `main.py`:50). `DryRunTouchesNoTask` says
  that this is the only thing a dry run writes.
- An exception in `extract_latest_response_text` reads as no response, and a
  retry is offered over a completed one (`ai_studio_adapter.py`:143 against
  `generation_monitor.py`:100). `RetryOnlyWithoutResponse` says that only this
  query and the one for the turns can have this effect.
- `README.md`:40 says that any corrupted or mismatched state "halts
  immediately into `MANUAL_REVIEW_REQUIRED`". An empty records file is taken for
  no records, so a return may be clicked twice (`OnlyBlankedReturnsRepeat`); an
  unknown state in the task file, and records or a checkpoint that do not parse
  when there is no task, end `run_once` with an exception (only the
  `CorruptStateError` of the ledger is caught at `src/bridge/runtime.py`:172); a
  ledger that does not parse does not hinder a return, whose task then cannot be
  archived and fails in every later cycle; a checkpoint that does not parse is
  replaced, unread, by the next retry or return of a task that is under way
  (`src/safety/checkpoint.py`:38), and so are the damaged contents lost.
  `UnreadEvidenceIsKept` therefore speaks of records and ledger only.
- `recovery-status` reads keys that `inspect_full_state` never sets
  (`main.py`:196-197), so it always reports no completed task and no record. It
  does not show the checkpoint, for which alone `run_once` reports an orphan.
  `state-inspect` shows it, but raises neither `orphaned_state_detected` nor
  `reconciliation_required` for it (`src/diagnostics/state_inspector.py`:29-30),
  while every cycle halts; `InspectionAgrees` states both sides of this.
- A report quoted inside a report wins over the one around it, where a nested
  command envelope is rejected.
- The controller counts the cycles of a long generation, so it stops after ten
  polls (`src/bridge/loop_controller.py`:40 says they do not count as repeated
  operations, and they do not; `NoRepeatedOperation`). The last cycle runs before
  the guard notices, so a limit of ten runs eleven.
- A retry whose button is gone is reported as performed with one side effect.
- A crash between the `PREPARED` record of a retry and the save of its count
  leads to review in the next cycle when the page shows neither generation nor
  response.
- An older malformed message blocks every newer command, where
  `src/protocol/message_parser.py`:25-26 speaks of the newest candidate only.
  `NoOlderCommand` states what does hold.
- `supervisor_protocol.py`:56 says duplicate envelopes fail closed; two
  envelopes side by side are accepted, the latter counting, and stray marks
  outside the last envelope pass as long as their numbers match.
- `README.md`:210 says an unproven submission is repeated; with a record or a
  checkpoint, and so after any crash past `WritePrepared`, it is reviewed.
- `main.py` passes `max_cycles` to `LoopController`, which takes none, so
  `run-loop` fails before its first cycle.
- The setting `stable_samples_required` is read under another name
  (`stable_completion_sample_count`); samples from before an uncertain state
  count as consecutive.
- A command that is still the newest after its task was archived is accepted
  again once the checkpoint is removed; its record stops the click and the
  cycle ends in error.

## Proofs

All for any commands, processes, retries, faults, operator states, damages,
samples, page changes and texts. Each hypothesis stands in the theorems that need it
and nowhere else.

| Theorem | Module | Assumes | Establishes |
|---|---|---|---|
| `TypeCorrect` | `BridgeProofs` | | `Spec => []TypeOK` |
| `ClickedAtMostOnce` | `BridgeProofs` | `Alone` | `Spec => []AtMostOnce` |
| `IntentPrecedesClick` | `BridgeProofs` | `Alone` | `Spec => []IntentOnDisk` |
| `ReportsMatch` | `AnswerProofs` | `Distinct` | `Spec => []ReturnsAnswerTheirCommand` |
| `ConfirmationIsTrue` | `AnswerProofs` | | `Spec => []ConfirmedWasClicked` |
| `StopIsObeyed` | `HaltProofs` | | `Spec => StopLetsOnlyArmedLand` |
| `ReviewIsFinal` | `HaltProofs` | `Alone` | `Spec => ManualReviewHalts` |
| `DryRunObserves` | `HaltProofs` | `Alone` | `Spec => DryRunTouchesNoTask` |
| `WaitIsEarned` | `DeliveryProofs` | `WaitTrusted` | `Spec => []WaitingWasSubmitted` |
| `ArchiveIsEarned` | `DeliveryProofs` | `ReturnTrusted` | `Spec => []ArchivedWasReturned` |
| `RetriesWaitTheirTurn` | `DeliveryProofs` | `Alone` | `Spec => []RetriesSettleInOrder` |
| `DeliveryIsImplemented` | `DeliveryProofs` | `Alone`, `Apart`, `OperatorRestrained` | `Spec => DeliveryHolds` |
| `FailuresAreReviewed` | `DeliveryProofs` | `Alone`, `ReviewOnly` | `Spec => []FailedOperationIsReviewed` |
| `CyclesClickOnce` | `LoopProofs` | | `LoopSpec => []OneEffectPerCycle` |
| `LoopKeepsItsLimit` | `LoopProofs` | `Alone`, `Roomy` | `LoopSpec => []LoopTypeOK` |
| `NothingIsStranded` | `LoopProofs` | `Alone`, `Roomy` | `LoopSpec => []GuardNeverStrands` |
| `OperationsDiffer` | `LoopProofs` | `Alone`, `Roomy` | `LoopSpec => []NoRepeatedOperation` |
| `LoopIsBridge` | `LoopProofs` | `Alone`, `Roomy` | `LoopSpec => BridgeHolds` |
| `FilesTypeCorrect` | `FilesProofs` | | `FilesSpec => []FilesTypeOK` |
| `EvidenceComesFirst` | `FilesProofs` | `Alone` | `FilesSpec => []OperationsNeedEvidence` |
| `UnreadEvidenceStays` | `FilesProofs` | `Alone` | `FilesSpec => UnreadEvidenceIsKept` |
| `InspectorSeesTheSame` | `FilesProofs` | `Alone` | `FilesSpec => InspectionAgrees` |
| `OnlyReturnsRepeat` | `FilesProofs` | `Alone`, `CheckpointStays` | `FilesSpec => []OnlyBlankedReturnsRepeat` |
| `RoundsAreTimed` | `GenerationProofs` | | `Spec => []TypeOK` |
| `StillPageIsRanked` | `GenerationProofs` | | `Spec => []QuietVerdict` |
| `ResponseForbidsRetry` | `GenerationProofs` | | `Spec => []RetryOnlyWithoutResponse` |
| `PartialTextIsCostly` | `GenerationProofs` | | `Spec => []NoPartialText` |
| `OnlyTheLastEnvelope` | `IntakeProofs` | | `Spec => []LastEnvelopeDecides` |
| `OnlyTheNewestMessage` | `IntakeProofs` | | `Spec => []NoOlderCommand` |
| `FoundCommandStays` | `IntakeProofs` | | `Spec => CommandIsFinal` |
| `OnlyTheLastReport` | `IntakeProofs` | | `Spec => []LastReportOnly` |
| `TakenReportStays` | `IntakeProofs` | | `Spec => ReportIsFinal` |

### What is assumed

The assumptions of the modules give the constants their types and no more.

- `Alone`: at most one process works on the directory. With two, `DuplicateClick`
  is the counterexample.
- `Distinct`: no two commands share TASK_ID and PHASE, by which reports are
  matched.
- `Apart`: no command's text holds the TASK_ID of another one. Otherwise
  `PhaseMention` is the counterexample.
- `WaitTrusted`: `Apart`, and the operator does not set a state that says the
  command was submitted. `ReturnTrusted`: he does not finish a task himself, and
  lets no return be looked for by a TASK_ID that is shared.
  `OperatorRestrained`: he sets neither a finished state nor one that is polled.
  The recovery takes his word and the page's for it, so nothing can hold without.
- `ReviewOnly`: the operator takes a task out of review only to have its return
  looked for, or to fail it. If he declares a task submitted whose submission is
  unfinished, its record stays so while the task goes on.
- `CheckpointStays`: the operator removes no checkpoint. With both records and
  checkpoint gone, nothing on disk tells of a submission any more.
- `Roomy`: `MaxIterations >= MaxRetries + 2`. The settings have 10 and 3.

### The invariants

`TypeInv` strengthens `TypeOK` by `LocalsOK`: where a task or a contract is in
hand it is one, since several labels are reached only with a task loaded.

`IntentInv` is what makes at-most-once inductive. Between the check and the
click the program relies on what it read: at `writeRecord` the loaded records
are current and the key is new (`IntentFresh`), from there to the click the key
is `PREPARED` and unclicked (`IntentArmed`), and when a confirmation is written
the loaded records are current (`IntentWriting`), or a write would erase the
record that protects a click. Steps are sorted into those that do not touch
what is relied upon (`Quiet`) and the few that do, each with its lemma. A crash
only ends a cycle, so it is quiet; the record it leaves is never `NONE` again,
hence `Prepare` refuses the key for good.

`AnswerInv` relates the contract in hand to the world: after the click it was
clicked, a return holds a report that was written for its command and the
command was submitted, and even a stale copy of the records says `CONFIRMED`
only of what was clicked. That That is why these two theorems need no `Alone`..

The action properties of `HaltProofs` rest on one small invariant each.
`StopInv`: while the stop is engaged, whoever is past the stop check was already
there when it was engaged. `HaltInv`: a cycle under way has no halted task, in
memory or on disk, so whatever it saves takes none out of review. `DryInv` and
`HeldInv`: a dry run never reaches a label that acts, and an unfinished retry
that it may confirm is still `PREPARED`.

`EvidenceInv` carries proof of the submission and of the return through the
cycle: a task is `Honest`, on disk and in memory, when its state claims nothing
that was not clicked, and `StageOK` says the same of the labels. The step that
matters is reconciliation: what it finds on the page got there by a click of
some command that mentions the TASK_ID, and under `Apart` this is the command
itself. It needs no `Alone`: two processes may click twice, but neither claims
what was never clicked, nor does a stale copy of the ledger (`EntriesEarned`).

`RetryInv` (`RetriesWaitTheirTurn`) says that a task's retry count is covered by
records (`Counted`), that a cycle which goes on to a new retry found no prepared
one, and that all earlier ones are confirmed (`Settled`). It needs `IntentInv`,
since a lost update would take a confirmation back.

`DeliveryIsImplemented` maps each step: a landing click is an abstract delivery,
`ArchiveWrite` an archiving or a stutter, everything else a stutter. The
invariants above give the abstract guards: at most once, retry and return after
the submission, archived only when returned. `LoadedFresh` says that the ledger
to be written back is the one on disk; two processes would drop an entry, which
is no step of `Delivery`.

`FailInv` (`FailuresAreReviewed`) accounts for every `PREPARED` submission or
return of the task on disk: until the first fault it is on its way between
record and confirmation (`InFlight`), or under review, or its TASK_ID is in the
ledger. A cycle leaves the labels in flight by a confirmation, by a save for
review, or by `MarkReturned` raising, and this last way out is closed because a
return starts only from a validated response (`UnderWay`).

`WholeInv` of `LoopProofs` has the invariants of `Bridge` next to `EffectInv`, `ShapeInv`
and `LoopInv`. The point is that the operations a guard has counted are
operations of one task: a loop ends with its task, and a task has one
submission, at most `MaxRetries` retries and one return, each of which leaves a
record or a count (`Spent`). So the guard counts no further than `Spent`, which
is at most `MaxRetries + 2`, and does not raise at the one place where raising
would strand an operation. The same order of operations keeps signatures
different. A step of a loop that strands nothing is a step of `Bridge`, which
gives `LoopIsBridge` and takes every theorem above into the loop.

`FilesProofs` shows first that a cycle that meets a damaged file either takes a
step of `Bridge` or breaks off with nothing written but a review (`BreaksOff`),
so the invariants of `Bridge` carry over; `IntentInv` does so until the records
are emptied. `UnreadInv` says that records and ledger which are unread stay
damaged until somebody repairs them, and that a cycle does not get past the label
that loads them: in particular none that writes the ledger has failed to read it.
`RepeatInv` finds what protects the clicks when the records are gone: a click
leaves the checkpoint, no submission begins under one (`BegunFresh`), and the
task file counts its retries by itself (`CountedRetries`). A return has neither,
which is why it may repeat. The proofs fail, as they must, when reconciliation
does not look at the checkpoint or when the operator may remove it.

In `GenerationProofs`, `RoundInv` says which elements have been looked for at
each label and that no round begins past the limit; `StillInv` that what was
found of a page that kept still is what it shows; `ResponseInv` that the turns,
which are looked for last, cannot be missed while a response is there unless
one of their two queries raises.
`DeceptionInv` is the cost of being deceived: a text of a running generation
enters a sample only if the page did not look as if it were generating when asked
and showed the text when read, or both signs of generation went unheard; so with
`n` equal samples at the end of the list there were at least `Cost(n)` changes
and failed queries. With `Samples` of them this is
`2 * Samples - 1`, the bound that `Waiting` shows to be tight.

`IntakeProofs` is about texts of any length. Where an induction over texts would
be needed, it takes the least or greatest position at which something fails
(`LeastExists`, from the well-foundedness of the natural numbers). That the search
for envelopes is a function at all (`SearchExists`) is the first use: each round
looks only behind the end mark it has found. `SearchFinds` says that what it finds is a
start mark, its next end mark and no start behind them; with the check for nested marks
this is the last envelope. `SearchStays` compares the searches of a text before
and after a token.

### Only model-checked

Liveness, which the prover does not do: `LoopEnds`,
`TaskSettlesUnlessReturnFails`, `WaitEnds`, and the violated `TaskSettles`. Every
invariant and every action property of the passing runs has its theorem.

## Not modelled

- Header syntax, selectors and formatting: a block's headers are in order or not.
- Failing writes (a full disk): the write raises and the old file stays, which is
  an exception of `run_once` and so `Interrupt`.
- Browser and tabs: pure I/O, whose failure is an exception of `run_once` and so
  `Interrupt`. Each cycle takes the matching tab whose URL sorts first; when that
  changes from one cycle to the next, evidence is missing, which `Bridge` allows
  in every cycle. Turns of a foreign conversation that name the task are left
  out.
- `run_loop` over dry runs, and the read-only commands of `main.py` other than
  `state-inspect`.
- Configuration, logging, paths: they are read once, at the start.

## Plan

1. Done: the core (`TaskStates`, `Operations`, `Bridge`, `Delivery`), its runs,
   type correctness and at-most-once; `Generation` and `CommandIntake`.
2. Done: `Loop`, `StateFiles` and `ReportIntake`.
3. Done: the theorems about all components, and the refinement of `Delivery`.
4. Next: what two processes can rely on together, beyond `WaitIsEarned` and
   `ArchiveIsEarned`; an abstract specification of the records for several writers.
