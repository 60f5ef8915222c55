# Verification of the AI PROF control center

TLA+ modules, TLC configurations and TLAPS proofs for the control center in
`src/orchestrator`: a pipeline that takes Markdown task files through validation,
implementation by a model, an independent audit, automatic repair and
publication, all in one Git checkout per project; what brings tasks into it
(issues, messages, campaigns, the command line); and the lifecycle engine and
store that run beside it as a shadow.

| module | models | instance | proofs |
|---|---|---|---|
| `TaskPipeline` | supervisor, stages 01A to 01C, auto-repair, publisher as one child | `MCTaskPipeline` | `TaskPipelineProofs` |
| `CheckoutLock`, `TaskPipelineLock` | what the pipeline promises about the checkout; the refinement mapping | `MCTaskPipeline` | `TaskPipelineProofs` |
| `TaskPublisher` | the publishers call by call, three gates, the remote | `MCTaskPublisher` | `TaskPublisherProofs` |
| `Campaign` | the ticks of the campaigns | `MCCampaign` | `CampaignProofs` |
| `TaskGateway` | the GitHub gateway, intake, cancel | `TaskGateway` itself | `TaskGatewayProofs` |
| `TelegramBridge` | the Telegram bridge and its notifications | `MCTelegramBridge` | `TelegramBridgeProofs` |
| `LifecycleEngine` | Slice 3 of the engine and the loop that drives it | `MCLifecycleEngine` | `LifecycleEngineProofs` |
| `ShadowLifecycle` | Slice 1 of the engine: transitions, authority, reconciliation | `MCShadowLifecycle` | `ShadowLifecycleProofs` |
| `StoreContract`, `LifecycleStore` | what the store promises its readers; the store and its transactions | `MCLifecycleStore` | `LifecycleStoreProofs` |

Section 1 is the inventory, 2 the modules, 3 the runs of TLC, 4 the theorems, 5
the plan, 6 what is not modelled.

## 1. The system

### Components

| component | source | state it keeps | operations |
|---|---|---|---|
| supervisor | `control_loop.py`, `control_loop_service.py`, `control_loop_service_night.py` | supervisor lock, heartbeat, stop and pause markers | `run_daemon`, `run_cycle`, `run_child`; the services compose the list of children |
| Stage 01A | `orchestrator.py` | queue files, logs | `process_one`: pending -> active -> review / blocked / failed |
| Stage 01B | `claude_runner.py`, run through `codex_stage01b_runner.py` and `_v2.py` | queue files, 01B logs, the checkout | `process_one`: review -> active -> pending_codex / blocked / failed |
| Stage 01C | `codex_runner.py` | queue files, 01C logs, the attempt counter in the task file | `process_one`: pending_codex -> active -> approved / review / blocked |
| auto-repair | `auto_repair_runner.py` | queue files, the attempt counter, backups, the checkout | `recover_review_limit`: blocked -> pending_codex; `recover_check_failure`: failed -> review |
| operations | `operations_runner.py`, `_night.py`, `operation_profiles.py` | queue files, logs | `process_one`: pending -> active -> completed / blocked / failed |
| publishers | `approved_task_publisher.py` with `_gate.py` (KOL), `ak_bermet_..._gate.py`, `ai_prof_..._gate.py` and `_gate_v2.py` (the control center itself) | queue files, commits, branches, pull requests | `process_task`, `run_once`: approved -> completed |
| intake | `submit_task.py`, `submit_task_v2.py`, `project_registry.py` | queue files | `create`, `cancel`, `status`, `list` |
| campaigns | `campaign_runner.py` | one state file per campaign, an integration branch | `tick_campaign`: create the next task, complete an approved one |
| GitHub gateway | `github_task_gateway.py`, `_service.py`, `_service_v4.py`, `kol_publication_contract_v4.py` | import ledger, issue comments | `poll_once`: issues -> tasks, states -> reports |
| Telegram bridge | `telegram_bridge.py`, `_v2` .. `_v4` | update offset, conversation state | commands to submit, look at and release tasks |
| lifecycle engine | `universal_task_lifecycle.py`, `control_loop_service.py` | none of its own: snapshots that its callers hold | transitions, reconciliation of a shadow; the loop EXECUTE, TEST, AUDIT with its retry budget |
| lifecycle store | `universal_task_lifecycle_store.py` | tables of lifecycles, leases, inbox, ledger, evidence, outbox, acknowledgements | transactions, compare-and-swap, leases, claims, appends, acknowledgement |
| one-off operations | `release_flow.py`, `ak_bermet_*.py`, `retry_kol_v4_*.py`, `scripts/` | none between runs | fixed procedures on one project |

### How they interact

A task is a file; the directory that holds it is its state, and every transition
is a rename (`safe_move`, `move_no_replace`). The runners never talk to each
other: Stage 01B leaves `STAGE_01B_CODEX_PASS` in a log that auto-repair and the
publisher read; Stage 01C writes the attempt counter into the task file that
01B reads; `BLOCKED_REVIEW_ATTEMPTS_EXCEEDED` in an 01C log is what auto-repair
looks for. The supervisor runs one child after another and knows only their exit
codes: 0 and 1 go on to the next child, anything else ends the cycle, and a new
cycle begins at the first child.

The second thing they share is the checkout of the project. 01B leaves its
implementation uncommitted in it, 01C audits it there in a later child, and the
publisher commits it in a later one again; auto-repair throws it away there.
Nothing but the branch name says whose implementation the checkout holds.

Third, the owner works in the same checkout, submits and cancels tasks, ticks
campaigns and edits `config.json`, at any moment.

The gateway, the bridge and the command line create tasks through
`submit_task.atomic_create`, whose `os.link` is the moment a task exists. Gateway
and bridge are processes of their own: they see the pipeline only through the
queue directories, which they list one after another while the files move. What
they have done they remember in files of their own, written before or after the
comment, the message or the task they speak of.

The publishers talk to a remote where others merge, close, delete and push. The
campaign tick ends every cycle of the supervisor and works in the same checkout
as the stages. The lifecycle engine runs beside the pipeline as a shadow, with
adapters given from outside; its store is what a durable one must do, in memory,
for the threads of one process.

### What is hard

- one checkout for all tasks, with stages of other tasks running between the
  moments one task relies on it;
- a child that is killed (2100 s timeout, crash) between any two writes, and a
  supervisor that simply begins again;
- three comparisons of one attempt counter with two caps that are read from a
  file by different processes at different times, with different defaults;
- a publisher that commits, talks to the network, changes the branch and only
  then moves the task, and must be able to begin again after each of these;
- gates whose refusal stops every other stage, in every cycle;
- decisions taken when the command list is built and used much later;
- calls of GitHub and Telegram whose effect and whose answer can be lost
  separately, and ledgers that have to agree with them after a crash;
- a task that moves from a directory not yet listed into one already listed;
- two processes that tick one campaign, and state files behind the queues;
- adapters and observers that answer late, twice, or about something else;
- transactions whose errors the caller catches, and leases that run out.

`PROJECT.json` lists each hazard with its line and the properties that cover it.

### What makes each component correct

- supervisor: children never overlap, a cycle always comes round again, and no
  other child works while a task waits for a gate that stops the cycle
  (`ApprovedIsPublishable`); where a gate holds the loop up, it is for a named
  reason (`Settles`);
- Stage 01B: it implements only on a checkout that is clean or its own
  (`ImplementsLock`), once per attempt (`LaunchBudget`);
- Stage 01C: what it approves is what it looked at (`PublishedWasApproved`);
- auto-repair: it touches its own task's candidate only (`CandidateIntact`,
  `ImplementsLock`), leaves the owner's files alone (`OwnerEditSurvives`) and
  comes to an end (`LaunchBudget`, `Settles`). It requeues a task only when its cap
  was changed (`RequeueNeedsNewCap`): so its docstring, and not so the code when
  `config.json` cannot be read;
- publishers: they commit what was checked and audited, exactly for approved
  tasks (`PublishedWasApproved`, `CompletedMeansCommitted`), publish it once
  whatever is lost or repeated (`PublishedOnce`, `ProposesOwnCommit`), complete a
  task only when that is done (`CompletedMeansPublished`), give the checkout back
  (`CheckoutReleased`) and finish what they began (`ApprovedCompletes`,
  `Completes`);
- intake and cancel: a task file is never lost, and a cancelled task stays
  cancelled (`NeverLost`, `CancelIsFinal`);
- campaigns: one step at a time and in order, with a state file that never runs
  ahead of the queues (`StepsInOrder`) or goes back (`ProgressKept`), only audited
  work in the integration branch (`OnlyAudited`), complete means merged
  (`UndisturbedMeansMerged`), and an end (`Finishes`);
- gateway: one issue, one task, but for a lost record and a task that moves behind
  the scan (`OneTaskPerIssue`), a ledger that tells the truth (`TruthfulLedger`),
  every issue answered and every end reported (`Answered`);
- Telegram bridge: one message, one task (`OneTaskPerMessage`), no message lost
  but by a crash (`LostOnlyByCrash`), the state in which a task of AK BERMET rests
  told, and once (`EndTold`, `ToldOnce`);
- lifecycle engine: nothing is approved that was not executed, tested and audited
  as it is (`ApprovedWasChecked`, `OneCandidatePerAttempt`), repairs end
  (`BoundNeverReached`, `RepeatedFailureStops`), and its two sets of rules for
  one transition agree (`AlwaysSupported`, `AdvanceIsAllowed`,
  `AdvanceMirrorsKeep`);
- lifecycle store: readers see the tables only extended (`ImplementsContract`), an
  event acts once (`ClaimedOnce`), a lease has one holder (`LeaseExclusive`).

## 2. The modules

### `TaskPipeline`

#### State

| variable | in the code |
|---|---|
| `loc` | the queue directory of every task file |
| `attempt` | its `Codex-Review-Attempt:` field |
| `log01B`, `log01C`, `checkLog` | what the later stages read out of the logs: the newest outcome, and whether some 01B log holds `check failed:` |
| `head` | the branch checked out |
| `tree` | the working tree relative to HEAD: whose candidate, of which launch, whether it covers the scope, and the owner's edits inside and outside the scope |
| `commit` | the commit a publisher put on each work branch: its task (the subject line) and its tree |
| `slot`, `pc`, `cur`, `snap` | position of `run_cycle`, of the running child, its task, and what it remembers of the checkout (01B's baseline, 01C's evidence) |
| `skip01A` | the night service left `stage_01a` out of this cycle's list |
| `cfg` | `max_fix_cycles` in `config.json`; 0 when it cannot be read |
| `contract` | what the publication fields of each task file are to the AI PROF gate: an action, none, or malformed |
| `profile` | the project's entry in `projects.json` as that gate finds it: valid, refused, or unreadable |
| `faults`, `edits`, `cfgs` | how much of the bounds is used; `MaxEvents` bounds the three together |
| `launches`, `checkedC`, `approvedC` | history variables, read by properties only |

A tree is a record, not file contents: the properties only ask whose
implementation it is, from which launch, and what the owner did to it. A tree
with `ver = 0` and a task in `by` is a mixture that an interrupted apply left.

#### Steps

A child is cut into steps where something outside can be noticed: before and
after the model runs, between checks and writes, between the writes of a
publisher. Between two reads of the checkout by one child the owner may edit it
or the child may be killed. `IdleChild` is a child that finds nothing to do.

- 01A: `Stage01AClaim`, `Stage01AFinish`.
- 01B: `Stage01BClaim`, `Stage01BLaunch` (guards, `snapshot_scope_sources`, the
  model), `Stage01BRefuse`, `Stage01BModel`, `Stage01BApply`
  (`verify_scope_sources_unchanged`, `ensure_work_branch`,
  `apply_validated_changes`), `Stage01BApplyFails`, `Stage01BPass`,
  `Stage01BFail`.
- 01C: `Stage01CClaim`, `Stage01CEvidence`, `Stage01CPass`, `Stage01CFail`
  (inside the cap, or over it), `Stage01CInfraBlock`.
- auto-repair: `RecoverReviewLimit`, `RepairBegin`, `RepairRaises`,
  `RepairRestore` (also the exhausted path), `RepairRequeue`.
- operations: `OperationClaim`, `OperationFinish`.
- publisher: `PublishClaim`, `PublishDecline`, `PublishRefuse`, `PublishCommit`,
  `PublishRemote`, `PublishSwitch`, `PublishSync`, `PublishMove`. With
  `Maintenance` it is the AI PROF gate, which has no remote, wants the changed
  paths equal to the scope and can finish a commit it finds on a branch that is
  not checked out (`StaleCommit`); without it is the KOL gate. A refusal of the
  KOL gate ends the cycle (`PublishRefuse`). So does one of the AI PROF gate,
  except that it passes over a task without `Publication-Action` (`Selected`) and
  answers a `MetadataError` after the selection with exit 0 (`PublishDecline`): the
  cycle then goes on with the task in `approved`.
- faults: `Kill` anywhere, `KillDuringApply`, `RollbackFails`,
  `KillDuringRestore`, `KillBeforeLog`, `KillBeforeMove`, `CycleBreak`.
- environment: `Submit`, `Cancel`, `OperatorEdit`, `OperatorReset`, `SetConfig`,
  `SetProfile`.

What the model decides by choice: the outcome of a validation, of the model, of
a check, of an audit, of an operation.

What it leaves out, and why that does not change what is checked:

- A kill between a PASS or FAIL log (or the new attempt 01C writes) and the move
  after it leaves the task in `active`, which no runner reads again; everything
  a later step reads is as after `Kill`.
- Auto-repair raises some errors (a check command that is no longer allowed)
  before it compares the branch; they end the child with exit code 1 and change
  nothing, as `RepairRaises` and `IdleChild` do.
- Exit code 3 for a kernel without `renameat2` stops every stage before its
  first move.
- Base-branch commits by others: the KOL gate wants the work branch to sit on
  the local main, which only `sync_clean_main` and `return_to_clean_main`
  advance, when no candidate is in the tree.
- The campaign tick at the end of a cycle works in the same checkout; it has a
  module of its own, `Campaign`. So has the publisher with its remote,
  `TaskPublisher`: here its calls of GitHub are the one step `PublishRemote`.

#### The abstract specification

`CheckoutLock` has four variables: the checkout, how far each task is (open,
checked, approved, committed, completed), the tree that passed each task's
checks, and the tree committed for it. The checkout is a lock: a task changes it
only when it is clean or already its own, what passed the checks is what is
approved and committed, and a task is committed and completed once. It knows no
queues, children, attempts or faults. `TaskPipelineLock` maps the pipeline to it:
`tree` is the checkout, `checkedC` the checked trees, the stage is read off the
queue, the running child, the logs and the commit, and the published tree off
the work branch. A repair that throws a candidate away, an apply that is killed
half way and a rollback that fails are all the abstract `Implement`; a rejected
audit, a refused one, and a task given up are `Reject`; kills, restarts, claims,
retries and the whole of the publisher after its commit are stutters.

### `TaskPublisher`

The three publisher gates, with every call a step of its own. `gate` says which of
them runs: `kol` and `ak-bermet` share `process_task` and publish on GitHub,
`ai-prof` commits in the maintenance checkout and has no remote.

| variable | in the code |
|---|---|
| `queue`, `logged` | where the task file is; whether the publisher's PASS log exists |
| `branch`, `dirty` | the checkout |
| `base`, `commit` | of each work branch: the base it starts at, and how many commits were made on it |
| `main`, `origin` | the local and the remote base branch, as positions in its history |
| `remote`, `pr`, `prs`, `closed` | the branch on the remote; the last pull request, and how many there were |
| `touched` | history: the branches that somebody else pushed or deleted since they were compared |
| `valid`, `comments` | whether the source issue still says what the task was made of; the result comments on it |
| `pc`, `cur`, `events` | the next call of the child, its task, the bound |

A child begins with `Commit`, or with the commit of an earlier try (`Resume` on the
checked-out branch, `ResumeStale` for the maintenance gate), then `Push`,
`PullRequest`, `Comment`, `Switch`, `Merge`, `Move`, `WriteLog`. Each call can be
refused (`PushFails`, `PullRequestFails`), can fail before or after its effect
(the same two, `CommentFails`, `SwitchFails`), and the child can be killed between
any two (`Crash`). A new child starts from the beginning. `Sync` is `sync_clean_main`
of a child with nothing to publish. The stages before are `StartWork` and
`Approve`; the others on GitHub advance the base (`OthersMerge`), merge or close
the pull request with or without its branch (`ClosePR`), edit the issue
(`EditIssue`), push to the branch of that name at any time, whether or not it is
there (`ForeignPush`); the owner pulls in the checkout (`OwnerPull`).

Which tasks a gate accepts is `Authority`: the KOL gate wants an issue that still
says the same, the AK BERMET gate takes tasks of the Telegram bridge too, the AI
PROF gate wants its base equal to the remote's, and finds its way back to the
base branch only while the base is still the one it recorded (`Restored`).

### `Campaign`

A campaign is a plan of steps; each becomes a pipeline task, whose approved
candidate its tick commits on the work branch and merges into the local
integration branch.

| variable | in the code |
|---|---|
| `queue` | for each task, the queue directories that hold its file: the move to completed is a link and an unlink, so there can be two |
| `saved` | `campaigns/<id>.json`: `state`, `current_index`, and whether `current_task_id` is set |
| `head`, `tree`, `held` | the checkout: its branch, the task whose candidate is uncommitted, and the candidates in the history of each branch |
| `building`, `due` | the task Stage 01B is at work on; whether the cycle is past Stage 01B |
| `todo` | the state files `tick_all` has yet to visit |
| `pc`, `at`, `mem` | of each process: its step, the campaign whose lock it holds, the state it loaded and the clock it read |
| `expired` | the campaigns past their deadline |
| `events`, `audited` | the bound, and a history variable: what the tree was when Stage 01C approved the task |

There are two processes: the supervisor, which calls `tick_all` at the end of a
cycle, and the owner with `campaign_runner.py start` and `tick`. The steps of
a tick follow `tick_campaign`: `Locate`; for an approved task `CheckBranch`,
`ReadChanges`, `Commit`, `Checkout`, `Merge`, `Link`, `Unlink`; then `Create` and
`Save`. Any of them may be the last (`Crash`), a merge may conflict
(`MergeConflict`). A `CampaignError` ends the tick (`Leave`); any other exception
ends the process (`Die`). A task identifier is the same in every process, and so
is the content of its file, which is why a `Create` after a crash finds its own
task.

The pipeline is there in an abstract form (`Build`, `Apply`, `Stop`, `Approve`),
with what the tick can see of it: where the task file is, which branch is
checked out, whose candidate is uncommitted. A task that stops gives the checkout
back on its base branch, which for a task of a campaign is the integration branch. A supervisor ticks only between its
children; the owner ticks at any time. `MaxEvents` bounds the crashes, failing
commands, conflicts and ticks of the owner together, and the rejected or killed
tasks a tick finds at work. One task takes its attempts in
one `Apply`: the campaign looks at it only when it is approved.

### `TaskGateway`

The GitHub gateway with its services, and `submit_task.py` create and cancel.

| variable | in the code |
|---|---|
| `queue` | for each task `<<issue, n>>`, the queue directories that hold its file: `active` while a runner has it, `review` for all the queues in which it waits for the next runner |
| `form`, `open`, `told` | on GitHub: whether the issue asks for a task, for a recovery, or validly for neither; whether it is open; its comments |
| `ledger`, `mem`, `changed` | the state file, the state in memory, and the flag that decides whether it is saved |
| `pc`, `phase`, `cur`, `say`, `todo` | where `poll_once` is, in its loop over the issues or its loop over the records |
| `left`, `listed` | the directories `find_existing_task_for_issue` has not yet listed, and the files it found |
| `moved`, `raced` | history: the tasks that moved since this scan began; the tasks that moved during any scan for their issue |
| `runs` | how often the recovery script ran for each issue |
| `cancel`, `events` | the cancel commands, and the bound |

`BeginPoll` loads the state and the open issues. For an issue without a record,
`process_issue` rejects it (`RejectIssue`), runs the recovery of the KOL service
(`RunRecovery`), or looks for its task (`BeginScan`, one `ListQueue` for each
directory, `Dedupe`) and creates it (`SubmitLinks`, `SubmitReturns`,
`SubmitRefused`, `SyncFails`). A record is made before its comment is posted
(`Posted`, `PostFails`), a reported state after (`Report`, `ReportFails`).
`SyncFails` is a directory that cannot be synced after the link; under the V4
contract that error ends the process. `EndPoll` saves. `Crash` ends the process anywhere; a call that fails may have
had its effect or not. Cancel is `CancelLocate`, `CancelLink`, `CancelUnlink`, and
`CancelKilled` between them. The pipeline is `Move`, the owner `CloseIssue` and
`EditIssue`.

The runners move files at any time, also between two directories of a scan, and
that is no event.

### `TelegramBridge`

The bridge in the form the service runs it (version 3 over the parts it keeps of
the earlier ones). Updates are numbered and the task of a message has its number.

| variable | in the code |
|---|---|
| `sent` | the messages the owner has sent |
| `file`, `offset`, `upto` | the offset file, the offset in memory, the last update of the batch |
| `state`, `created` | the task of each message, and how many it created |
| `bermet`, `logged` | which of the tasks are of the project AK BERMET; for which the publisher wrote its PASS log |
| `known`, `notified`, `snap` | `notify_terminal_changes`: whether its file exists, what is in it, what this round found |
| `pc`, `say` | the step of the loop, the reply to be sent |
| `answered`, `told`, `silent`, `crashes`, `events` | history variables and the bound |

The loop is `Start`, `GetUpdates`, `Advance` and `WriteOffset` for each update, then its
handler (`HandleOther`, or `SubmitLinks`, `SubmitReturns`, `SubmitRefused`), then
`Reply`; after the batch `Baseline` or `Snapshot`, then `Notify`, `Note` or `Defer`
for each task that is due, and `EndRound`. `Found` sees the tasks of AK BERMET only
(`telegram_bridge_v3.py:88`). A completed task whose publisher has written no log
has no text yet and is passed over until the next round (`Defer`; `Reportable`).
The pipeline takes the tasks to `completed` or `blocked`, may take a blocked one up
again (an event), and writes the log some time after the move or never
(`WriteLog`). `Crash` ends the process at any point; `ReplyFails` and
`NotifyFails` fail with the message sent or not. The first `Baseline` takes the
tasks that have ended into the file without telling anybody.

### `LifecycleEngine`

`run_lifecycle_shadow` calls three adapters in turn until the snapshot is approved
or failed. The state is that snapshot: `binding`, `state`, `budget`, `evidence`, with
`calls` and `ended` of the loop. One turn is one step, as nothing else touches the
snapshot: `Answer(e)` for any reply `e` is `Refuse` (not the stage, not the binding, a
replay), `Executed`, `Passed` or `Failed`; `GiveUp` is the bound on the calls. A
reply carries the stage, a binding (lifecycle, candidate, attempt), pass or
fail, a fingerprint, and a number that stands for its hash: equal to that of
earlier evidence or new. `NextBudget` and `ShouldRetry` are `decide_retry` with its
three comparisons. The initial budget is any that
`start_orchestration` accepts: fixes used before, a count of equal failures and a
last fingerprint (`Before` is what the counters may start from).

### `ShadowLifecycle`

The functions of Slice 1 are pure. The module wraps the machine around them for
which they are written: a task moves by `apply_transition` (`Move`, with any evidence
a caller may supply), an observer reports its snapshot late, without its
evidence or under another revision (`Observe`), the holder of the shadow calls
`reconcile` and follows its advance by `apply_transition` (`Follow`), and the
authority layer in force changes (`SetLayer`). `Edges` is the table of legal
transitions with the action and the evidence of each; `Allowed` is
`evaluate_transition`, `Reconcile` is `reconcile` with its order of early returns.
The callers (`Observe`, `SetLayer`) are external: the repository has tests for
them, no service yet.

### `StoreContract` and `LifecycleStore`

The store keeps seven tables and a sequence number. `LifecycleStore` has them in
`store`, the open transactions with their copies in `stack`, the owner of the lock in
`holder`, and the `clock`.
That the clock never goes back (`Tick`) is an assumption: the store takes any
injected clock and asks of it only a non-negative integer
(`universal_task_lifecycle_store.py:377-381`). `LeaseExclusive` rests on it, since
a lease that ran out and was taken over would be valid again before its time. `Enter` copies the tables, every method of a transaction is
an action on the copy (`CompareAndSwap`, `AcquireLease`, `RenewLease`,
`ReleaseLease`, `ClaimInboxEvent`, `AppendEntry`, `Acknowledge`), `Publish` and
`Rollback` are `__exit__`. An operation that raises poisons its transaction (`Do`):
the caller may catch the error and go on, but `__exit__` then publishes nothing.
The lock is re-entrant: `MaxDepth` is how deep a worker may nest.

Ledger, stage evidence and outbox have one form, `entries`; `TableOf` says which of
them an entry is in. `held` is what each worker believes it holds, and `effects` counts the actions
of inbox events whose transactions succeeded.

`StoreContract` is the store as its readers see it: one variable and one step,
which only extends the tables. A lifecycle keeps its identity, a version never
goes back; an entry keeps its content, and was made for a version that was
current; evidence is about the identity of its task; a claim or an
acknowledgement stays. The refinement mapping is the published tables.

## 3. What TLC checks

Every module has a type invariant `TypeOK`. The run `checkout` lists it for the
pipeline; for all modules it is proved (section 4).

Bounds on what goes wrong are called events (in the pipeline: faults, edits and
changes of `config.json`): a crash, a call that fails, a task that takes an unusual
way, an act of the owner. They keep the state space finite and, with fairness,
say that nothing goes wrong for ever. All runs together fire every action.

### The pipeline

| run | question | bounds |
|---|---|---|
| `checkout` | the KOL checkout under kills, owner and cap changes | 2 code tasks and an operations task, caps {0, 1}, defaults 1 and 2, 1 event: a fault, an edit or reset, or a change of the cap (3 397 460 states) |
| `night` | the maintenance checkout, its refinement and liveness | 2 code tasks with or without `Publication-Action`, cap 1, 1 event: a fault or a change of the profile, `FairSpec` (665 865 states) |
| `requeue` | does auto-repair wait for a new cap (it does not) | 1 code task, an unreadable `config.json`, defaults 3 and 5, no event |

Tasks are numbers because the runners take the first of the sorted file names, so
no symmetry is used.

- `CandidateIntact` (`checkout`): while a task waits for its audit, for a higher cap
  or for its commit, the checkout is on its branch and holds exactly the tree
  whose checks passed.
- `PublishedWasApproved` (`checkout`): every commit is the tree that passed the
  checks and that Stage 01C took as evidence before its PASS.
- `CompletedMeansCommitted` (`checkout`): completed code tasks have a commit of
  their own, and a commit exists only for approved or completed tasks.
- `ApprovedIsPublishable` (`checkout`, `night`): an approved task has both PASS logs;
  and one whose gate takes it or stops the cycle is the only one such, with the
  supervisor at its publisher. That holds because of the order of the children:
  the publisher runs last and first, and its refusal ends the cycle before the
  next audit. Such is every task of the KOL gate. Of the AI PROF gate it is a task
  with a `Publication-Action`, as long as nobody touched the profile (`Firm`): the
  gate answers the others with exit 0, and the next child then works in a checkout
  that holds an approved candidate.
- `LaunchBudget` (`checkout`): one launch per attempt; and while nobody changes
  `config.json`, no attempt beyond the higher of the two caps that audit and
  auto-repair compute. With cap 1 that is exact; with an unreadable file the caps
  are the two defaults, which differ.
- `OwnerEditSurvives` (`checkout`): an out-of-scope edit of the owner is neither
  rolled back nor committed.
- `ImplementsLock` (`night`): the pipeline implements `CheckoutLock`. The theorem is
  about both gates.
- `ApprovedCompletes` (`night`): an approved task that can be committed is completed,
  unless the owner works in the checkout or the gate never accepts it again.
- `Settles` (`night`): every task comes to rest, unless an approved task halts the
  loop (`Halted`): the gate refuses it in every cycle, declines it, or passes over
  it. In the last two cases the cycle goes on, but the night service leaves
  `stage_01a` out while a task is approved, so no other task is started. The
  property also excepts a fault and an unreadable `config.json`.
- `RequeueNeedsNewCap` (`requeue`, violated): `auto_repair_runner.py:6-7` says that
  the task was blocked "only because the configured review-cycle cap was
  increased". When `config.json` cannot be read, the audit takes its default of 3
  and auto-repair its own of 5: it requeues the task, nobody having changed
  anything. The theorem shows that this is the only way: it holds where the file
  can be read, or the two defaults are in the other order.

Two code tasks are needed for one to interfere with the other; a third would only
wait, since one child runs at a time and each child takes one task. The operations
task takes the slots between. One event puts a kill at every point of every
child, or an edit, a reset or a new cap between any two of its steps; two only
matter if the first leaves something behind for the second, and the theorems have
no such bound. A task with malformed publication fields is covered by the theorems
only: in `night` it would act as the profile that is refused does.

What the properties do not cover, as facts about the code:

- With two tasks on one `Work-Branch`, auto-repair restores the candidate of the
  other one. Nothing at intake makes the branch unique. All runs give every task a
  branch of its own, and the theorems name the assumption (`DistinctBranches`).
- An in-scope edit of the owner between audit and commit is committed: the commit
  takes what is dirty in the scope. `PublishedWasApproved` and `CandidateIntact` say
  nothing once the owner has edited.
- A cap that is lowered right after a requeue sends the task into an audit it
  cannot pass with another attempt: it is blocked again. `LaunchBudget` counts
  attempts only while the file is left alone.

### The publishers

| run | question | bounds |
|---|---|---|
| `publisher` | each of the three gates publishes two tasks | a task of an issue and one of Telegram, 2 advances of the base, 3 events, `FairSpec` (150 712 states) |

- `PublishedOnce`: one commit; one pull request at a time, and another only where the
  owner closed the one before; one result comment, one more for each event.
- `ProposesOwnCommit`: an open pull request proposes the task's own commit, unless
  somebody pushed to its branch or deleted it after the publisher compared the two
  (`touched`). `push_approved_branch` compares once; neither `create_pr` nor anything
  after it compares again, so a foreign commit that is pushed between the two is
  proposed and may be merged. A foreign branch that is there before the comparison
  is never proposed, through all retries: that is what the property checks.
- `CompletedMeansPublished`: a completed task is committed, and where there is a
  remote it had a pull request and its issue was told. The log is written after
  the move: a child killed in between leaves a completed task without a PASS log,
  and the bridge then has no link for it. Nothing repairs that.
- `CheckoutReleased`: the checkout is not left on the branch of a completed task.
- `Completes`: an approved task is completed, unless one of the reasons in `Halted`
  holds for good. The reasons are facts about the gates: the owner changed the
  issue, a base moved, the child of an earlier try got back to the base branch and
  no further (the KOL gates look only at the checked-out branch), somebody else
  has the branch, or the pull request was merged early.

Three events let a failure meet the retry of an earlier one and an act of the
owner; two tasks show that the second starts from what the first left.

### The campaigns

| run | question | bounds |
|---|---|---|
| `campaign` | order, progress, what is merged, and the end | 2 campaigns of 2 steps, 1 event, `FairSpec` (1 090 542 states) |
| `campaign_unmerged` | is every completed change merged (it is not) | 1 campaign of 2 steps, 1 event |

- `StepsInOrder`: a step has a task only when the step before is in completed and
  nowhere else; every step the state file counts as done is completed, its current
  task exists, and it says completed only after the last step.
- `ProgressKept`: no save undoes another process's save, none leaves a final state.
- `OnlyAudited`: a candidate reaches the integration branch only after its PASS.
- `UndisturbedMeansMerged`: as long as no event has occurred, a completed task whose
  audited tree had a change is in the integration branch, also where two campaigns
  share the checkout.
- `Finishes`: an undisturbed campaign ends, unless one of its tasks stops for good.

Two campaigns share the checkout and the integration branch; two steps are enough
for one to follow the other. `StepsInOrder` and `ProgressKept` were also checked
with 2 events, and with 1 campaign of 3 steps and 3 events, and are proved. The
clock is a choice: a deadline may pass at any moment after the start.

The scope of the properties is a fact about the code:

- `Finishes` fails for two campaigns: `start_campaign` creates the task before it
  saves the state file, so that a `tick_all` in between does not visit the
  campaign; if its candidate changes nothing, the next task is built on the clean
  checkout, the branch is switched, and "repository is not on the exact work
  branch" is the answer for ever after.
- The merge can be missed when the owner ticks one campaign while Stage 01B works on
  another's task, since the tick takes no lock on the checkout, and after a crash.
- `OnlyAudited` holds under any one event, but not under a tick of the owner and a
  merge conflict together: the other tick can then commit the half-done merge.

In `campaign_unmerged` the code and its documents disagree: when a tick ends between its commit and the checkout of the
integration branch, the next tick finds nothing to commit and completes the task
without the merge that `TASK_SCHEMA.md` says follows.

### The gateway and the intake

| run | question | bounds |
|---|---|---|
| `gateway` | issues become tasks, ends become comments | 1 issue of any form, 1 cancel, at most 2 tasks, 2 events, `FairSpec` (483 187 states) |
| `gateway_dedupe` | does an issue never get a second task (it does) | 1 issue, at most 2 tasks, 1 event |

- `OneTaskPerIssue`: an issue gets another task only when an event lost the record of
  the first and a file of it moved while a scan for the issue was listing the
  directories; its recovery runs once, and once more for each event.
- `CancelIsFinal`: a task whose cancellation was reported is in cancelled and only
  there; a failed one leaves nothing behind.
- `TruthfulLedger`: a recorded task exists, a state held as reported was posted, and,
  whichever single thing goes wrong, an issue the gateway rejects by itself has no
  task, unless files moved while it was looked for. A refusal of the intake is
  excepted: `atomic_create` can fail after its `os.link`, and the comment then says
  that no task was enqueued.
- `NeverLost`: a task in a queue is always in one; a record keeps its task.
- `Answered`: an open issue gets its record, and the end of its task is reported.
- `OneTaskEver` (`gateway_dedupe`, violated): `github_task_gateway.py:15-16` says that
  the gateway deduplicates "even after a crash between task creation and
  gateway-state persistence". One such crash, and a runner that moves the task
  from a directory not yet listed into one already listed, is enough for a second
  task.

`MaxTasks = 2` is enough to see a second task; one crash and one failure after it
are two events, and a move costs none. The issues share nothing but the loop and
the state file, so one is checked; the theorems are for any number of them.
`CancelIsFinal` and `NeverLost` were also checked with 2 cancel commands and 3
events.

### The Telegram bridge

| run | question | bounds |
|---|---|---|
| `telegram` | messages become tasks, ends become messages | 3 messages, 2 of them for tasks of any project, 2 events, `FairSpec` (190 009 states) |

- `OneTaskPerMessage`: no message creates two tasks.
- `LostOnlyByCrash`: the messages put behind without being handled are no more than
  the crashes; a reply that cannot be sent loses no other message of its batch.
- `ToldOnce`: a terminal state is told once, and once more at most for each event; a
  completion only of a task of AK BERMET with a publisher's log; and the file of
  notified tasks claims nothing the owner was not told, but for what its first
  writing took over. The docstring of version 3 says "exactly once"; a crash
  between the message and the file, or a lost acknowledgement, repeats it.
- `EndTold`: every message is put behind; and where a task of AK BERMET comes to rest,
  a completed one with its log, the file names that state in the end and the owner
  was told of it.

Not told, as facts about the code: tasks of other projects; a completed task whose
publisher was killed between the move and its log; and a second block of a task
that was taken up again and blocked before the bridge looked, since the file
already names the queue.

Three messages show a batch with one before and one after the message that fails;
two events show a crash during the recovery from another.

### The lifecycle engine

| run | question | bounds |
|---|---|---|
| `stages` | what is approved, and does the loop end | 2 lifecycles, 2 candidates, 4 attempts, 2 fingerprints, fix limits {0, 2}, repeat limits {0, 2, 3}, counters from {0, 1, 2} (32 448 states) |
| `shadow` | do transition and reconciliation agree | 2 revisions, 3 grants, 6 transitions |

- `BoundNeverReached`: the budget ends the loop, never the bound on the calls.
- `ApprovedWasChecked`: an approved snapshot was executed, tested and audited with
  exactly its binding, and nothing failed for it.
- `OneCandidatePerAttempt`: the evidence of an attempt is about one candidate, all of
  it about one lifecycle.
- `RepeatedFailureStops`: when a repair starts, no run of equal failures at the end of
  the evidence is as long as the limit. It is stated about the evidence, not about
  the counter of the budget that decides it.
- `AlwaysSupported`: no transition leads to a snapshot that the next call refuses.
- `AdvanceIsAllowed`: an advance that `reconcile` decides is a transition that
  `evaluate_transition` allows.
- `AdvanceMirrorsKeep`: where the shadow may advance to the observation, a holder of
  the observation keeps it, and conversely. The edge from review to pending_codex
  and the fix edge back are the exception: `reconcile` does not read versions, so
  an old observation in review that holds a failure takes a shadow back.

The adapters answer anything, also replays and evidence for another candidate. A
fix limit of 2 gives three rounds, so 4 attempts allow one that is skipped. The
repeat limits are below, at and above what the fix limit can reach, and the
counters of the first budget below, at and above both limits. In `shadow`, the
grants are everything autonomous, `terminate` for the owner only, and one without
`audit`; supplies are the evidence of one edge or none; no path needs more than
6 transitions without repeating an edge of the fix loop.

### The lifecycle store

| run | question | bounds |
|---|---|---|
| `store` | what readers, events and leases can rely on | 2 workers, 2 tasks, 3 transactions of 2 operations, 2 leases, 1 event with 2 actions, clock to 1, no nesting |

- `ImplementsContract`: the store implements `StoreContract`.
- `ClaimedOnce`: the action of an inbox event takes effect exactly when the event is
  recorded.
- `LeaseExclusive`: two workers never both hold a lease that has not run out.

Two workers and two operations show a transaction that reads what another
published, an error after a change, and a lease that is taken over. `MaxDepth = 1`
is how the store is used so far: its only callers are tests, which do not nest. With `MaxDepth = 2` the
contract fails: the outer transaction publishes the tables it copied before the
inner one committed, so what the inner one published is gone.

### Fairness

`FairSpec` of each module is weak fairness of one sequential loop as a whole: the
supervisor, the publisher's child in every cycle, the gateway, the bridge. systemd
restarts them (`Restart=on-failure` in `systemd/ai-prof-control-center.service` and
in the units of gateway and bridge), their loops have no end, and a child ends by
itself or by its timeout. A command of the owner that has begun (`Cancel`, the
owner's tick) runs to its end unless it is killed. No fairness is assumed of an
outcome: the model may fail every time, the audit may reject every time, an issue
may stay open. Nothing is assumed of the owner, of GitHub or of others. Crashes
and failures are bounded by events, so none of them happens for ever.

## 4. What is proved

For every value of the constants, with TLAPS; the bounds are constants, so crashes,
failures and edits are unbounded in the theorems. Where a property holds only
under one event (or none), the theorem says so of the state: for any bound, it
holds in every state that one event at most has led to. That is the meaning of
"one event" in the last column; it is a hypothesis on the behaviour so far, not
on a constant.

| module | theorem | property | assumption |
|---|---|---|---|
| `TaskPipelineProofs` | `TypeCorrect` | `TypeOK` | |
| | `CompletedCommitted` | `CompletedMeansCommitted` | |
| | `ApprovedPublishable` | `ApprovedIsPublishable` | |
| | `LaunchesBounded` | `LaunchBudget` | |
| | `OwnerEditsSurvive` | `OwnerEditSurvives` | |
| | `RequeuesFollowNewCap` | `RequeueNeedsNewCap` | `0 \notin Caps` or `DefaultRepair <= DefaultReview` |
| | `CandidateStaysIntact` | `CandidateIntact` | `DistinctBranches` |
| | `CommitWasApproved` | `PublishedWasApproved` | `DistinctBranches` |
| | `NobodyStealsCandidate` | `NoStolenCandidate` | `DistinctBranches` |
| | `PipelineImplementsLock` | `ImplementsLock` | `DistinctBranches`, `MaxEdits = 0` |
| `TaskPublisherProofs` | `PublishesOnce` | `PublishedOnce` | |
| | `OwnCommitProposed` | `ProposesOwnCommit` | |
| | `CompletedWasPublished` | `CompletedMeansPublished` | |
| | `CheckoutIsReleased` | `CheckoutReleased` | |
| `CampaignProofs` | `StepsStayInOrder` | `StepsInOrder` | |
| | `ProgressIsKept` | `ProgressKept` | |
| | `OneEventMergesAudited` | `OnlyAudited` | one event |
| | `UndisturbedMerges` | `UndisturbedMeansMerged` | (no event, in the property) |
| `TaskGatewayProofs` | `CancelsAreFinal` | `CancelIsFinal` | |
| | `NothingIsLost` | `NeverLost` | |
| | `IssuesHaveOneTask` | `OneTaskPerIssue` | |
| | `LedgerIsTrue` | `TruthfulLedger` | (one event, in the property) |
| | `RecoveriesAreBounded` | second half of `OneTaskPerIssue` | |
| | `RecordsAreTrue` | first half of `TruthfulLedger` | |
| `TelegramBridgeProofs` | `MessagesActOnce` | `OneTaskPerMessage` | |
| | `CrashesLoseOne` | `LostOnlyByCrash` | |
| | `OwnerToldOnce` | `ToldOnce` | |
| `LifecycleEngineProofs` | `BudgetEndsLoop` | `BoundNeverReached` | |
| | `ApprovedIsChecked` | `ApprovedWasChecked` | |
| | `AttemptsHaveOneCandidate` | `OneCandidatePerAttempt` | |
| | `RepeatedFailuresStop` | `RepeatedFailureStops` | |
| `ShadowLifecycleProofs` | `SnapshotsSupported` | `AlwaysSupported` | |
| | `AdvancesAreAllowed` | `AdvanceIsAllowed` | |
| | `AdvanceIsKeepReversed` | `AdvanceMirrorsKeep` | |
| `LifecycleStoreProofs` | `EventsActOnce` | `ClaimedOnce` | `MaxDepth <= 1` |
| | `LeasesExclusive` | `LeaseExclusive` | `MaxDepth <= 1` |
| | `StoreImplementsContract` | `ImplementsContract` | `MaxDepth <= 1` |

Every other module of the table has a theorem `TypeCorrect` of its own.
`DistinctBranches` says that two tasks never have the same work branch;
`0 \notin Caps` that `config.json` can always be read. Without the assumption of
`RequeuesFollowNewCap` its property is false, as the run `requeue` shows.

The arguments, module by module. In each, an invariant is not inductive as it
stands; `IInv` (in the pipeline, the invariants named below) is.

**Pipeline.** `ProcInv` ties the running child to the queue of its task (the task a
child works on is in `active`, or in `approved` for a publisher, in `failed` for a
repair). `CommitInv`, `ExceededInv`, `ApprovedInv`, `BudgetInv` and `LimitInv` are the
strengthenings of the invariants about queues, logs and counters: for instance
`ApprovedIsPublishable` needs to know at which slots of the cycle a task with a
firm gate can be approved at all, and that the publisher never works on a task
without `Publication-Action`. `LimitInv` keeps a task blocked at the cap of the audit
while `config.json` is left alone; a repair whose cap is not higher then refuses it. The checkout needs more. `GitInv` is the conjunction of
`TreeInv` (a dirty tree carries the name of a task and sits on that task's
branch, unless an apply is under way), `PhaseInv` (what the running child has
established about the checkout so far and may rely on), `TrustInv` (every task
that trusts the checkout is the one named in it: this is where two tasks cannot
both trust it, because branches are distinct) and `ApprovalInv` (a PASS log
stands for the tree in the history variables). None of the four is inductive
without the others.

**Refinement of the lock.** The same invariant. A step changes the stage of at most
the task its child works on (`OtherStage`); for that task one lemma per phase of the
pipeline says which stages it can be in before and after (`OpenStays`,
`CheckStage`, `AuditStage`, `PublishStage`), and one per abstract action that the
checkout agrees (`LockImplement`, `LockCheck`, `LockAudit`, `LockPublish`).

**Publisher.** What the child may rely on at each of its calls, whoever made the
calls before: it has a commit (`Publishing`), the branch on the remote is its
commit unless somebody touched it since the comparison (`Pushed`), there was a pull request
(`Proposed`), the issue was told (`Told`), the checkout is given back (`GivenBack`).
`CommentsPaid` counts: the child that has commented, or the completed task,
accounts for one comment, every other was paid for with an event.

**Campaign.** The flock keeps two holders apart (`LocksApart`). `InHand` is what a holder
knows: the file of its campaign is not final and not ahead of its copy, what its
copy counts as done is done in the queues, the current task has a file, and
between link and unlink it has exactly two. Steps that never take a file out of
its last queue nor touch a completed task (`Forward`), and create a task only in its
turn (`InTurn`), keep the order; every step of every process is shown to be such.
`ProgressKept` then follows, as only `Save` writes a file.

What reaches the integration branch needs the checkout, and a second group of
invariants on top of the first. `World` holds whatever goes wrong: Stage 01B is at
work only between the cycles (`BuildingApart`), Stage 01C audits a task once
(`AuditedOnce`), the lock of the campaign keeps the approved task where its tick
found it (`ReadyInHand`). `OneEvent` holds as long as one event at most has
occurred: the candidate sits on its own branch, or was carried to the integration
branch by that event and no tick of the owner is where it could commit it
(`Checkouts`); the supervisor's tick commits what was audited (`SupervisorTick`); what
was not audited is at most in the history of its own branch, put there by the
owner's tick, which then merges another one (`Histories`). The three go together:
a merge takes over a history, which must have been right. `Calm` is the same
account step by step where nothing has gone wrong: an approved change stays in
the checkout until a tick has committed it, and that tick merges it before it
moves the task.

**Gateway.** `QueueInv`: a task has one file in the directories of the pipeline and
beside it at most the copy of a cancel command; the tasks of an issue come one
after another. `CancelInv`: a cancel command between link and unlink finds both
its copy and another file, no two commands are at one task there, and a copy
beside another file has a command that made it. This is why `os.link`, which refuses
an existing name, makes a reported cancellation final. `LedgerInv` keeps the file
and the copy in memory in agreement, `RunsInv` pays for every unrecorded run of the
recovery script with an event. `DedupeInv` is what the scan
is worth, for any number of events: a task that is neither recorded nor just
created was lost by an event (`LostInv`); a scan misses no file of a task that has
not moved since it began (`ScanInv`), so that what it submits has no other task
unless one moved (`Slipped`); hence two tasks of an issue need both (`OneInv`). With
one event at most, `SingleInv` holds as well: a lost task used up the event, so its
issue was not edited (`EditInv`); until the event, every task is of an issue that
asks for one (`CalmInv`); hence no rejection of an issue with a task (`RejectInv`).

**Telegram bridge.** `Offsets`: the offset file lags behind the one in memory only
between the two steps of the checkpoint, or after a crash there. `Uncreated`: what
is still to be handled has created nothing. `ToldPaid` is an account: the file of
notified tasks, or the step about to write it, accounts for one message, each of
the others for an event. `Lost`: the unhandled messages below the file are no more
than the crashes; the step that may add one is the crash.

**Lifecycle engine.** `CallsPaid`: each repair is worth three calls. `AboutBinding`: no
evidence is ahead of the binding, that of its attempt is about its candidate.
`OnTheWay`: what was passed on the way to the state, and that nothing failed for
the binding. `BudgetRemembers`: the budget holds the latest failure, and its counter
is at least the length of any run of that failure at the end of the evidence. A
failure of another kind resets the counter to one and ends every such run but its
own, so the counter is never short of what the evidence shows.

**Shadow lifecycle.** The table of transitions is finite, and is looked at edge by
edge: the evidence an edge needs completes that of the state it leaves
(`EdgesComplete`), only review and pending_codex are one edge ahead of each other
(`EdgesOneWay`). The agreement of the two sets of rules then holds for any two
supported snapshots.

**Lifecycle store.** `Consistent`: the private tables of the open transaction extend the
published ones and agree with what it has claimed and leased. The invariant
fails with nested transactions at exactly that point, hence `MaxDepth <= 1`. The
refinement is that `Publish` replaces the tables by such an extension.

Every invariant and every action property of the passing runs is stated by one of
these theorems. Each strengthening was checked by TLC on an instance before it
was proved.

Only model-checked: liveness (`Settles`, `ApprovedCompletes`, `Completes`, `Finishes`,
`Answered`, `EndTold`), which needs fairness and is out of the prover's reach.
`CompletedMeansMerged`, without "no event", and `OneTaskEver` are false and stay the
runs `campaign_unmerged` and `gateway_dedupe`; `RequeueNeedsNewCap` is false
without its assumption (`requeue`).

## 5. Plan

1. `TaskPipeline`, `MCTaskPipeline`, `TaskPipelineProofs`: done.
2. `CheckoutLock`, `TaskPipelineLock`, and the refinement in `TaskPipelineProofs`: done.
3. The publishers call by call, for all three gates: done (`TaskPublisher`).
4. The rules of `universal_task_lifecycle.py`: done (`ShadowLifecycle`,
   `LifecycleEngine`).
5. The store: done (`LifecycleStore`, `StoreContract`).
6. The campaigns: done (`Campaign`), with order, progress and merges proved.
7. Gateway and intake, with link and unlink against the moves of the runners: done
   (`TaskGateway`).
8. The Telegram bridge: done (`TelegramBridge`).

Worth doing next: the KOL isolation latch of the supervisor; a contract for the
gateway and one for the campaigns, as `StoreContract` is one for the store, and
their refinement; what still holds of the integration branch after two events,
when the owner does not tick.

## 6. Not modelled

- Of the supervisor: the heartbeat, the start of the Telegram child, and the latch
  that isolates KOL V4 tasks, which only shortens the command list further. Its
  stop and pause markers are there as the end of a cycle (`CycleBreak`).
- What an operation profile does: each is a fixed procedure on a project outside
  this repository. Claim and outcome are modelled.
- The passive watcher thread of version 2 of the bridge, which version 3 replaces in
  the running service; the read-only commands of the owner, which are one answer.
- Pages of issues beyond the first hundred.
- Release flow, the one-off project operations and the retry scripts
  (`release_flow.py`, `ak_bermet_*.py`, `retry_kol_v4_*.py`): fixed sequences run
  once by an operator; they keep no state between runs that another part reads.
- Installation and maintenance scripts, and the units of systemd, which are
  configuration; `Restart=` is where the fairness comes from.
- Argument vectors, the sandbox's mounts, prompts, redaction, the text of logs and
  comments, the grammar of task files and issues: data that no property tells
  apart. A validation is a choice between accepted and refused.
