# TLA+ models of deonclaw

deonclaw is a Go program, `deonctl`, that runs coding agents under control.  It keeps agents,
work items, leases, budgets, schedules and wakeups in one SQLite file, and everything that
has to be approved (changes of memory files, MCP tool calls, the release of a retrieval
context to a provider) in JSON artifacts that refer to each other by hash.  The modules in
this directory model both, check them with TLC and prove part of them with TLAPS.  Source
paths are relative to `src/internal/` unless they begin with `cmd/` or `docs/`.

1. [How the system runs](#how-the-system-runs)
2. [Inventory](#inventory)
3. [The modules](#the-modules)
4. [Runs: what is checked and what it shows](#runs)
5. [Bounds, symmetry and fairness](#bounds-symmetry-and-fairness)
6. [Proofs](#proofs)
7. [Where the code and its documents disagree](#where-the-code-and-its-documents-disagree)
8. [What is not modelled](#what-is-not-modelled)
9. [Plan](#plan)

## How the system runs

There is no server.  Every `deonctl` command is an operating-system process of its own that
opens the store or reads its files, does its work and exits.  Several run at once: workers,
an operator, and cron jobs that call `work recover`, `daemon run-once` and `daemon doctor`.
This decides what a step is:

* A store method that opens a transaction (`BeginTx` ... `Commit`) is **one action**, and so
  is one with a single statement.
* A command that reads a row in one call and saves it in another is **several actions**, and
  keeps a copy in between.  `SaveAgent`, `SaveWorkItem`, `SaveLease`, `SaveWakeup` and
  `SaveSchedule` upsert the whole row and look at nothing: a copy that has grown old
  overwrites what others did meanwhile.
* A file is read, hashed, written or renamed in an action of its own wherever the time
  between two of these decides something.  `os.WriteFile` truncates and then fills: a process
  killed in it leaves half a file under the right name.
* Between two steps a process may die, and any store or file operation may fail.

In the store, what protects the data is the transactions, the partial unique index on active
leases, the primary keys of event rows, and the `WHERE` clauses of a few updates.  Among the
files it is the comparisons of hashes and the status each artifact carries.  The models keep
exactly these.

## Inventory

| Component | State | Operations | What is hard | What makes it correct |
|---|---|---|---|---|
| Work queue and leases (`workqueue`, `store/workqueue_sqlite.go`, `cmd/deonctl/work_handlers.go`) | status and attempts of work items, leases with an expiry, event rows | claim, claim next, renew, release, recover | claims race; leases expire under a live holder; recovery races renewal; event keys clash | one active lease per item; status and leases agree; attempts and caps are kept; a lost holder's item comes back |
| Agents, inbox (`agents`, `store/agents*_sqlite.go`, `cmd/deonctl/agents_handlers.go`) | agent status, inbox status | assign, accept, defer, pause, resume, terminate, sync | read-then-save commands overlap | items enter the queue once, only accepted ones are claimed |
| Budgets (`budget`, `store/budget_sqlite.go`) | policy, window counters, reservations, usage events | sync, reserve, commit with usage, release, `on_exhausted` | stale preflights; repeated commits; a month that turns; limits that change | counters are the sums of the reservations; the hard limit holds; a run is charged once |
| Dispatch (`dispatch`, `cmd/deonctl/dispatch_handlers.go`) | what a process has read; the run row | `work dispatch-once` | twelve ordered store calls, an error path from each; crashes; two dispatches of one item | no worker without lease and reservation; no item done twice; nothing held at the end |
| Proactive runtime (`schedule`, `wakeup`, `daemon`, `store/proactive_sqlite.go`, `store/schedule_work_sqlite.go`) | schedules, wakeups, work made from wakeups | `daemon run-once`, `daemon doctor`, `schedules sync` | stale lists; death between claim and work; early returns | once per due window; work exactly for enqueued wakeups; queued wakeups are served unless a webhook schedule blocks all runs |
| Memory (`memory`) | memory files, backups, approvals, plans, results | lint, preflight, approve, back up, apply, restore | many files staged and renamed, any rename may fail; edits at any time | only approved text is applied; what it replaces can be had back; reports are true |
| Retrieval-context gates (`retrievalcontext`, `cmd/deonctl/codex_*_handlers.go`) | some eighty artifacts and rendered texts | 75 commands, each a gate for the next | inputs made again after their hash was recorded; failed, half-written and stale artifacts; a chain too strict to pass | a ready artifact stands for one text, agrees with what it records, rests on no failure, and the chain can be finished |
| MCP session (`mcpsmoke`) | the exchange with a server process: pipes, process, deadline | smoke, discover, tool smoke, call | servers that keep silent, crash, write unasked, leave children | answers are what they are taken for; the command ends |
| MCP approval (`mcpapproval`, MCP handlers of `cmd/deonctl/main.go`) | proposal, approval and bundle files; policy, registry, runtime config | propose, approve, execute | files are read, judged, read again for hashing, and edited meanwhile | a call stays within its approval; the bundle says what happened |
| Runner (`runner`, `runtime`, `git`, `policy`, `runs`) | worktree, run row | run a task with codex or opencode | a kill or an error between any two of its steps | forbidden changes never succeed; unfinished work is kept |
| Artifacts and MCP queue (`artifacts`, `mcpproposalqueue`) | files and rows of a run | save, prune, list, show | rows saved one by one; prunes that break off | rows and files agree; ready means preflighted |
| Skills (`skills`) | registry, installed versions, current link, grants | install, approve, enable, disable | registry and file system are two stores | what is enabled is installed and approved |
| Insights (`insights`) | evidence, reports, proposals, approvals | evidence to effectiveness | approvals of content that changes later | nothing is applied but as approved |
| Memory index, policies (`memoryindex`, `embeddingpolicy`, `lancedbpolicy`) | reports | validation | - | pure functions of files |

How they interact.  A schedule's wakeup, once claimed by `daemon run-once`, materializes a
work item (`MaterializeWorkFromWakeup`); `agents assign` makes one by hand.  The item waits
in its agent's inbox or is auto-accepted, is claimed under a lease and dispatched:
`dispatch-once` claims (or takes `--lease`), asks the budget, reserves, starts the run,
executes, commits the cost, saves the item and releases the lease.  A budget that is used up
pauses the agent.  A run leaves artifacts, among them an MCP proposal that the queue lists,
exports and an operator approves and executes.  Memory proposals and the retrieval context
go through chains of files of their own.  There are no messages or callbacks: all of it meets
in the rows of one store and in files.

`PROJECT.json` lists every component with its status, and the hazards, each at its line.

## The modules

| Module | Models | Composes |
|---|---|---|
| `WorkQueue` | queue, leases, inbox, agent lifecycle | - |
| `Sums` | the total of a table of amounts, as a number of coins | - |
| `BudgetLedger` | abstract: holds, spending, limit; no counters | extends `Sums` |
| `Budget` | windows, reservations, usage, `on_exhausted` | refines `BudgetLedger` |
| `Dispatch` | the dispatch process, step by step | extends `WorkQueue`, instantiates `Budget` as `B` |
| `Proactive` | schedules, wakeups, `run-once`, `doctor`, `sync` | - |
| `MemoryApply` | memory proposals from approval to restore | - |
| `ArtifactChain` | how gate commands run over files, for any table of stages | - |
| `StageTables`, `Commands` | vocabulary of the tables; the commands' options | - |
| `ContextStages`, `ProviderStages`, `ActivationStages` | the 75 stages, in three parts of the pipeline | each extends the one before |
| `McpSession` | one command and one MCP server, line by line | - |
| `McpApproval` | the files and commands around a call | extends `McpSession` |
| `Runner` | a run, its artifacts, prune, the queue's status | - |
| `MC*` | constants for TLC | |
| `*Proofs` | theorems and their proofs | |

Operators named in a comment "Mutant: ..." or "Mutation: ..." are not part of a
specification.  Each is a plausible bug in one definition; put in the definition's place it
must break a property.

### WorkQueue

`item`, `inbox`, `lease`, `agent` are the rows of `work_items`, `agent_inbox`,
`execution_leases`, `agents`; `events` holds only those primary keys of `work_queue_events`
that can clash (accepted, renewed, released, recovered); `commands` holds what a
read-then-save command is about to save.  Time is relative: `lease[l].left` is the time to
expiry, counted down by `Tick`, and a command's time stamp, read before its transaction
begins, lags by at most `MaxLag`.

| Action | Code |
|---|---|
| `AssignRead`, `AssignSave` | `runAgentsAssign`, `AssignWorkItemWithSnapshot` |
| `MaterializeWork` | `MaterializeWorkFromWakeup`, as far as the queue sees it |
| `AcceptInboxAndQueueWork`, `DeferRead`, `DeferSave` | inbox commands |
| `AgentRead`, `AgentSave`, `CommandLost` | `agents sync`, pause, resume, terminate |
| `Claim`, `ClaimNext` | `ClaimWorkItem` with and without an item |
| `RenewLease`, `ReleaseLease`, `RecoverWorkQueue` | the store methods of these names |

### BudgetLedger and Budget

The ledger says what a budget promises: a run holds money within the limit of a window, and
its hold ends once, as spent or as returned.  It has no counters and no preflight.  `Budget`
is the code: `ReserveBudget` is three store calls (policy, window, transaction) with their
copies in `call`; the transaction checks the limit again in its `WHERE` clause.  A commit is
one transaction with the usage event; applying `on_exhausted` is a read and a save after it,
which a crash may cut off (`ExhaustedLost`).  `NextMonth` and `SyncBudgetPolicies` change the
present under open reservations.  The refinement mapping takes a window's hard limit for the
ledger's limit, and a reservation's status and amounts for the run's entry.

What a window should have counted is the `Total` of a table with an entry for each run: the
number of pairs of a run and one of its coins.  A total of this form changes with one entry
as a cardinality does, and can be reasoned about without induction over the set of runs.

### Dispatch

A dispatch is a process with a list of steps still to take (`todo`) and the copies it has
read: the item's status and attempt, the lease and what was left of it.  An error replaces
the list by that of `failDispatch` or of the `budget_blocked` return; an ignored error is a
step that changes nothing.  The budget's transactions are those of `Budget` (`B!ReserveTx`,
`B!CommitTx`, `B!ReleaseTx`), the claim and the release those of `WorkQueue`.  Two next-state
relations:

* `DispatchNext`: dispatches among everybody else's claims, renewals, releases, recoveries
  and the passing of time, with `--lease` if `GiveLease`, with failing store calls and
  crashes if `Faulty`;
* `AloneNext`: dispatches among themselves and the scheduler.

The strong properties (no worker without lease and reservation, no item done twice) are
stated for the second only.  They do not hold for the first: a lease may be lost and claimed
by another while its worker still runs, and nothing stops that worker.

### Proactive

`run-once` is one action per store call: list the schedules, list the wakeups, save each new
one, claim, read the agent, mark it running, beat or make the work item, save, advance the
schedule.  `daemon[d]` holds the schedules as listed and the wakeup as claimed.  A wakeup is
identified by its schedule and due time, from which both its id and its idempotency key are
computed.  Time is a clock of ticks; a cron schedule is due at the multiples of its period.
The doctor keeps the list of rows it will save as lost.  `Overlap` says whether a command may
start while another is under way.

Not kept: `heartbeat_state` and `daemon_state` (written, never read back by a decision), hook
plans (dry runs), attempts of a wakeup (counted, never read), a `next_due_at` written by hand into
the configuration file.

A schedule of kind `webhook` (or `hook`, which the code treats alike) is valid and can be synced as
active, but no due time can be computed for it: `run-once` stops there with an error
(`ScheduleFails`), after it has saved the wakeups of the schedules before it and before it claims
any.  `Undue` is the set of such schedules at a moment, `Broken(d)` as a process has listed them.

### MemoryApply

The variables are the files the commands exchange (proposal, policy, approval, backup plan,
backup result, restore preview), the memory files, the backup copies and the command under
way.  A command that reads and writes one artifact is one action (`Approve`,
`BuildBackupPlan`, `BuildRestorePreview`); those that change many files go item by item:
`MaterializeStart`, `CopyItem`, `MaterializeDone`; `ApplyStart`, `StageApply` (the temporary
files), `ValidateTargets` (the hashes are compared once more), `RenameItem`, `ApplyDone`;
`RestoreStart`, `RestoreItem`, `RestoreDone`.  Each has its failures, `Dies` ends any of them
anywhere, and `EditFile`, `TakeBack`, `DamageBackup`, `EditProposal`, `EditPolicy` are
everybody else.  A content is a sequence of pieces and is its own hash.  `granted`, `undo`,
`late`, `misread`, `harmed` are history: what was approved, what an apply started from, and
which files somebody changed where the code cannot see it.

`misread` is there because an append reads its target when it is staged
(`prepareApplyActionTemp`, `memory/apply_execute.go:548`) and `validateStagedApplyTarget`
(`:764`) compares only the hash the target has then: an edit made before the first and taken
back before the second (`TakeBack`) stays in the temporary file, and the apply writes it and
reports success.  `ReportIsTrue` therefore leaves out the targets that were read so.

Two things the code does not do are therefore not in the model either: a path allowed by
`allowed_global_bridge` passes the lint before "protected" is looked at, and the policy's
`append_only` and `controlled` lists restrict nothing.

### ArtifactChain and the stages

Seventy-five commands of the retrieval-context pipeline have one shape: read artifacts, test
their flags, compare pairs of recorded hashes, write an artifact with the hashes for the
next.  `ArtifactChain` is that shape, with what happens to the files between two commands
(`Rerun`, `Kill`, `Remake`, `EditText`), for any table `Stage`.  The tables are the code:

| Table | Code | From - to |
|---|---|---|
| `ContextStages` (`ContextChain`, `PayloadChain`) | `retrievalcontext/materialize.go` to `materialized_provider_payload_report.go`, `provider_call_approval.go` | retrieved chunks - approved payload |
| `ProviderStages` (`ExecutorChain`) | `provider_call_execution_bundle.go`, `provider_call_executor*.go`, `provider_call_chain_continuity_audit.go`, `provider_transport_plan.go`, `provider_executor_release.go` | payload - release gate |
| `ActivationStages` (`ActivationChain`) | `provider_request_envelope.go`, `provider_execution_simulation.go`, `provider_activation_*.go`, `provider_real_*.go` and the like | release gate - preimplementation gate |

A stage is a record: `reads` (the files it loads, from the options in `Commands`), `parses`
(those it also decodes), `ready` (whose flags it tests), `agree` (the pairs of hashes it
compares), `keeps` (what it records, as loaded or copied from another artifact), `writes` and
`from` (a text it renders), `timed` (the artifact carries a time, so making it again gives
another hash), `onFailure` and `vital` (whether a failed stage writes an artifact that says
so, or nothing).  A hash is the number of a version: equal if and only if the contents are.

The tables show where the stages differ in care.  Three lists in `MCGates` name, pair by pair,
what no property could ask of them:

* `Uncompared`: a stage records an artifact whose own records it does not compare with the
  rest of what it records, neither itself nor through what it requires.  These are the
  executor's preflight on four of its inputs, what copies from it, the bundle of the governance
  and of the execution on one each, and most of the activation stages on some.  Enough stray
  reruns make such a ready artifact refer to two states of one file.
* `TextsUncompared`: those among them that do not even agree on the rendered texts: what the
  executor's preflight and its heirs record of the call's approval and of the report on the dry
  run, and the activation stages.  The execution bundle, for one, may record a payload made
  with an older dispatch config, but not one made from another context.
* `Unopened`: the reports recorded by hash whose result no later stage reads.

`Uncompared` is everything that the comparisons in the tables leave open; the proofs show that
they settle the rest.  Further:

* A stage whose command exits without writing leaves the ready artifact of an earlier run.
* The dry run embeds the preview without checking its hash; the executor's dry run skips the
  payload file; the execution bundle may record a dispatch config newer than its payload.
* The final audit does not test the release package's status, and it and the CI report take
  six options whose files they never open; the operator's review report takes the release
  gate's path in the same way.
* Nine report commands print nothing when they fail.

### McpSession and McpApproval

`McpSession` is one command talking to one server over two pipes: `Send`, `Receive`,
`SayExit`, `Reap` on the command's side; `FakeServes` is `RunFakeServer`; `RealServes`,
`RealNotifies`, `RealEnds`, `ChildEnds` let another server answer wrongly, keep silent, write
lines nobody asked for, crash, or leave a child behind that holds its output (`held`).
`Expire` and `KillServer` are the deadline.

`McpApproval` puts commands around it.  `cmd` holds what the running command has loaded and
hashed.  `execute` reads proposal, registry, policy, runtime config and approval
(`LoadSetting`, `LoadRecord`), judges them (`Decide`), hashes three files again and compares
(`CompareWithApproval`), talks (`PlanCall`, `Talk`, `Hear`), writes its artifacts
(`WriteCallArtifacts`), hashes a third time (`HashForBundle`) and writes the bundle
(`WriteOutput`).  `Edit` changes a setting, `Export` replaces the proposal, `Kill` ends a
command anywhere and may leave half a file.  The smoke commands share the session.

What the approval binds: id, arguments, policy, and the registry's and runtime config's
hashes (the proposal's, or hashed at approval if it has none); not the server, tool or
runtime, and not the number of uses.  Answers are matched by order, not by id: a line nobody
asked for shifts all that follow.  A deadline that passes outranks an answer that was good.
When an artifact cannot be written the status stays `succeeded` and the exit status is 1; the
bundle is written for refused and failed calls too, but not if a settings file has vanished.

To keep the state space small: settings are not edited *during* an exchange (nothing reads
them then), smoke commands come first, exports happen between commands (a command reads the
proposal once), and a command that has ended forgets its memory.

### Runner

A run is a process with a program counter: `Begin`, `Baseline` (the workspace is clean),
`Prepare` (a worktree), `Record` (the row), `Work`, `CheckMCPToolProposal`, `Validate`,
`CaptureDiff`, `Snapshot` (and the path policy), `Finish` (the worktree of a succeeded run is
removed), `SaveFinal`, `CheckMemoryProposal`, `WriteArtifacts`, and `SaveArtifact` for one row
after the other.  Each may meet an error, and `Kill` ends a run anywhere.  What the worker
does to the tree is a set of changes, each as git shows it: tracked, untracked, or `unseen` (a
commit, an ignored file, a file within a new directory).  `PruneStart`, `PruneRemove`,
`PruneDelete`, `PruneBreaks` are `artifacts prune`; `ProposalStatus` and `ReadyForApproval`
derive what the MCP queue shows from the rows and files that are left.

Consequences that are in the model as they are in the code: a store error after `Prepare`
leaves a worktree with no row (`runner/codex.go:238`); when the snapshot fails the policy is
decided on the diff, which knows tracked files only; `unseen` changes reach neither policy nor
diff; nothing sets `keep`; the worker has no timeout.

## Runs

| Run | Specification and instance | Asks | Distinct states |
|---|---|---|---|
| `queue_safety` | `QueueFairSpec`: 1 agent running one item at a time, 2 items (one assigned, two attempts; one auto-accepted, no limit), 3 leases | `QueueTypeOK`, `LeaseExclusive`, `LeasedIffHeld`, `AttemptsAccounted`, `RunCap`, `LeaseEnds` | 708,864 |
| `budget_safety` | `BudgetSpec`: 3 runs, 2 months, limits 3 and 4, estimate 2, costs 0 and 3 | `BudgetTypeOK`, `WindowAccounts`, `HardLimitHolds`, `ChargedOnce`, `ImplementsLedger` | 119,182 |
| `dispatch_races` | `DispatchSpec`: 2 dispatches of 1 item, 2 leases, faults, `--lease` | `DispatchAccounts` | 1,540,335 |
| `dispatch_alone` | `AloneSpec`: 3 dispatches, 3 items, 4 leases, a cap of two, money for two | `WorkerIsCovered`, `DoneOnce`, `NothingHeld` | 201,476 |
| `proactive_overlap` | `ProactiveSpec`: 2 run-once processes, doctor, syncs; an interval and a webhook schedule | `EnqueuedHasWork` | 1,776,891 |
| `proactive_alone` | `ProactiveFairSpec`: one command at a time, 2 faults; a heartbeat, a one-shot and a webhook schedule | `ProactiveTypeOK`, `WorkIffEnqueued`, `OncePerWindow`, `QueuedIsServed` | 172,655 |
| `memory_apply` | `MemorySpec`: 3 files, 3 proposals, 2 policies, 2 approvals, 1 edit, 2 faults | `MemoryTypeOK`, `ApprovedOnly`, `NeverLost`, `RestoreUndoesApply`, `ReportIsTrue`, `NoBlindOverwrite` | 1,112,054 |
| `append_lost` | the same, one proposal of two appends to a file | `SucceededAsApproved` | violated |
| `gate_chain` | `FairSpec`: all 75 stages, 1 disturbance | `Coherent`, `VouchesForReady`, `Completes` | 36,848 |
| `release_gates` | `Spec`: governance bundle to release gate, 2 disturbances | `SameContent` | 487,023 |
| `mcp_calls` | `FairSpec`: 2 proposals, 2 commands, 1 smoke command, 1 edit, 1 kill, 1 line unasked | `McpTypeOK`, `RecordedAnswer`, `CallWithinApproval`, `BundleTruth`, `CommandEnds` | 2,105,470 |
| `run_artifacts` | `Spec`: 1 run of any task and result, 2 faults, 2 prunes, 1 edit | `RunnerTypeOK`, `PolicyHolds`, `WorkKept`, `RowsMatchFiles`, `ReadyMeansPreflighted` | 592,565 |

What the passing runs show together.  The transactions and the unique index carry queue and
budget through every interleaving of the instances, and the accounts stay exact even when
dispatches race, fail and die.  A dispatch that nobody disturbs never executes without its
lease and money and gives both back on every path that a refusal or the worker's result can take;
where a store call fails or a process dies, only the accounts (`DispatchAccounts`) are claimed.
The wakeup-to-work step cannot promise work that does not exist.  A queued wakeup is served, once
no active webhook schedule stops every run before the claim.  Memory changes only as approved, what an apply replaces can be had
back whatever stopped half way, and its report is true.  But for the pairs named
(`Uncompared`, `TextsUncompared`, `Unopened`), a ready gate artifact stands for one text, agrees
with what it records and rests on nothing that failed, though no stage compares more than a few hashes.  An
MCP call stays within its approval but for an edit in the moment between load and comparison,
which the property names.  A run that changed what it may not never succeeds, as far as git
showed the change.

What they do not show is said by the exceptions written into the properties (`late`,
`harmed`, `Loose`, `Mixed`, `Unread`, `edited`, `unseen`, `held`): each names a window or a gap the
code has.

## Bounds, symmetry and fairness

* **Leases** bound the number of claims.  Three let an item with two attempts be claimed,
  lost, claimed and dead-lettered while the other item is held.
* **TTL = 2, MaxLag = 1** is the least at which a renewal stamped late, a recovery and an
  expiry are three different moments; `left` is not counted below `Floor`, where every stamp
  finds the lease expired.
* **Budget amounts**: limits 3 and 4 with estimate 2 let one or two reservations fit; a cost
  of 3 goes over its estimate and meets the limit 3 exactly, a cost of 0 gives money back.
  Two months are one roll-over; a third repeats it.
* **Dispatches**: two for every race on an item, three where an agent's cap of two and a
  budget for two have to refuse the third.  In `dispatch_races` an item has one attempt.
* **Clock of `Proactive`**: `MaxTime` 2; schedules have periods of 1 or 2, so that
  occurrences are missed, caught up, coalesced and too late.  `MaxFaults` bounds failing
  calls and deaths where one command runs at a time.  In the overlapping run an absent step
  stands for a death: a process that does nothing more is one that has died, except that it
  keeps its place among the `Daemons`.
* **Memory**: the proposals have every operation, an archive that moves a file to a third
  name, and two actions on one file.  Taking an edit back costs no edit of its own.  Two faults let an apply break off and the restore too;
  two approvals let a newer one meet an older plan.  `MaxLength` stops applies to files
  that appends have made long.
* **Gates**: one disturbance anywhere in the whole chain; two from the governance bundle to
  the release gate, because a single comparison less is mostly caught by a later one and
  shows only when two files have been made again.
* **MCP**: a proposal can be replaced between approval and execution, an approval made twice
  or used twice, a setting edited at any point of a command.  Two policies differ in what
  they admit, two registries in whether the server is a test server.
* **Runner**: runs share nothing but the prunes, which treat each by itself, so one run; two
  faults let it break off and a prune too, and the second prune meets what the first left.
* **Symmetry**: permutations of run ids in `budget_safety` and of run and lease ids in the
  `Dispatch` runs, which no expression tells apart; no run with liveness properties has any.
* **Deadlock** is checked except where the instance really stops: dispatches and runs are
  processes that end, the chain is finished, and in the memory and MCP runs the bounds on
  commands are used up.

Fairness:

* `QueueFairSpec`: time passes (`WF(Tick)`) and something keeps running `work recover`
  (`WF(RecoverWorkQueue(0))`), as `docs/ADR_BUDGETED_DISPATCH_ORDERING.md` prescribes for
  expired leases.  Nothing is assumed of any holder.
* `ProactiveFairSpec`: something runs `daemon run-once` again and again, a process of it goes
  on, and a doctor that has begun goes on; the documents call for exactly this from cron.
  Nothing is assumed of syncs, of the doctor's start or of the clock.  That no active webhook
  stands in the way is not assumed of the specification but is a condition of `QueuedIsServed`
  (`EventuallyDue`), and the run has one that is synced, paused and synced again at any moment.  Weak fairness of the
  disjunction over all processes is enough because one command runs at a time there.
* `ArtifactChain`'s `FairSpec`: the operator keeps taking the chain (`WF(Advance)`).
  `Completes` then says that whatever state edits, reruns and kills leave the files in,
  taking the stages again in order gets through.
* `McpApproval`'s `FairSpec`: a process goes on (`WF(CommandStep)`), and in an exchange the
  command's own steps, its timer and the kill that follows come (`WF(Clocked)`).  Nothing is
  asked of the server.

## Proofs

Checked with `tlapm`; every theorem holds for all values of the constants that satisfy the
modules' named assumptions, which TLC evaluates in the runs.  The assumptions state types and
what configuration validation enforces: positive TTL, limits and periods, costs that are not
negative, for the queue a time stamp that lags less than a TTL, for the chain that its tables
are tables, that every recorded hash is vouched for and that what a stage records fits together.

**WorkQueueProofs.**  `QueueInvariant`: `QueueSpec => []QueueInv`, and from it
`QueueTypeCorrect`, `LeaseExclusiveHolds`, `LeasedIffHeldHolds`, `AttemptsAccountedHolds`,
`RunCapHolds`, `DeadLetterHolds`, and the action property `TerminalIsFinalHolds`.  None of the
safety invariants is inductive alone.  `LeaseExclusive` needs `LeasedIffHeld` (renewing and
losing leases), which needs `LeaseExclusive` in turn (releasing *the* lease of an item);
`DeadLetterMeansExhausted` needs the attempts.  `QueueBookkeeping` adds that a pending assign
is for an item that is still absent - otherwise its save could reset a leased item - and that
a lease id is unused exactly when it has no item, so that a claim counts as one attempt.
There is one lemma per action; cardinalities change by one row at a time.

**BudgetProofs.**  `BudgetTypeCorrect`, `ExhaustedWhenSpentHolds`, `UsageOfChargedHolds`,
`ChargedOnceHolds`, then `WindowAccountsHolds`, `HardLimitHoldsAlways` and
`ImplementsLedgerHolds`.  The first invariant, `BudgetIInv`, is a conjunction over single rows:
a window in order, a reservation in order with its usage event, a call in order with what it
carries.  Two facts make it inductive.  A call that is still under way has no reservation (so
a reserve never replaces one), and a window that holds money has a positive limit (so
`exhausted` is decided by `committed >= hard`).  That a counter never falls below zero follows
from the guard of the commit and of the release, not from the sums.  The second, `BooksOK`,
adds the rows up: each counter of a window is the total of its reservations, and the hard
limit plus the overruns covers both.  Its lemmas say how a total changes when one entry does
(`TotalOfChange` and its like), and each transaction changes one entry.  The refinement is
proved step by step: the counters are what lets the `WHERE` clause stand for the ledger's
guard on the sum (`Hold`), a commit is a `Spend`, a release a `Return`, opening a window an
`Open`, everything else a stutter.

**DispatchProofs.**  `DispatchAccountsHolds` for `DispatchSpec`: whatever happens around any
number of dispatches, the budget's books balance.  It needs no more of a dispatch than the
types of what it carries, and rests on the lemmas of `BudgetProofs`, taken for the instance
`B`.  `WorkerIsCoveredHolds`, `DoneOnceHolds` and `NothingHeldHolds` are about `AloneSpec`.
The steps still to take form one of seven phases (unclaimed, claimed, paid, charged, and the
ways back), and the invariant `AloneAll` says what a run holds in each: a lease that is active
and its own, a reservation, neither; that two runs never name one lease; that an item whose
run succeeded is in no other run's hands.  Hypotheses: `~GiveLease`, because with `--lease`
the same lease can be given to two dispatches, which then both execute; and for `NothingHeld`
also `~Faulty`, because a process that dies returns nothing, and an ignored error on the way
back leaves the lease.  Both are what the run `dispatch_alone` has as well.

**ProactiveProofs.**  `ProactiveInvariant`, `ProactiveTypeCorrect`, `EnqueuedHasWorkHolds`;
for one command at a time `WorkIffEnqueuedHolds` and `OncePerWindowHolds`.
`EnqueuedHasWork` is not inductive because rows are overwritten with copies: `ProactiveIInv`
says that no *copy* - a process's claimed wakeup, the doctor's list - names work that does not
exist, that a process past the materialization has made or found the work, and that the set
of works only grows.  The theorem covers any number of overlapping processes.  The other two
have the hypothesis `~Overlap`: with it, copies are fresh.  `AloneIInv` says so: at most one
process is under way, the rows it listed as missing still are, its claimed wakeup is stored
as it has it, and the doctor's list names claims that no process is working on.  Without the
hypothesis both are false, as `proactive_overlap` shows when `OncePerWindow` is added to it.

**MemoryProofs.**  `MemoryTypeCorrect`, `ApprovedOnlyHolds`, `NeverLostHolds`,
`NoBlindOverwriteHolds`, `RestoreUndoesApplyHolds` and `ReportIsTrueHolds`, for any files,
proposals and policies and any number of approvals, edits and faults.  `ApprovalInv`:
an approval that says "approved" names a proposal that was approved, and an apply takes its
actions from the proposal its preflight compared with the approval.  `LostInv`: plan, result
and restore preview say of each file of the last apply what `undo` says, and of its two copies
(file and backup) the one that the command under way does not write holds.  `ApplyInv`: once
the targets are validated, a file an action will write is as the plan has it, unless it was
edited since or an earlier action has written it.  `RestoreInv`: while there is an apply to
undo, plan and result name its files and agree on them (so a restore is not refused), every
backup is the content the apply started from or cut short, and the files a restore has passed
are back.  `ReportInv`: while an apply renames, every file nobody else had a hand in holds
what the first `cmd.i - 1` actions make of the contents it started from, and the temporary
files still to come hold what their actions will make of them; this needs that each action has
its own files.

The backup plan of a proposal and the files after the first actions are recursive functions.
What the proofs need of them is proved by induction on a set in the place of a predicate:
`UpTo` follows from the well-foundedness of the numbers, and `RecursionHolds` says that a
function defined by recursion exists, so that the definition (a `CHOOSE`) can be unfolded.

**ArtifactChainProofs.**  `ChainTyped`, `ChainVouches`, `ChainSameContent` and `ChainCoherent`,
for any table of stages and any number of disturbances.  A ready artifact records only versions
whose artifacts were ready and whole (`VouchesForReady`) in any table that satisfies
`VouchingAssumption`: every hash a stage records is of a file it requires, renders, or finds
equal to what a trusted artifact records, or is copied from one.

That the records of a ready artifact fit together (`Coherent`, `SameContent`) is shown on top of
that, in any table that satisfies `ReconcilingAssumption`: for each claim that the version of
`x` recorded says of `y` what the artifact itself says of `y`, the stage has a witness - it
renders `x` from `y`, it has the file `x` before it, or it requires an artifact that makes the
same claim - whose two hashes are those it records (`OneHash`).  Two hashes are one if they are
compared, or stand in the same version of a third artifact (`Follows`), which has been compared;
the tables need two such steps at most.  The invariant (`TiedInv`) speaks of every version there
ever was and not of those present: versions do not change, so what was true of a version when it
was written stays true whatever becomes of the file (`FitsKept`), and a rerun against stale files
is a case like any other.

TLC evaluates both assumptions on the code's own 75 stages; they stand for an argument made
stage by stage.  `Coherent` and `SameContent` once had wider statements that a few disturbances
did not break; the proof failed on the claims that are now in `Uncompared`, and longer random
walks through the tables broke them.

**RunnerProofs.**  `RunnerInvariant`: `Spec => []RunnerIInv`, and from it `RunnerTypeCorrect`,
`PolicyHoldsAlways`, `WorkKeptAlways`, `RowsMatchFilesAlways` and
`ReadyMeansPreflightedAlways`, for any number of runs and prunes.  The invariant is a
conjunction per run: `Phase` (the row is absent, running or the decided status, by where the
process stands), `Kept` (a removed tree means succeeded), `Judged` (from the snapshot on, the
paths judged are all that git shows, unless there was an error, and then the run fails),
`Vetted` (there is no verdict before the check) and `Filed` (rows follow the files one by
one).  `PruneOK` says that a prune touches only runs that succeeded and are past writing, and
removes a file before its row.

**McpProofs.**  `IInvHolds`: `Spec => []IInv`, and from it `McpTypeCorrect`,
`RecordedAnswerHolds`, `CallWithinApprovalHolds` and `BundleTruthHolds`, for any registries,
policies, proposals and bounds.  Answers are matched by order alone, so the part about the
exchange (`SessionInv`) is about order: the lines in both pipes stand as the requests they
carry or answer were sent, each later than the last one taken, so that the next line, if it
is an answer at all, is the answer to the request at hand.  The part about the command keeps a
ledger for each setting: what was loaded, compared and hashed for the bundle is one version as
long as nobody has edited the file since the command began.  The runtime config needs a case
of its own, because it is read once more when the call is planned.

**Only model-checked.**

* Liveness (`LeaseEnds`, `QueuedIsServed`, `Completes`, `CommandEnds`): fairness and `ENABLED`
  are beyond the prover.

## Where the code and its documents disagree

`append_lost` is checked: `executeApplyStaged` prepares the temporary files of all actions
before it renames the first (`memory/apply_execute.go:452`), so of two appends to one target
the later rename drops the earlier text, and the apply reports success.
`docs/MEMORY_PROPOSALS.md:424` says that an append adds to the current content.

The others are listed here, most also as hazards with their lines.  Those marked * can be seen
by adding the property named to the run named.

* \* A dispatch saves its item as succeeded and then releases the lease with `requeue=false`,
  which sets the item to cancelled (`dispatch/service.go:331`, reported at 364); dependent
  items wait for ever.  `INVARIANT SuccessIsStored`, `DispatchAlone.cfg`.
* \* A stale list makes a second run-once save a finished wakeup as queued
  (`daemon/processor.go:165`; `docs/PROACTIVE_RUNTIME.md:196`).  `PROPERTY OncePerWindow`,
  `ProactiveOverlap.cfg`.
* \* A webhook or hook schedule that is active stops every run-once before it claims anything
  (`daemon/processor.go:152`, from `schedule/cron.go:102`), so queued wakeups of all schedules wait
  until it is paused; the configuration validates (`schedule/config.go:126`), and
  `docs/PROACTIVE_RUNTIME.md:13` and 49 have webhooks among the supported triggers.
  `PROPERTY ServedWithAnySchedule`, `ProactiveAlone.cfg`.
* The event row of a renewal is keyed by the lease (`store/workqueue_sqlite.go:402`), so a
  lease can be renewed once; `docs/BUDGETS_AND_COSTS.md:104` tells workers to renew during
  long runs.
* The item saved by a dispatch is the copy read before its claim, so the claim's attempt is
  undone (`dispatch/service.go:212`) and `max_attempts` never stops it
  (`docs/BUDGETS_AND_COSTS.md:25`).
* A wakeup that is skipped or fails returns before the schedule is advanced
  (`daemon/processor.go:214` and its like); the schedule waits for an occurrence that is over
  (`docs/PROACTIVE_RUNTIME.md:15`).
* Binding a run saves the copy of the lease, active, over one that was lost or released
  (`dispatch/service.go:203`).
* A pause saved from an old copy revives a terminated agent; a reservation that went over
  budget can be released; the cost is committed whether or not the lease is still owned
  (`docs/BUDGETS_AND_COSTS.md:106`); `failDispatch` saves failed over an item that was
  claimed by somebody else since.
* The executor's preflight compares hashes it has just copied with themselves
  (`retrievalcontext/provider_call_executor_preflight.go:101-175`;
  `docs/PROVIDER_CALL_CHAIN_GATE.md:17` has it reconcile the chain): it may record an approval,
  a bundle, a dry run and a report of different runs.
* The worktree of a succeeded run is removed before its final row and before its artifacts
  are written (`runner/codex.go:341`; `docs/ARCHITECTURE.md:71`, `docs/WORKER_PARITY.md:32`).
* The MCP queue marks an unparsable proposal that came with an approval as invalid
  (`mcpproposalqueue/queue.go:496`), where `docs/MCP_REGISTRY.md:563` says "list/show mark the
  entry as `refused`"; and it misses an approval whose row was never saved.

## What is not modelled

* Within the modelled components: money beyond small numbers, real calendars and time zones,
  daily windows (they behave as months do), several policies per window table, skill snapshots
  and the learning steps after a dispatch (rows of their own, errors ignored), real-mode
  dispatch (refused by the code), priorities within the inbox, checkpoints; parsing of memory
  proposals; of the gates the rules on wording, paths and sizes, and the commands that inspect
  or validate and only print; the output of the MCP queue's list and show, the registry's
  plan, doctor and risk reports; context packs and the contents of the execution trace.
* Skills and insights: planned, see below.
* Memory index, embedding and LanceDB policies: pure functions of configuration files.
* Store bootstrap: the schema's keys are modelled where they matter.
* Workers and their configuration, tasks, reports, domains, the rest of the command line:
  parsing, formatting, and I/O with external programs.  What a worker may come back with is a
  free choice of `Runner`.

## Plan

Done: `WorkQueue`, `Budget` with its ledger, `Dispatch`, `Proactive`, `MemoryApply`, the gate
chain, MCP sessions and approvals, the runner, with proofs for all of them.

Left, in order of importance:

1. `Insights` and `ApprovalQueue`: nothing applied that was not approved as it is.
2. `Skills`: registry and file system in step; refinement of a registry that is one store.
3. `Pricing`: `usage/cost.go` against a reference definition on bounded inputs, with int64
   widths.
4. Proofs: `LeaseExclusive` in the composition with `Dispatch` (the unique index is all that
   is left of it there).
