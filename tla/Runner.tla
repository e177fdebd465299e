-------------------------------- MODULE Runner --------------------------------
(***************************************************************************)
(* A run of a worker (src/internal/runner/codex.go, CodexRunner.Run, which *)
(* opencode.go shares), the artifacts it leaves, `artifacts prune`         *)
(* (src/internal/artifacts/retention.go) and the queue of MCP proposals    *)
(* that reads them (src/internal/mcpproposalqueue/queue.go).               *)
(*                                                                         *)
(* The run works in a worktree of its own, classifies what changed there,  *)
(* removes the worktree of a run that succeeded, records the status, writes *)
(* the files and then a row for each.  It may be killed, or meet an error,  *)
(* between any two of these steps; nothing ever takes such a run up again.  *)
(***************************************************************************)
EXTENDS Naturals, Sequences, FiniteSets

CONSTANTS
    Runs,        \* run ids
    Tasks,       \* [allowed: paths a change may touch, policy: of MCP proposals, memory: a policy is given]
    Results,     \* what a worker may come back with
    MaxFaults,   \* errors of git, the store and the file system, and kills (a bound)
    MaxPrunes,   \* prunes started (a bound)
    MaxEdits     \* edits of the source workspace by others (a bound)

Paths == {"in", "out"}

\* How a change looks to git in the worktree.  "unseen" is one that the worker committed, that
\* is ignored, or that lies in a new directory, of which `git status` names the directory only.
Changes == [path: Paths, how: {"tracked", "untracked", "unseen"}]

ASSUME RunnerAssumption ==
    /\ Tasks \subseteq [allowed: SUBSET Paths, policy: {"none", "optional", "required"}, memory: BOOLEAN]
    /\ \A result \in Results :
         /\ DOMAIN result = {"ok", "changes", "artifacts", "says"}
         /\ result.ok \in BOOLEAN /\ result.changes \subseteq Changes
         /\ result.artifacts \in {<<>>, <<"proposal">>, <<"approval">>,
                                  <<"proposal", "approval">>, <<"approval", "proposal">>}
         /\ result.says \in {"ok", "invalid", "garbled"}     \* the proposal's own content
    /\ {MaxFaults, MaxPrunes, MaxEdits} \subseteq Nat

VARIABLES
    run,      \* what the process of each run holds
    tree,     \* its worktree: "none", "present" or "removed"
    row,      \* the status of its row in the store, or "none"
    files,    \* the files in its directory
    rows,     \* the artifact rows it has in the store
    dirty,    \* the source workspace has changes
    prune,    \* the prune that runs: what it is to remove, what it has removed
    faults, prunes, edits

vars == <<run, tree, row, files, rows, dirty, prune, faults, prunes, edits>>

Emitted(r) == {run[r].result.artifacts[i] : i \in DOMAIN run[r].result.artifacts}
NoTask == [allowed |-> {}, policy |-> "none", memory |-> FALSE]
NoResult == [ok |-> TRUE, changes |-> {}, artifacts |-> <<>>, says |-> "ok"]
Checked(status, lint, preflight, err) == [status |-> status, lint |-> lint, preflight |-> preflight, err |-> err]

-----------------------------------------------------------------------------
Init ==
    /\ run = [r \in Runs |-> [pc |-> "idle", task |-> NoTask, result |-> NoResult,
                              check |-> Checked("none", "", "", FALSE),
                              err |-> FALSE, diff |-> {}, paths |-> {}, status |-> "", next |-> 1]]
    /\ tree = [r \in Runs |-> "none"] /\ row = [r \in Runs |-> "none"]
    /\ files = [r \in Runs |-> {}] /\ rows = [r \in Runs |-> {}]
    /\ dirty = FALSE
    /\ prune = [pc |-> "idle", todo |-> {}, gone |-> {}]
    /\ faults = 0 /\ prunes = 0 /\ edits = 0

At(r, pc) == run[r].pc = pc
Become(r, fields) == run' = [run EXCEPT ![r] = fields]
GoTo(r, pc) == Become(r, [run[r] EXCEPT !.pc = pc])
\* An error that ends the command with exit status 1.
Fails(r) == faults < MaxFaults /\ faults' = faults + 1 /\ GoTo(r, "failed")

store == <<row, rows>>
world == <<dirty, prune, prunes, edits>>

\* The task and its contexts are loaded and validated; a refusal changes nothing.
Begin(r) ==
    /\ At(r, "idle")
    /\ \E task \in Tasks : Become(r, [run[r] EXCEPT !.pc = "baseline", !.task = task])
    /\ UNCHANGED <<tree, files, faults, store, world>>

Baseline(r) ==
    /\ At(r, "baseline")
    /\ \/ ~dirty /\ GoTo(r, "prepare") /\ UNCHANGED faults
       \/ dirty /\ GoTo(r, "failed") /\ UNCHANGED faults
       \/ Fails(r)
    /\ UNCHANGED <<tree, files, store, world>>

\* WorkspaceManager.Prepare: git worktree add --detach.
Prepare(r) ==
    /\ At(r, "prepare")
    /\ \/ GoTo(r, "open") /\ tree' = [tree EXCEPT ![r] = "present"] /\ UNCHANGED faults
       \/ Fails(r) /\ UNCHANGED tree
    /\ UNCHANGED <<files, store, world>>

\* OpenSQLite, SaveTask, SaveRun: an error leaves the worktree behind, and no row.
Record(r) ==
    /\ At(r, "open")
    /\ \/ GoTo(r, "work") /\ row' = [row EXCEPT ![r] = "running"] /\ UNCHANGED faults
       \/ Fails(r) /\ UNCHANGED row
    /\ UNCHANGED <<tree, files, rows, world>>

Work(r) ==
    /\ At(r, "work")
    /\ \E result \in Results :
         Become(r, [run[r] EXCEPT !.pc = "check", !.result = result, !.err = ~result.ok])
    /\ UNCHANGED <<tree, files, faults, store, world>>

-----------------------------------------------------------------------------
\* The preflight of a proposal under the task's policy, whose files may not load.
Preflights(task) ==
    {Checked("preflight_passed", "passed", "passed", FALSE)}
        \cup {Checked("preflight_failed", lint, "failed", task.policy = "required") : lint \in {"passed", "failed"}}

\* Mutant: the approval is refused after the preflight, on the run alone.
ChecksLate(r) ==
    LET result == run[r].result IN
    IF "proposal" \notin Emitted(r) THEN {Checked("none", "", "", "approval" \in Emitted(r))}
    ELSE IF result.says # "ok" THEN {Checked("invalid", "invalid", "", TRUE)}
    ELSE IF run[r].task.policy = "none" THEN {Checked("valid", "skipped_policy", "", FALSE)}
    ELSE {[c EXCEPT !.err = @ \/ "approval" \in Emitted(r)] : c \in Preflights(run[r].task)}

\* checkMCPToolProposal: what the check may find, with the lint and preflight files it makes.
Checks(r) ==
    LET result == run[r].result IN
    IF "approval" \in Emitted(r) THEN {Checked("invalid", "invalid", "", TRUE)}
    ELSE IF "proposal" \notin Emitted(r) THEN {Checked("none", "", "", FALSE)}
    ELSE IF result.says # "ok" THEN {Checked("invalid", "invalid", "", TRUE)}
    ELSE IF run[r].task.policy = "none" THEN {Checked("valid", "skipped_policy", "", FALSE)}
    ELSE Preflights(run[r].task)

CheckMCPToolProposal(r) ==
    /\ At(r, "check")
    /\ \E check \in Checks(r) :
         Become(r, [run[r] EXCEPT !.pc = "validate", !.check = check, !.err = @ \/ check.err])
    /\ UNCHANGED <<tree, files, faults, store, world>>

\* The task's commands, unless something has failed before; one that fails or times out fails
\* the run.
Validate(r) ==
    /\ At(r, "validate")
    /\ \E fails \in (IF run[r].err THEN {FALSE} ELSE BOOLEAN) :
         Become(r, [run[r] EXCEPT !.pc = "diff", !.err = @ \/ fails])
    /\ UNCHANGED <<tree, files, faults, store, world>>

\* CaptureGitDiff: what git tracks, staged or not.
Looks(r, how) == {c.path : c \in {d \in run[r].result.changes : d.how \in how}}

CaptureDiff(r) ==
    /\ At(r, "diff")
    /\ \/ /\ Become(r, [run[r] EXCEPT !.pc = "snapshot", !.diff = Looks(r, {"tracked"})])
          /\ UNCHANGED faults
       \/ /\ faults < MaxFaults /\ faults' = faults + 1
          /\ Become(r, [run[r] EXCEPT !.pc = "snapshot", !.err = TRUE])
    /\ UNCHANGED <<tree, files, store, world>>

\* Mutant: a status that cannot be read is no error.
SnapshotLenient(r) ==
    /\ At(r, "snapshot")
    /\ \/ /\ Become(r, [run[r] EXCEPT !.pc = "finish", !.paths = Looks(r, {"tracked", "untracked"})])
          /\ UNCHANGED faults
       \/ /\ faults < MaxFaults /\ faults' = faults + 1
          /\ Become(r, [run[r] EXCEPT !.pc = "finish", !.paths = run[r].diff])
    /\ UNCHANGED <<tree, files, store, world>>

\* The changed paths, from git status in the worktree or, if that fails, from the diff.
Snapshot(r) ==
    /\ At(r, "snapshot")
    /\ \/ /\ Become(r, [run[r] EXCEPT !.pc = "finish", !.paths = Looks(r, {"tracked", "untracked"})])
          /\ UNCHANGED faults
       \/ /\ faults < MaxFaults /\ faults' = faults + 1
          /\ Become(r, [run[r] EXCEPT !.pc = "finish", !.paths = run[r].diff, !.err = TRUE])
    /\ UNCHANGED <<tree, files, store, world>>

\* EvaluateChangedPaths, and the status: a violated path policy outranks a failure.
PolicyOK(r) == run[r].paths \subseteq run[r].task.allowed

\* Mutant: validation has a status of its own.
StatusByCause(r) == IF run[r].err THEN "validation_failed" ELSE "succeeded"

StatusOf(r) ==
    IF ~PolicyOK(r) THEN "policy_failed" ELSE IF run[r].err THEN "failed" ELSE "succeeded"

\* Mutant: the worktree goes if the worker came back well.
FinishByError(r) ==
    /\ At(r, "finish")
    /\ Become(r, [run[r] EXCEPT !.pc = "save", !.status = StatusOf(r)])
    /\ tree' = IF run[r].err THEN tree ELSE [tree EXCEPT ![r] = "removed"]
    /\ UNCHANGED <<files, faults, store, world>>

\* cleanupWorkspace: the worktree of a run that succeeded is removed, before its row says so;
\* an error is a warning.
Finish(r) ==
    /\ At(r, "finish")
    /\ Become(r, [run[r] EXCEPT !.pc = "save", !.status = StatusOf(r)])
    /\ IF StatusOf(r) = "succeeded"
       THEN \/ tree' = [tree EXCEPT ![r] = "removed"] /\ UNCHANGED faults
            \/ UNCHANGED tree /\ faults < MaxFaults /\ faults' = faults + 1
       ELSE UNCHANGED <<tree, faults>>
    /\ UNCHANGED <<files, store, world>>

SaveFinal(r) ==
    /\ At(r, "save")
    /\ \/ GoTo(r, "memory") /\ row' = [row EXCEPT ![r] = run[r].status] /\ UNCHANGED faults
       \/ Fails(r) /\ UNCHANGED row
    /\ UNCHANGED <<tree, files, rows, world>>

\* checkMemoryProposal: a policy that cannot be loaded ends the command.
CheckMemoryProposal(r) ==
    /\ At(r, "memory")
    /\ \/ GoTo(r, "write") /\ UNCHANGED faults
       \/ run[r].task.memory /\ Fails(r)
    /\ UNCHANGED <<tree, files, store, world>>

\* The files of a run in the order they are written, one for each part they play.
Only(condition, name) == IF condition THEN <<name>> ELSE <<>>
FilesOf(r) ==
    <<"diff">> \o Only(run[r].check.lint # "", "lint") \o Only(run[r].check.preflight # "", "preflight")
        \o run[r].result.artifacts \o <<"trace">>

Written(r, n) == {FilesOf(r)[i] : i \in 1..n}

\* writeCodexRunArtifacts writes the files before there is a row for any.
WriteArtifacts(r) ==
    /\ At(r, "write")
    /\ \/ /\ files' = [files EXCEPT ![r] = Written(r, Len(FilesOf(r)))]
          /\ GoTo(r, "rows") /\ UNCHANGED faults
       \/ /\ \E n \in 0..Len(FilesOf(r)) - 1 : files' = [files EXCEPT ![r] = Written(r, n)]
          /\ Fails(r)
    /\ UNCHANGED <<tree, store, world>>

\* saveWorkerEvents, then SaveArtifact for one file after the other.
SaveArtifact(r) ==
    /\ At(r, "rows")
    /\ \/ LET n == run[r].next IN
          /\ rows' = [rows EXCEPT ![r] = @ \cup {FilesOf(r)[n]}]
          /\ Become(r, [run[r] EXCEPT !.next = @ + 1, !.pc = IF n = Len(FilesOf(r)) THEN "done" ELSE @])
          /\ UNCHANGED faults
       \/ Fails(r) /\ UNCHANGED rows
    /\ UNCHANGED <<tree, files, row, world>>

Ended == {"idle", "done", "failed", "killed"}

Kill(r) ==
    /\ run[r].pc \notin Ended
    /\ faults < MaxFaults /\ faults' = faults + 1
    /\ GoTo(r, "killed")
    /\ UNCHANGED <<tree, files, store, world>>

-----------------------------------------------------------------------------
\* PrunableArtifacts, and the tests Prune makes itself: the runs whose artifacts are past the
\* cutoff, under the given root and in a run that succeeded.  Nothing ever sets keep.
Candidates(old) == UNION {{r} \X rows[r] : r \in {s \in old : row[s] = "succeeded"}}

\* Mutant: the rows go first.
PruneRowsFirst ==
    /\ prune.pc = "idle" /\ prunes < MaxPrunes
    /\ \E old \in SUBSET Runs :
         /\ prune' = [pc |-> "remove", todo |-> Candidates(old), gone |-> {}]
         /\ rows' = [r \in Runs |-> rows[r] \ {c[2] : c \in {d \in Candidates(old) : d[1] = r}}]
    /\ prunes' = prunes + 1
    /\ UNCHANGED <<run, tree, row, files, dirty, faults, edits>>

PruneStart ==
    /\ prune.pc = "idle" /\ prunes < MaxPrunes
    /\ \E old \in SUBSET Runs : prune' = [pc |-> "remove", todo |-> Candidates(old), gone |-> {}]
    /\ prunes' = prunes + 1
    /\ UNCHANGED <<run, tree, row, files, rows, dirty, faults, edits>>

\* One file after the other; one that is gone already is as good as removed.
PruneRemove ==
    /\ prune.pc = "remove" /\ prune.todo # {}
    /\ \E c \in prune.todo :
         /\ files' = [files EXCEPT ![c[1]] = @ \ {c[2]}]
         /\ prune' = [prune EXCEPT !.todo = @ \ {c}, !.gone = @ \cup {c}]
    /\ UNCHANGED <<run, tree, row, rows, dirty, faults, prunes, edits>>

\* DeleteArtifacts, in one transaction.
PruneDelete ==
    /\ prune.pc = "remove" /\ prune.todo = {}
    /\ rows' = [r \in Runs |-> rows[r] \ {c[2] : c \in {d \in prune.gone : d[1] = r}}]
    /\ prune' = [pc |-> "idle", todo |-> {}, gone |-> {}]
    /\ UNCHANGED <<run, tree, row, files, dirty, faults, prunes, edits>>

\* An error, or a kill: the files that are gone keep their rows.
PruneBreaks ==
    /\ prune.pc = "remove"
    /\ faults < MaxFaults /\ faults' = faults + 1
    /\ prune' = [pc |-> "idle", todo |-> {}, gone |-> {}]
    /\ UNCHANGED <<run, tree, row, files, rows, dirty, prunes, edits>>

Edit ==
    /\ edits < MaxEdits /\ edits' = edits + 1
    /\ dirty' = ~dirty
    /\ UNCHANGED <<run, tree, files, store, prune, faults, prunes>>

RunStep(r) ==
    \/ Begin(r) \/ Baseline(r) \/ Prepare(r) \/ Record(r) \/ Work(r)
    \/ CheckMCPToolProposal(r) \/ Validate(r) \/ CaptureDiff(r) \/ Snapshot(r)
    \/ Finish(r) \/ SaveFinal(r) \/ CheckMemoryProposal(r) \/ WriteArtifacts(r) \/ SaveArtifact(r)

Next ==
    \/ \E r \in Runs : RunStep(r) \/ Kill(r)
    \/ PruneStart \/ PruneRemove \/ PruneDelete \/ PruneBreaks
    \/ Edit

Spec == Init /\ [][Next]_vars

-----------------------------------------------------------------------------
\* The queue: a file counts if it has a row and can be read, a worker's approval by its row.
Reads(r, f) == f \in rows[r] /\ f \in files[r]
Refused(r) == "approval" \in rows[r]
Parsed(r) == Reads(r, "proposal") /\ run[r].result.says # "garbled"

\* deriveProposalStatus: by the preflight, else the lint, else the trace.
ProposalStatus(r) ==
    IF Reads(r, "preflight")
    THEN IF run[r].check.preflight = "passed" THEN "preflight_passed" ELSE "preflight_failed"
    ELSE IF Reads(r, "lint")
         THEN IF run[r].check.lint \in {"skipped_policy", "passed"} THEN "valid" ELSE "invalid"
    ELSE IF Reads(r, "trace") /\ run[r].check.status # "none" THEN run[r].check.status ELSE "valid"

ReadyForApproval(r) == Parsed(r) /\ ~Refused(r) /\ ProposalStatus(r) = "preflight_passed"

-----------------------------------------------------------------------------
Statuses == {"none", "running", "succeeded", "failed", "policy_failed"}
FileNames == {"diff", "lint", "preflight", "proposal", "approval", "trace"}

RunnerTypeOK ==
    /\ \A r \in Runs :
         /\ run[r].task \in Tasks \cup {NoTask} /\ run[r].result \in Results \cup {NoResult}
         /\ run[r].paths \subseteq Paths /\ run[r].diff \subseteq Paths /\ run[r].next \in 1..7
    /\ tree \in [Runs -> {"none", "present", "removed"}] /\ row \in [Runs -> Statuses]
    /\ files \in [Runs -> SUBSET FileNames] /\ rows \in [Runs -> SUBSET FileNames]
    /\ prune.pc \in {"idle", "remove"} /\ prune.todo \cup prune.gone \subseteq Runs \X FileNames
    /\ dirty \in BOOLEAN

\* A run recorded as succeeded has touched no path its task does not allow, whatever failed on
\* the way, as far as git showed its changes (codex.go, 296-336).
PolicyHolds ==
    \A r \in Runs : row[r] = "succeeded" => Looks(r, {"tracked", "untracked"}) \subseteq run[r].task.allowed

\* The worktree of a run is gone only if the run succeeded: one recorded as failed or
\* policy_failed keeps it, and so does one killed before (codex.go, 329-346; cleanup.go).
WorkKept ==
    \A r \in Runs :
        /\ row[r] \in {"failed", "policy_failed"} => tree[r] = "present"
        /\ tree[r] = "removed" => run[r].status = "succeeded" /\ row[r] \in {"running", "succeeded"}

\* The evidence of a run that did not succeed is never pruned: its rows keep their files.
\* Once a run has ended well, a file of it has a row, so that the next prune finds it, also
\* after a prune that broke off (retention.go, 84-127).
RowsMatchFiles ==
    \A r \in Runs :
        /\ row[r] # "succeeded" => rows[r] \subseteq files[r]
        /\ At(r, "done") => files[r] \subseteq rows[r]

\* The queue calls a proposal ready for approval only if the run's own check passed it and its
\* worker emitted no approval, whichever rows a broken run or prune has left
\* (mcp_tool_proposal.go, 44-125; queue.go, 284-294).
ReadyMeansPreflighted ==
    \A r \in Runs : ReadyForApproval(r) =>
        /\ run[r].check.status = "preflight_passed" /\ run[r].result.says = "ok"
        /\ "approval" \notin Emitted(r)

=============================================================================
