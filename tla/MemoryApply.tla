---- MODULE MemoryApply ----
(***************************************************************************)
(* A memory proposal on its way into the memory files and back: approve,   *)
(* backup-plan, backup-materialize, apply-execute, restore, restore-execute*)
(* (internal/memory, and the handlers of cmd/deonctl/main.go).             *)
(*                                                                         *)
(* Every command is a process that loads JSON artifacts written by earlier *)
(* ones.  The operator runs them one at a time; meanwhile others edit      *)
(* memory files, the proposal and the policy.  A command that only reads   *)
(* files and writes one artifact is one action.  Materialize, apply and    *)
(* restore change files one by one and may fail or die in between.  Reads  *)
(* of several files in a row are one step: an edit of a file commutes with *)
(* the reads of the others.                                                *)
(*                                                                         *)
(* A content is a sequence of pieces, and a SHA-256 is the content itself. *)
(***************************************************************************)
EXTENDS Integers, Sequences, FiniteSets

CONSTANTS
    Paths,         \* memory files a proposal may name
    Pieces,        \* what contents are made of
    Original,      \* the files in the beginning
    Proposals,     \* versions of memory-proposal.json, all with one proposal_id
    Policies,      \* versions of the memory policy
    MaxApprovals, MaxEdits, MaxFaults,   \* bounds
    MaxLength      \* bound: no apply begins while a file is this long

VARIABLES
    files,         \* the memory files
    backup,        \* the copies under backup_root, by target
    proposal, policy, approval, plan, result, preview,    \* the artifacts
    cmd,           \* the command under way
    last,          \* the outcome of the last apply or restore that came to its end
    edits, faults, \* how many edits and faults there have been
    granted,       \* history: proposals that some approval approved
    undo,          \* history: the contents an apply under this plan started from
    late,          \* history: paths edited since a command last checked them
    misread,       \* history: paths an append has read when they were not as planned
    harmed         \* history: paths whose backup somebody damaged, or that were edited
                   \*   while they were being copied or had no equal backup

artifacts == <<proposal, policy, approval, plan, result, preview>>
history == <<granted, undo, late, misread, harmed>>
vars == <<files, backup, artifacts, cmd, last, edits, faults, history>>

-----------------------------------------------------------------------------
(* Contents, actions, items                                                *)

Missing == <<"no file">>
CutShort == <<"cut short">>
Edited == <<"edited">>
Content == Seq(Pieces \cup {"no file", "cut short", "edited"})

Operations == {"create", "append", "update", "archive"}

\* A patch with its defaults filled in; archive means nothing unless op is archive.
Action == [op: Operations, target: Paths, archive: Paths, text: Pieces]

Proposal == [target: Paths, patches: Seq(Action)]

\* bridge: allowed_global_bridge; writable: where the proposal's domain may write.
Policy == [bridge: SUBSET Paths, protected: SUBSET Paths, writable: SUBSET Paths]

ASSUME MemoryAssumption ==
    /\ Original \in [Paths -> Content]
    /\ Proposals # {} /\ Proposals \subseteq Proposal
    /\ Policies # {} /\ Policies \subseteq Policy
    /\ \A p \in Proposals : Len(p.patches) > 0
    /\ Pieces \cap {"no file", "cut short", "edited"} = {}
    /\ MaxApprovals \in Nat /\ MaxEdits \in Nat /\ MaxFaults \in Nat
    /\ MaxLength \in Nat

\* An item of a backup plan, a backup result or a restore preview: sha is the planned
\* content (Missing: exists=false), copied the backup_sha256 (Missing in a plan).
Item == [path: Paths, op: Operations, sha: Content, copied: Content]

Elements(s) == {s[k] : k \in DOMAIN s}
PathsOf(items) == {p \in Paths : \E k \in DOMAIN items : items[k].path = p}
Distinct(items) == \A k, l \in DOMAIN items : items[k].path = items[l].path => k = l

\* The files an action writes, and those a list of actions does.
Written(a) == IF a.op = "archive" THEN {a.target, a.archive} ELSE {a.target}
Touched(actions) == UNION {Written(a) : a \in Elements(actions)}

Idle == [op |-> "idle", at |-> "", i |-> 1, approval |-> 0, actions |-> <<>>,
         items |-> <<>>, done |-> <<>>, temps |-> <<>>]
NoOutcome == [op |-> "none", status |-> "", renamed |-> 0, items |-> 0, actions |-> <<>>]

-----------------------------------------------------------------------------
(* Policy, dry run, approval, preflight                                    *)

\* LintProposal for one path.  A bridge path is accepted before anything else is looked at.
Lint(path, pol) ==
    \/ path \in pol.bridge
    \/ path \notin pol.protected /\ path \in pol.writable

LintPatch(a, pol) ==
    /\ Lint(a.target, pol)
    /\ a.op = "archive" => (a.archive # a.target /\ Lint(a.archive, pol))

DryRunOK(p, pol) ==
    /\ Lint(p.target, pol)
    /\ \A a \in Elements(p.patches) : LintPatch(a, pol)

\* What apply_preview_sha256 covers: the verdict, the actions and the warnings.
DryRun(p, pol) ==
    [ok |-> DryRunOK(p, pol), actions |-> p.patches,
     warned |-> ({p.target} \cup Touched(p.patches)) \cap pol.bridge]

\* Mutation: the approval is not compared with the proposal and the preview of now.
PreflightOfAnyProposal ==
    /\ approval.decision = "approved"
    /\ DryRunOK(proposal, policy)

\* BuildApplyPreflight: the approval is for this proposal and this preview, as they are now.
PreflightOK ==
    /\ approval.decision = "approved"
    /\ approval.proposal = proposal
    /\ approval.dry = DryRun(proposal, policy)
    /\ DryRunOK(proposal, policy)

-----------------------------------------------------------------------------
(* The backup plan                                                         *)

\* backupTargetsForAction for every action in turn.
Wanted(p) ==
    LET Of(a) == IF a.op = "archive"
                 THEN <<[path |-> a.target, op |-> a.op, must |-> "exist"],
                        [path |-> a.archive, op |-> a.op, must |-> "be missing"]>>
                 ELSE <<[path |-> a.target, op |-> a.op, must |-> ""]>>
        From[k \in 0..Len(p.patches)] ==
            IF k = 0 THEN <<>> ELSE From[k - 1] \o Of(p.patches[k])
    IN From[Len(p.patches)]

\* Mutation: repeated targets are kept.
BackupTargetsRepeated(p) == Wanted(p)

\* Only the first mention of a path counts, for the item and for the check that goes with it.
BackupTargets(p) ==
    LET w == Wanted(p)
        Taken[k \in 0..Len(w)] ==
            IF k = 0 THEN <<>>
            ELSE IF w[k].path \in PathsOf(Taken[k - 1]) THEN Taken[k - 1]
            ELSE Append(Taken[k - 1], w[k])
    IN Taken[Len(w)]

PlanFor(p, fs) ==
    [k \in DOMAIN BackupTargets(p) |->
        LET w == BackupTargets(p)[k]
        IN  [path |-> w.path, op |-> w.op, sha |-> fs[w.path], copied |-> Missing]]

-----------------------------------------------------------------------------
(* What apply-execute and restore-execute check before they begin          *)

\* validateApplyBackupPlanItems: every target is as the plan has it.
PlanHolds ==
    /\ Distinct(plan.items)
    /\ \A it \in Elements(plan.items) : files[it.path] = it.sha

\* Mutation: the recorded hash is believed, the backup file is not read.
CoversByRecord(it, res) ==
    /\ res.op = it.op
    /\ (res.sha = Missing) = (it.sha = Missing)
    /\ it.sha # Missing => res.sha = it.sha /\ res.copied = it.sha

\* validateApplyBackupResultItem
Covers(it, res) ==
    /\ res.op = it.op
    /\ (res.sha = Missing) = (it.sha = Missing)
    /\ it.sha # Missing => /\ res.sha = it.sha
                           /\ res.copied = it.sha
                           /\ backup[it.path] = it.sha

\* validateApplyBackupResultItems
ResultCovers ==
    /\ Distinct(result.items)
    /\ PathsOf(result.items) = PathsOf(plan.items)
    /\ \A it \in Elements(plan.items), res \in Elements(result.items) :
            it.path = res.path => Covers(it, res)

Planned(path) == (CHOOSE it \in Elements(plan.items) : it.path = path).sha

\* validateApplyAction for the k-th action.
ActionValid(k, actions) ==
    LET a == actions[k]
    IN  /\ a.target \in PathsOf(plan.items)
        /\ a.op = "create" =>
             /\ \A l \in 1..(k - 1) : ~(actions[l].op = "create" /\ actions[l].target = a.target)
             /\ files[a.target] = Missing
        /\ a.op = "update" => Planned(a.target) # Missing /\ files[a.target] # Missing
        /\ a.op = "archive" =>
             /\ a.archive # a.target
             /\ a.archive \in PathsOf(plan.items)
             /\ Planned(a.target) # Missing /\ files[a.target] # Missing
             /\ Planned(a.archive) = Missing /\ files[a.archive] = Missing

\* prepareApplyExecution
ApplyReady ==
    /\ PreflightOK
    /\ plan.approval = approval.id /\ result.approval = approval.id
    /\ PlanHolds
    /\ ResultCovers
    /\ \A k \in DOMAIN proposal.patches : ActionValid(k, proposal.patches)

\* validateRestoreItemAgainstResult
Restores(it, res) ==
    /\ res.op = it.op
    /\ (res.sha = Missing) = (it.sha = Missing)
    /\ it.sha # Missing => backup[it.path] = res.copied

\* BuildRestorePreview.  The plan's own hash is not compared with the backup's.
RestoreReady ==
    /\ plan.approval # 0 /\ result.approval = plan.approval
    /\ Distinct(result.items)
    /\ Distinct(plan.items)
    /\ \A it \in Elements(plan.items) :
        \E res \in Elements(result.items) : res.path = it.path /\ Restores(it, res)

RestorePreview ==
    [approval |-> plan.approval,
     items |-> [k \in DOMAIN plan.items |->
        LET it == plan.items[k]
            res == CHOOSE x \in Elements(result.items) : x.path = it.path
        IN  [it EXCEPT !.copied = res.copied]]]

-----------------------------------------------------------------------------
(* State                                                                   *)

NoApproval == [id |-> 0, decision |-> "rejected", proposal |-> proposal, dry |-> DryRun(proposal, policy)]

MemoryInit ==
    /\ files = Original
    /\ backup = [p \in Paths |-> Missing]
    /\ proposal \in Proposals
    /\ policy \in Policies
    /\ approval = NoApproval
    /\ plan = [approval |-> 0, items |-> <<>>]
    /\ result = [approval |-> 0, items |-> <<>>]
    /\ preview = [approval |-> 0, items |-> <<>>]
    /\ cmd = Idle
    /\ last = NoOutcome
    /\ edits = 0 /\ faults = 0
    /\ granted = {}
    /\ undo = << >>
    /\ late = {} /\ misread = {} /\ harmed = {}

-----------------------------------------------------------------------------
(* Commands that write one artifact                                        *)

\* `memory proposal approve --decision d`; an approval gets a new id each time.
Approve(d) ==
    /\ cmd = Idle
    /\ approval.id < MaxApprovals
    /\ d = "approved" => DryRunOK(proposal, policy)
    /\ approval' = [id |-> approval.id + 1, decision |-> d,
                    proposal |-> proposal, dry |-> DryRun(proposal, policy)]
    /\ granted' = IF d = "approved" THEN granted \cup {proposal} ELSE granted
    /\ UNCHANGED <<files, backup, proposal, policy, plan, result, preview, cmd, last,
                   edits, faults, undo, late, misread, harmed>>

\* `memory proposal backup-plan`
BuildBackupPlan ==
    /\ cmd = Idle
    /\ PreflightOK
    /\ \A w \in Elements(BackupTargets(proposal)) :
        /\ w.must = "exist" => files[w.path] # Missing
        /\ w.must = "be missing" => files[w.path] = Missing
    /\ plan' = [approval |-> approval.id, items |-> PlanFor(proposal, files)]
    /\ undo' = << >>
    /\ UNCHANGED <<files, backup, proposal, policy, approval, result, preview, cmd, last,
                   edits, faults, granted, late, misread, harmed>>

\* `memory proposal restore --dry-run`
BuildRestorePreview ==
    /\ cmd = Idle
    /\ RestoreReady
    /\ preview' = RestorePreview
    /\ UNCHANGED <<files, backup, proposal, policy, approval, plan, result, cmd, last,
                   edits, faults, history>>

-----------------------------------------------------------------------------
(* backup-materialize                                                      *)

\* prepareBackupMaterialization.  Nothing is checked for items that were missing.
MaterializeStart ==
    /\ cmd = Idle
    /\ plan.approval # 0
    /\ \A it \in Elements(plan.items) : it.sha # Missing => files[it.path] = it.sha
    /\ cmd' = [Idle EXCEPT !.op = "materialize", !.approval = plan.approval, !.items = plan.items]
    /\ last' = NoOutcome
    /\ UNCHANGED <<files, backup, artifacts, edits, faults, history>>

\* One turn of the loop: copyFile and the hash of the copy, or skipped_missing.
CopyItem ==
    /\ cmd.op = "materialize" /\ cmd.i \in DOMAIN cmd.items
    /\ LET it == cmd.items[cmd.i]
       IN  \/ /\ it.sha = Missing
              /\ cmd' = [cmd EXCEPT !.i = @ + 1, !.done = Append(@, it)]
              /\ UNCHANGED backup
           \/ /\ it.sha # Missing /\ files[it.path] # Missing
              /\ backup' = [backup EXCEPT ![it.path] = files[it.path]]
              /\ cmd' = [cmd EXCEPT !.i = @ + 1,
                                    !.done = Append(@, [it EXCEPT !.copied = files[it.path]])]
    /\ UNCHANGED <<files, artifacts, last, edits, faults, history>>

\* The source is gone, or the copy fails or is cut off by the end of the process:
\* O_TRUNC has then emptied what was there.
CopyFails ==
    /\ cmd.op = "materialize" /\ cmd.i \in DOMAIN cmd.items
    /\ LET it == cmd.items[cmd.i]
       IN  /\ it.sha # Missing
           /\ \/ /\ files[it.path] = Missing
                 /\ UNCHANGED <<backup, faults>>
              \/ /\ files[it.path] # Missing /\ faults < MaxFaults
                 /\ backup' = [backup EXCEPT ![it.path] = CutShort]
                 /\ faults' = faults + 1
    /\ cmd' = Idle
    /\ UNCHANGED <<files, artifacts, last, edits, history>>

\* writeBackupResult
MaterializeDone ==
    /\ cmd.op = "materialize" /\ cmd.i > Len(cmd.items)
    /\ result' = [approval |-> cmd.approval, items |-> cmd.done]
    /\ undo' = << >>
    /\ cmd' = Idle
    /\ UNCHANGED <<files, backup, proposal, policy, approval, plan, preview, last,
                   edits, faults, granted, late, misread, harmed>>

-----------------------------------------------------------------------------
(* apply-execute                                                           *)

Outcome(op, status, n) ==
    [op |-> op, status |-> status, renamed |-> n, items |-> Len(cmd.done), actions |-> cmd.actions]

\* prepareApplyExecution; the artifacts are loaded once.  Nothing counts the applies: one
\* approval carries any number of them, each with a new plan and result.
ApplyStart ==
    /\ cmd = Idle
    /\ \A p \in Paths : Len(files[p]) < MaxLength
    /\ ApplyReady
    /\ cmd' = [Idle EXCEPT !.op = "apply", !.at = "stage", !.approval = plan.approval,
                           !.actions = proposal.patches, !.items = plan.items]
    /\ undo' = [p \in PathsOf(plan.items) |-> Planned(p)]
    /\ last' = NoOutcome
    /\ late' = {} /\ misread' = {} /\ harmed' = {}
    /\ UNCHANGED <<files, backup, artifacts, edits, faults, granted>>

InPlan(path) == (CHOOSE it \in Elements(cmd.items) : it.path = path).sha

\* An append to a target that was missing when the plan was made goes the way of a create.
Creates(a) == a.op = "create" \/ (a.op = "append" /\ InPlan(a.target) = Missing)

\* prepareApplyActionTemp: the temporary file of an action; an archive move has none.
Temp(a) ==
    IF a.op = "append" /\ InPlan(a.target) # Missing THEN Append(files[a.target], a.text)
    ELSE <<a.text>>

\* Every temporary file is written, from the targets as they are now, before any is renamed.
StageApply ==
    /\ cmd.op = "apply" /\ cmd.at = "stage"
    /\ \A a \in Elements(cmd.actions) :
        (a.op = "archive" \/ (a.op = "append" /\ ~Creates(a))) => files[a.target] # Missing
    /\ cmd' = [cmd EXCEPT !.at = "validate", !.temps = [k \in DOMAIN cmd.actions |-> Temp(cmd.actions[k])]]
    /\ misread' = {a.target : a \in {x \in Elements(cmd.actions) :
                        x.op = "append" /\ ~Creates(x) /\ files[x.target] # InPlan(x.target)}}
    /\ UNCHANGED <<files, backup, artifacts, last, edits, faults, granted, undo, late, harmed>>

\* Mutation: only the existence of a target is looked at again.
TargetHoldsByName(a) ==
    IF Creates(a) THEN files[a.target] = Missing
    ELSE /\ files[a.target] # Missing
         /\ a.op = "archive" => files[a.archive] = Missing

\* validateStagedApplyTarget
TargetHolds(a) ==
    IF Creates(a) THEN files[a.target] = Missing
    ELSE /\ files[a.target] = InPlan(a.target)
         /\ a.op = "archive" => files[a.archive] = Missing

ValidateTargets ==
    /\ cmd.op = "apply" /\ cmd.at = "validate"
    /\ \A a \in Elements(cmd.actions) : TargetHolds(a)
    /\ cmd' = [cmd EXCEPT !.at = "rename"]
    /\ late' = late \ Touched(cmd.actions)
    /\ UNCHANGED <<files, backup, artifacts, last, edits, faults, granted, undo, misread, harmed>>

\* executeApplyStaged's error path before the first rename: temporary files are removed.
ApplyRefused ==
    /\ cmd.op = "apply"
    /\ \/ /\ cmd.at = "stage"
          /\ \E a \in Elements(cmd.actions) :
                (a.op = "archive" \/ (a.op = "append" /\ ~Creates(a))) /\ files[a.target] = Missing
          /\ UNCHANGED faults
       \/ /\ cmd.at = "validate"
          /\ \E a \in Elements(cmd.actions) : ~TargetHolds(a)
          /\ UNCHANGED faults
       \/ /\ cmd.at \in {"stage", "validate"} /\ faults < MaxFaults
          /\ faults' = faults + 1
    /\ last' = Outcome("apply", "failed", 0)
    /\ cmd' = Idle
    /\ UNCHANGED <<files, backup, artifacts, edits, history>>

\* renameStagedApplyItem: what the k-th rename makes of the files.
Renamed(fs, a, temp) ==
    IF a.op = "archive" THEN [fs EXCEPT ![a.archive] = fs[a.target], ![a.target] = Missing]
    ELSE [fs EXCEPT ![a.target] = temp]

RenameItem ==
    /\ cmd.op = "apply" /\ cmd.at = "rename" /\ cmd.i \in DOMAIN cmd.actions
    /\ LET a == cmd.actions[cmd.i]
       IN  /\ a.op = "archive" => files[a.target] # Missing
           /\ files' = Renamed(files, a, cmd.temps[cmd.i])
           /\ cmd' = [cmd EXCEPT !.i = @ + 1, !.done = Append(@, a)]
    /\ UNCHANGED <<backup, artifacts, last, edits, faults, history>>

\* Mutation: a failed rename always reports a failure of the whole.
RenameFailsWhole ==
    /\ cmd.op = "apply" /\ cmd.at = "rename" /\ cmd.i \in DOMAIN cmd.actions
    /\ LET a == cmd.actions[cmd.i]
       IN  IF a.op = "archive" /\ files[a.target] = Missing
           THEN UNCHANGED faults
           ELSE faults < MaxFaults /\ faults' = faults + 1
    /\ last' = Outcome("apply", "failed", cmd.i - 1)
    /\ cmd' = Idle
    /\ UNCHANGED <<files, backup, artifacts, edits, history>>

\* A rename fails: partial_failed, or failed when it was the first.
RenameFails ==
    /\ cmd.op = "apply" /\ cmd.at = "rename" /\ cmd.i \in DOMAIN cmd.actions
    /\ LET a == cmd.actions[cmd.i]
       IN  IF a.op = "archive" /\ files[a.target] = Missing
           THEN UNCHANGED faults
           ELSE faults < MaxFaults /\ faults' = faults + 1
    /\ last' = Outcome("apply", IF Len(cmd.done) > 0 THEN "partial_failed" ELSE "failed", cmd.i - 1)
    /\ cmd' = Idle
    /\ UNCHANGED <<files, backup, artifacts, edits, history>>

\* The renamed file cannot be hashed: the item is reported, and the apply ends there.
HashFails ==
    /\ cmd.op = "apply" /\ cmd.at = "rename" /\ cmd.i > 1
    /\ faults < MaxFaults /\ faults' = faults + 1
    /\ last' = Outcome("apply", "partial_failed", cmd.i - 1)
    /\ cmd' = Idle
    /\ UNCHANGED <<files, backup, artifacts, edits, history>>

ApplyDone ==
    /\ cmd.op = "apply" /\ cmd.at = "rename" /\ cmd.i > Len(cmd.actions)
    /\ last' = Outcome("apply", "succeeded", cmd.i - 1)
    /\ cmd' = Idle
    /\ UNCHANGED <<files, backup, artifacts, edits, faults, history>>

-----------------------------------------------------------------------------
(* restore-execute                                                         *)

\* prepareRestoreExecution
RestoreStart ==
    /\ cmd = Idle
    /\ RestoreReady
    /\ preview = RestorePreview
    /\ cmd' = [Idle EXCEPT !.op = "restore", !.approval = plan.approval, !.items = preview.items]
    /\ last' = NoOutcome
    /\ late' = {}
    /\ UNCHANGED <<files, backup, artifacts, edits, faults, granted, undo, misread, harmed>>

\* Mutation: files that the apply created stay.
RestoreItemKeepsCreated ==
    /\ cmd.op = "restore" /\ cmd.i \in DOMAIN cmd.items
    /\ LET it == cmd.items[cmd.i]
       IN  /\ it.sha # Missing => backup[it.path] = it.copied
           /\ files' = [files EXCEPT ![it.path] = IF it.sha # Missing THEN backup[it.path] ELSE @]
    /\ cmd' = [cmd EXCEPT !.i = @ + 1, !.done = Append(@, cmd.items[cmd.i])]
    /\ UNCHANGED <<backup, artifacts, last, edits, faults, history>>

\* copyRestoreFile checks the temporary file against backup_sha256 before it renames it.
RestoreItem ==
    /\ cmd.op = "restore" /\ cmd.i \in DOMAIN cmd.items
    /\ LET it == cmd.items[cmd.i]
       IN  /\ it.sha # Missing => backup[it.path] = it.copied
           /\ files' = [files EXCEPT ![it.path] = IF it.sha # Missing THEN backup[it.path] ELSE Missing]
    /\ cmd' = [cmd EXCEPT !.i = @ + 1, !.done = Append(@, cmd.items[cmd.i])]
    /\ UNCHANGED <<backup, artifacts, last, edits, faults, history>>

\* An error in the loop: the items restored so far stay restored, and nothing is reported.
RestoreFails ==
    /\ cmd.op = "restore" /\ cmd.i \in DOMAIN cmd.items
    /\ LET it == cmd.items[cmd.i]
       IN  IF it.sha # Missing /\ backup[it.path] # it.copied
           THEN UNCHANGED faults
           ELSE faults < MaxFaults /\ faults' = faults + 1
    /\ cmd' = Idle
    /\ UNCHANGED <<files, backup, artifacts, last, edits, history>>

RestoreDone ==
    /\ cmd.op = "restore" /\ cmd.i > Len(cmd.items)
    /\ last' = Outcome("restore", "restored", cmd.i - 1)
    /\ cmd' = Idle
    /\ UNCHANGED <<files, backup, artifacts, edits, faults, history>>

-----------------------------------------------------------------------------
(* Everybody else                                                          *)

\* The process dies between two of its steps, or cannot write its result at the end.
Dies ==
    /\ cmd # Idle
    /\ faults < MaxFaults /\ faults' = faults + 1
    /\ cmd' = Idle
    /\ UNCHANGED <<files, backup, artifacts, last, edits, history>>

Overwrite(p, c) ==
    /\ c # files[p] /\ files' = [files EXCEPT ![p] = c]
    /\ late' = late \cup {p}
    /\ harmed' = IF cmd.op = "materialize" \/ backup[p] # files[p] THEN harmed \cup {p} ELSE harmed
    /\ UNCHANGED <<backup, artifacts, cmd, last, faults, granted, undo, misread>>

EditFile(p) ==
    /\ edits < MaxEdits /\ edits' = edits + 1
    /\ \E c \in {Edited, Missing} : Overwrite(p, c)

\* An edit is taken back: the file is again what it was when the apply began.
TakeBack(p) ==
    /\ p \in DOMAIN undo \cap late
    /\ Overwrite(p, undo[p])
    /\ UNCHANGED edits

DamageBackup(p) ==
    /\ edits < MaxEdits /\ edits' = edits + 1
    /\ backup[p] \notin {Missing, Edited}
    /\ backup' = [backup EXCEPT ![p] = Edited]
    /\ harmed' = harmed \cup {p}
    /\ UNCHANGED <<files, artifacts, cmd, last, faults, granted, undo, late, misread>>

EditProposal ==
    /\ edits < MaxEdits /\ edits' = edits + 1
    /\ proposal' \in Proposals \ {proposal}
    /\ UNCHANGED <<files, backup, policy, approval, plan, result, preview, cmd, last,
                   faults, history>>

EditPolicy ==
    /\ edits < MaxEdits /\ edits' = edits + 1
    /\ policy' \in Policies \ {policy}
    /\ UNCHANGED <<files, backup, proposal, approval, plan, result, preview, cmd, last,
                   faults, history>>

MemoryNext ==
    \/ \E d \in {"approved", "rejected"} : Approve(d)
    \/ BuildBackupPlan \/ BuildRestorePreview
    \/ MaterializeStart \/ CopyItem \/ CopyFails \/ MaterializeDone
    \/ ApplyStart \/ StageApply \/ ValidateTargets \/ ApplyRefused
    \/ RenameItem \/ RenameFails \/ HashFails \/ ApplyDone
    \/ RestoreStart \/ RestoreItem \/ RestoreFails \/ RestoreDone
    \/ Dies
    \/ \E p \in Paths : EditFile(p) \/ TakeBack(p) \/ DamageBackup(p)
    \/ EditProposal \/ EditPolicy

MemorySpec == MemoryInit /\ [][MemoryNext]_vars

-----------------------------------------------------------------------------
(* Properties                                                              *)

\* Every variable has its type, and a plan names every file once: apply and restore refuse
\* one that does not.
MemoryTypeOK ==
    /\ files \in [Paths -> Content] /\ backup \in [Paths -> Content]
    /\ proposal \in Proposals /\ policy \in Policies
    /\ approval.id \in 0..MaxApprovals
    /\ \A a \in {plan, result, preview} :
        a.approval \in 0..MaxApprovals /\ a.items \in Seq(Item)
    /\ Distinct(plan.items)
    /\ cmd.op \in {"idle", "materialize", "apply", "restore"}
    /\ cmd.i \in 1..(Len(cmd.items) + Len(cmd.actions) + 1)
    /\ cmd.items \in Seq(Item) /\ cmd.actions \in Seq(Action)
    /\ edits \in 0..MaxEdits /\ faults \in 0..MaxFaults
    /\ granted \subseteq Proposals
    /\ late \subseteq Paths /\ misread \subseteq Paths /\ harmed \subseteq Paths

\* What an apply carries out is, word for word, a proposal that an approval approved: a
\* proposal that was edited after its approval is refused, whatever plan there is for it.
ApprovedOnly ==
    cmd.op = "apply" => \E p \in granted : cmd.actions = p.patches

\* From the moment an apply begins, what each of its files held is in the file or in the
\* backup, through failed renames, deaths, restores that stop half way and materializing
\* again - unless somebody else damages the backup or edits the file during the copy.
NeverLost ==
    \A p \in DOMAIN undo \ harmed : undo[p] # Missing => undo[p] \in {files[p], backup[p]}

\* After an apply began, in whatever state it left the files, nothing but a damaged or
\* truncated backup makes restore refuse the plan and the result it was run with; and one
\* that reports its end has brought every file back to what it was before the apply, also
\* when the apply or an earlier restore had stopped in the middle.
RestoreUndoesApply ==
    /\ DOMAIN undo # {} /\ harmed = {} /\ (\A p \in Paths : backup[p] # CutShort)
         => RestoreReady
    /\ last.op = "restore" => \A p \in DOMAIN undo \ late : files[p] = undo[p]

\* The files after the first n actions, each carried out on what the one before it left.
InTurn(before, actions, n) ==
    LET After[k \in 0..n] ==
            IF k = 0 THEN before
            ELSE LET a == actions[k]
                     fs == After[k - 1]
                 IN  IF a.op = "append" /\ fs[a.target] # Missing
                     THEN [fs EXCEPT ![a.target] = Append(@, a.text)]
                     ELSE Renamed(fs, a, <<a.text>>)
    IN After[n]

\* Paths whose content an outsider has a part in: edited since they were checked, moved from
\* or to such a one, or read by an append while an edit was there that was then taken back.
Disturbed(actions) ==
    late \cup misread \cup UNION {Written(a) : a \in {x \in Elements(actions) : Written(x) \cap late # {}}}

OneActionPerFile(actions) ==
    \A k, l \in DOMAIN actions : Written(actions[k]) \cap Written(actions[l]) # {} => k = l

\* The reported outcome of an apply says which files changed: none if it failed, those of
\* its first actions if it failed in part, all if it succeeded.
ReportIsTrue ==
    last.op = "apply" =>
        /\ last.status = "failed" <=> last.items = 0
        /\ last.status = "succeeded" => last.items = Len(last.actions)
        /\ OneActionPerFile(last.actions) =>
            \A p \in DOMAIN undo \ Disturbed(last.actions) : files[p] = InTurn(undo, last.actions, last.items)[p]

\* An apply replaces only contents that the approved plan has seen, or that it has put there
\* itself; an edit made before the targets were validated is never overwritten.
NoBlindOverwrite ==
    [][cmd.op = "apply" /\ cmd' # cmd =>
        \A p \in Paths : files'[p] # files[p] =>
            p \in late \cup Touched(cmd.done) \/ (p \in DOMAIN undo /\ files[p] = undo[p])]_vars

\* A succeeded apply has done what its dry run said, action after action: an append adds its
\* content to the current target content (apply.go:180, docs/MEMORY_PROPOSALS.md).
SucceededAsApproved ==
    last.op = "apply" /\ last.status = "succeeded" =>
        \A p \in DOMAIN undo \ Disturbed(last.actions) : files[p] = InTurn(undo, last.actions, last.items)[p]

====
