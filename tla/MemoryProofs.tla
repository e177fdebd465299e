---- MODULE MemoryProofs ----
(***************************************************************************)
(* Proofs about MemoryApply, for any memory files, proposals and policies, *)
(* and any number of approvals, edits and faults: what an apply carries    *)
(* out was approved, what a file held before the apply is not lost, the    *)
(* apply overwrites only what its plan has seen, a restore takes it back,  *)
(* and what an apply reports is what it did.                               *)
(***************************************************************************)
EXTENDS MemoryApply, WellFoundedInduction, TLAPS

-----------------------------------------------------------------------------
(* Shapes: what an EXCEPT needs to know of its argument.                    *)

Fields == {"op", "at", "i", "approval", "actions", "items", "done", "temps"}
ItemFields == {"path", "op", "sha", "copied"}

\* The ways in which one begins, and its end.
LEMMA IdleShape == Idle = [x \in Fields |-> Idle[x]] /\ Idle.op = "idle"
BY DEF Idle, Fields

LEMMA ApplyBegins ==
  ASSUME ApplyStart
  PROVE  /\ cmd' = [x \in Fields |-> cmd'[x]]
         /\ cmd'.op = "apply" /\ cmd'.at = "stage" /\ cmd'.items = plan.items
         /\ cmd'.actions = proposal.patches /\ cmd'.done = <<>>
BY DEF ApplyStart, Idle, Fields

-----------------------------------------------------------------------------
(* Only what was approved.  An approval that says "approved" names a        *)
(* proposal that was approved, and an apply takes its actions from the      *)
(* proposal its preflight compared with the approval.                       *)

ApprovalInv ==
  /\ cmd = [x \in Fields |-> cmd[x]]
  /\ proposal \in Proposals /\ granted \subseteq Proposals
  /\ approval.decision = "approved" => approval.proposal \in granted
  /\ ApprovedOnly

\* Actions that leave the proposals, the approval and the actions of the command alone.
LEMMA ApprovalKept ==
  ASSUME ApprovalInv, UNCHANGED <<proposal, approval, granted>>,
         cmd' = [x \in Fields |-> cmd'[x]],
         cmd'.op = "apply" => cmd.op = "apply" /\ cmd'.actions = cmd.actions
  PROVE  ApprovalInv'
BY DEF ApprovalInv, ApprovedOnly

LEMMA ApprovalInit == MemoryInit => ApprovalInv
<1> SUFFICES ASSUME MemoryInit PROVE ApprovalInv
  OBVIOUS
<1>1. cmd = [x \in Fields |-> cmd[x]] /\ cmd.op = "idle"
  BY IdleShape DEF MemoryInit
<1>2. approval.decision = "rejected"
  BY DEF MemoryInit, NoApproval
<1>3. proposal \in Proposals /\ granted \subseteq Proposals
  BY DEF MemoryInit
<1> QED
  BY <1>1, <1>2, <1>3 DEF ApprovalInv, ApprovedOnly

\* What every step does to the command: it goes on, ends, or begins.
LEMMA CommandStep ==
  ASSUME cmd = [x \in Fields |-> cmd[x]], MemoryNext
  PROVE  /\ cmd' = [x \in Fields |-> cmd'[x]]
         /\ cmd'.op = "apply" => \/ cmd.op = "apply" /\ cmd'.actions = cmd.actions
                                 \/ ApplyStart
<1>1. CASE \E d \in {"approved", "rejected"} : Approve(d)
  BY <1>1 DEF Approve
<1>2. CASE BuildBackupPlan \/ BuildRestorePreview
  BY <1>2 DEF BuildBackupPlan, BuildRestorePreview
<1>3. CASE MaterializeStart
  <2>1. cmd' = [Idle EXCEPT !.op = "materialize", !.approval = plan.approval, !.items = plan.items]
    BY <1>3 DEF MaterializeStart
  <2> QED
    BY <2>1 DEF Idle, Fields
<1>4. CASE CopyItem
  <2>1. CASE cmd' = [cmd EXCEPT !.i = cmd.i + 1, !.done = Append(cmd.done, cmd.items[cmd.i])]
    BY <2>1 DEF Fields
  <2>2. CASE cmd' = [cmd EXCEPT !.i = cmd.i + 1,
                      !.done = Append(cmd.done, [cmd.items[cmd.i] EXCEPT !.copied = files[cmd.items[cmd.i].path]])]
    BY <2>2 DEF Fields
  <2> QED
    BY <1>4, <2>1, <2>2 DEF CopyItem
<1>5. CASE CopyFails \/ MaterializeDone \/ ApplyRefused \/ RenameFails \/ HashFails \/ ApplyDone
           \/ RestoreFails \/ RestoreDone \/ Dies
  <2>1. cmd' = Idle
    BY <1>5 DEF CopyFails, MaterializeDone, ApplyRefused, RenameFails, HashFails, ApplyDone,
                RestoreFails, RestoreDone, Dies
  <2> QED
    BY <2>1, IdleShape
<1>6. CASE ApplyStart
  BY <1>6, ApplyBegins
<1>7. CASE StageApply
  <2>1. cmd' = [cmd EXCEPT !.at = "validate", !.temps = [k \in DOMAIN cmd.actions |-> Temp(cmd.actions[k])]]
    BY <1>7 DEF StageApply
  <2> QED
    BY <2>1 DEF Fields
<1>8. CASE ValidateTargets
  <2>1. cmd' = [cmd EXCEPT !.at = "rename"]
    BY <1>8 DEF ValidateTargets
  <2> QED
    BY <2>1 DEF Fields
<1>9. CASE RenameItem
  <2>1. cmd' = [cmd EXCEPT !.i = cmd.i + 1, !.done = Append(cmd.done, cmd.actions[cmd.i])]
    BY <1>9 DEF RenameItem
  <2> QED
    BY <2>1 DEF Fields
<1>10. CASE RestoreStart
  <2>1. cmd' = [Idle EXCEPT !.op = "restore", !.approval = plan.approval, !.items = preview.items]
    BY <1>10 DEF RestoreStart
  <2> QED
    BY <2>1 DEF Idle, Fields
<1>11. CASE RestoreItem
  <2>1. cmd' = [cmd EXCEPT !.i = cmd.i + 1, !.done = Append(cmd.done, cmd.items[cmd.i])]
    BY <1>11 DEF RestoreItem
  <2> QED
    BY <2>1 DEF Fields
<1>12. CASE (\E p \in Paths : EditFile(p) \/ TakeBack(p) \/ DamageBackup(p)) \/ EditProposal \/ EditPolicy
  BY <1>12 DEF EditFile, TakeBack, Overwrite, DamageBackup, EditProposal, EditPolicy, artifacts
<1> QED
  BY <1>1, <1>2, <1>3, <1>4, <1>5, <1>6, <1>7, <1>8, <1>9, <1>10, <1>11, <1>12 DEF MemoryNext

LEMMA ApprovalNext == ApprovalInv /\ [MemoryNext]_vars => ApprovalInv'
<1> SUFFICES ASSUME ApprovalInv, [MemoryNext]_vars PROVE ApprovalInv'
  OBVIOUS
<1>1. CASE UNCHANGED vars
  BY <1>1, ApprovalKept DEF vars, artifacts, history, ApprovalInv
<1>2. CASE MemoryNext
  <2>1. /\ cmd' = [x \in Fields |-> cmd'[x]]
        /\ cmd'.op = "apply" => (cmd.op = "apply" /\ cmd'.actions = cmd.actions) \/ ApplyStart
    BY <1>2, CommandStep DEF ApprovalInv
  <2>2. CASE \E d \in {"approved", "rejected"} : Approve(d)
    <3>1. PICK d \in {"approved", "rejected"} : Approve(d)
      BY <2>2
    <3>2. approval'.decision = d /\ approval'.proposal = proposal
      BY <3>1 DEF Approve
    <3>3. granted' = IF d = "approved" THEN granted \cup {proposal} ELSE granted
      BY <3>1 DEF Approve
    <3>4. cmd' = cmd /\ proposal' = proposal
      BY <3>1 DEF Approve
    <3> QED
      BY <3>2, <3>3, <3>4 DEF ApprovalInv, ApprovedOnly
  <2>3. CASE ApplyStart
    <3>1. cmd'.actions = proposal.patches
      BY <2>3, ApplyBegins
    <3>2. proposal \in granted
      BY <2>3 DEF ApplyStart, ApplyReady, PreflightOK, ApprovalInv
    <3>3. UNCHANGED <<proposal, approval, granted>>
      BY <2>3 DEF ApplyStart, artifacts
    <3> QED
      BY <2>1, <3>1, <3>2, <3>3 DEF ApprovalInv, ApprovedOnly
  <2>4. CASE EditProposal
    BY <2>1, <2>4 DEF EditProposal, ApprovalInv, ApprovedOnly, history, ApplyStart, Idle
  <2>5. CASE ~(\E d \in {"approved", "rejected"} : Approve(d)) /\ ~ApplyStart /\ ~EditProposal
    <3>1. UNCHANGED <<proposal, approval, granted>>
      BY <1>2, <2>5
         DEF MemoryNext, BuildBackupPlan, BuildRestorePreview, MaterializeStart, CopyItem,
             CopyFails, MaterializeDone, StageApply, ValidateTargets, ApplyRefused, RenameItem,
             RenameFails, HashFails, ApplyDone, RestoreStart, RestoreItem, RestoreFails,
             RestoreDone, Dies, EditFile, TakeBack, Overwrite, DamageBackup, EditPolicy, artifacts, history
    <3> QED
      BY <2>1, <2>5, <3>1, ApprovalKept
  <2> QED
    BY <2>2, <2>3, <2>4, <2>5
<1> QED
  BY <1>1, <1>2

\* What an apply carries out is a proposal that was approved as it is, whatever was edited
\* between the commands.
THEOREM ApprovedOnlyHolds == MemorySpec => []ApprovedOnly
<1>1. ApprovalInv => ApprovedOnly
  BY DEF ApprovalInv
<1> QED
  BY <1>1, ApprovalInit, ApprovalNext, PTL DEF MemorySpec

-----------------------------------------------------------------------------
(* Nothing is lost.  Of a file of the plan at least one of two copies is    *)
(* the content the apply started from, and each command keeps the one it    *)
(* does not write: apply writes files and keeps backups, materialize writes *)
(* backups of files it has found unchanged, and restore writes only files   *)
(* whose backup it has compared with the result the apply was run with.     *)

IsItem(it) == it = [x \in ItemFields |-> it[x]]

ShapesOK ==
  /\ files = [p \in Paths |-> files[p]] /\ backup = [p \in Paths |-> backup[p]]
  /\ cmd = [x \in Fields |-> cmd[x]]
  /\ \A k \in DOMAIN plan.items : IsItem(plan.items[k])
  /\ DOMAIN undo \subseteq Paths

\* What plan, result and restore preview say of the files of the last apply.
PlanSays(p) ==
  /\ \E k \in DOMAIN plan.items : plan.items[k].path = p
  /\ \A k \in DOMAIN plan.items : plan.items[k].path = p => plan.items[k].sha = undo[p]
ResultSays(p) ==
  \A k \in DOMAIN result.items :
    result.items[k].path = p /\ undo[p] # Missing => result.items[k].copied = undo[p]
RestoreSays(p) ==
  \A k \in DOMAIN cmd.items :
    cmd.items[k].path = p /\ undo[p] # Missing =>
      cmd.items[k].sha = undo[p] /\ cmd.items[k].copied = undo[p]

\* Which of the two copies holds under which command.
CopiesHold(p) ==
  undo[p] # Missing =>
    /\ undo[p] \in {files[p], backup[p]}
    /\ cmd.op = "apply" => backup[p] = undo[p]
    /\ cmd.op = "materialize" => files[p] = undo[p]

LostInv ==
  /\ ShapesOK
  /\ \A p \in DOMAIN undo :
       /\ PlanSays(p) /\ ResultSays(p)
       /\ cmd.op = "restore" => RestoreSays(p)
  /\ \A p \in DOMAIN undo \ harmed : CopiesHold(p)

LEMMA LostInit == MemoryInit => LostInv
<1> SUFFICES ASSUME MemoryInit PROVE LostInv
  OBVIOUS
<1>1. DOMAIN undo = {}
  BY DEF MemoryInit
<1>2. files = [p \in Paths |-> files[p]] /\ backup = [p \in Paths |-> backup[p]]
  BY MemoryAssumption DEF MemoryInit
<1>3. cmd = [x \in Fields |-> cmd[x]]
  BY IdleShape DEF MemoryInit
<1>4. DOMAIN plan.items = {}
  BY DEF MemoryInit
<1> QED
  BY <1>1, <1>2, <1>3, <1>4 DEF LostInv, ShapesOK

\* The items of a new plan have their shape.
LEMMA PlanItems ==
  ASSUME NEW p, NEW fs, NEW k \in DOMAIN PlanFor(p, fs)
  PROVE  IsItem(PlanFor(p, fs)[k])
BY DEF PlanFor, IsItem, ItemFields

LEMMA ShapesNext == ShapesOK /\ [MemoryNext]_vars => ShapesOK'
<1> SUFFICES ASSUME ShapesOK, [MemoryNext]_vars PROVE ShapesOK'
  OBVIOUS
<1> USE DEF ShapesOK
<1>1. CASE UNCHANGED vars
  BY <1>1 DEF vars, artifacts, history
<1>2. CASE MemoryNext
  <2>1. cmd' = [x \in Fields |-> cmd'[x]]
    BY <1>2, CommandStep
  <2>2. files' = [p \in Paths |-> files'[p]]
    <3>1. CASE RenameItem
      BY <3>1 DEF RenameItem, Renamed
    <3>2. CASE ~RenameItem
      <4>1. files' = files \/ \E f, v : files' = [files EXCEPT ![f] = v]
        BY <1>2, <3>2
           DEF MemoryNext, Approve, BuildBackupPlan, BuildRestorePreview, MaterializeStart,
               CopyItem, CopyFails, MaterializeDone, ApplyStart, StageApply, ValidateTargets,
               ApplyRefused, RenameFails, HashFails, ApplyDone, RestoreStart, RestoreItem,
               RestoreFails, RestoreDone, Dies, EditFile, TakeBack, Overwrite, DamageBackup, EditProposal,
               EditPolicy
      <4> QED
        BY <4>1
    <3> QED
      BY <3>1, <3>2
  <2>3. backup' = [p \in Paths |-> backup'[p]]
    <3>1. backup' = backup \/ (\E f, v : backup' = [backup EXCEPT ![f] = v])
      BY <1>2
         DEF MemoryNext, Approve, BuildBackupPlan, BuildRestorePreview, MaterializeStart,
             CopyItem, CopyFails, MaterializeDone, ApplyStart, StageApply, ValidateTargets,
             ApplyRefused, RenameItem, RenameFails, HashFails, ApplyDone, RestoreStart,
             RestoreItem, RestoreFails, RestoreDone, Dies, EditFile, TakeBack, Overwrite, DamageBackup,
             EditProposal, EditPolicy
    <3> QED
      BY <3>1
  <2>4. \A k \in DOMAIN plan'.items : IsItem(plan'.items[k])
    <3>1. CASE BuildBackupPlan
      <4>1. plan'.items = PlanFor(proposal, files)
        BY <3>1 DEF BuildBackupPlan
      <4> QED
        BY <4>1, PlanItems
    <3>2. CASE ~BuildBackupPlan
      <4>1. plan' = plan
        BY <1>2, <3>2
           DEF MemoryNext, Approve, BuildRestorePreview, MaterializeStart,
               CopyItem, CopyFails, MaterializeDone, ApplyStart, StageApply, ValidateTargets,
               ApplyRefused, RenameItem, RenameFails, HashFails, ApplyDone, RestoreStart,
               RestoreItem, RestoreFails, RestoreDone, Dies, EditFile, TakeBack, Overwrite, DamageBackup,
               EditProposal, EditPolicy, artifacts
      <4> QED
        BY <4>1
    <3> QED
      BY <3>1, <3>2
  <2>5. DOMAIN undo' \subseteq Paths
    <3>1. CASE ApplyStart
      BY <3>1 DEF ApplyStart, PathsOf
    <3>2. CASE ~ApplyStart
      <4>1. undo' = undo \/ undo' = << >>
        BY <1>2, <3>2
           DEF MemoryNext, Approve, BuildBackupPlan, BuildRestorePreview, MaterializeStart,
               CopyItem, CopyFails, MaterializeDone, StageApply, ValidateTargets,
               ApplyRefused, RenameItem, RenameFails, HashFails, ApplyDone, RestoreStart,
               RestoreItem, RestoreFails, RestoreDone, Dies, EditFile, TakeBack, Overwrite, DamageBackup,
               EditProposal, EditPolicy, history
      <4> QED
        BY <4>1
    <3> QED
      BY <3>1, <3>2
  <2> QED
    BY <2>1, <2>2, <2>3, <2>4, <2>5
<1> QED
  BY <1>1, <1>2

\* An apply begins with every copy in place: the plan holds, and the result covers it.
LEMMA LostApply == LostInv /\ ApplyStart => LostInv'
<1> SUFFICES ASSUME LostInv, ApplyStart PROVE LostInv'
  OBVIOUS
<1>1. ShapesOK'
  BY ShapesNext DEF LostInv, MemoryNext
<1>2. /\ undo' = [p \in PathsOf(plan.items) |-> Planned(p)]
      /\ UNCHANGED <<files, backup, plan, result>>
  BY DEF ApplyStart, artifacts
<1>3. cmd'.op = "apply"
  BY ApplyBegins
<1>4. PlanHolds /\ ResultCovers
  BY DEF ApplyStart, ApplyReady
<1>5. ASSUME NEW p \in DOMAIN undo'
      PROVE  (PlanSays(p) /\ ResultSays(p) /\ CopiesHold(p))'
  <2>1. PICK k \in DOMAIN plan.items : plan.items[k].path = p
    BY <1>2 DEF PathsOf
  <2> DEFINE it == plan.items[k]
  <2>2. Planned(p) = it.sha
    <3>1. it \in Elements(plan.items) /\ it.path = p
      BY <2>1 DEF Elements
    <3>2. ASSUME NEW x \in Elements(plan.items), x.path = p PROVE x = it
      BY <1>4, <2>1, <3>2 DEF Elements, PlanHolds, Distinct
    <3> QED
      BY <3>1, <3>2 DEF Planned
  <2>3. undo'[p] = it.sha
    BY <1>2, <2>2
  <2>4. \A l \in DOMAIN plan.items : plan.items[l].path = p => plan.items[l].sha = undo'[p]
    BY <1>4, <2>1, <2>3 DEF PlanHolds, Distinct
  <2>5. files[p] = it.sha
    BY <1>4, <2>1 DEF PlanHolds, Elements
  <2>6. ASSUME NEW l \in DOMAIN result.items, result.items[l].path = p
        PROVE  Covers(it, result.items[l])
    BY <1>4, <2>1, <2>6 DEF ResultCovers, Elements
  <2>7. it.sha # Missing => backup[p] = it.sha
    <3>1. PICK l \in DOMAIN result.items : result.items[l].path = p
      BY <1>2, <1>4 DEF ResultCovers, PathsOf
    <3> QED
      BY <2>1, <2>6, <3>1 DEF Covers
  <2>8. PlanSays(p)'
    BY <1>2, <2>1, <2>4 DEF PlanSays
  <2>9. ResultSays(p)'
    BY <1>2, <2>3, <2>6 DEF ResultSays, Covers
  <2>10. CopiesHold(p)'
    BY <1>2, <1>3, <2>3, <2>5, <2>7 DEF CopiesHold
  <2> QED
    BY <2>8, <2>9, <2>10
<1> QED
  BY <1>1, <1>3, <1>5 DEF LostInv

\* Commands that write neither files nor backups, and go on as they are or end.
LEMMA LostKept ==
  ASSUME LostInv, ShapesOK', UNCHANGED <<files, backup, plan, result, undo, harmed>>,
         cmd'.op = "apply" => cmd.op = "apply",
         cmd'.op = "materialize" => cmd.op = "materialize",
         cmd'.op = "restore" => cmd.op = "restore" /\ cmd'.items = cmd.items
  PROVE  LostInv'
<1>1. ASSUME NEW p \in DOMAIN undo
      PROVE  /\ PlanSays(p)' /\ ResultSays(p)'
             /\ cmd'.op = "restore" => RestoreSays(p)'
             /\ p \notin harmed => CopiesHold(p)'
  BY DEF LostInv, PlanSays, ResultSays, RestoreSays, CopiesHold
<1> QED
  BY <1>1 DEF LostInv

LEMMA LostQuiet ==
  ASSUME LostInv, ShapesOK',
         \/ \E d \in {"approved", "rejected"} : Approve(d)
         \/ BuildRestorePreview \/ StageApply \/ ValidateTargets \/ ApplyRefused
         \/ RenameFails \/ HashFails \/ ApplyDone \/ RestoreFails \/ RestoreDone \/ Dies
         \/ EditProposal \/ EditPolicy
  PROVE  LostInv'
<1>1. UNCHANGED <<files, backup, plan, result, undo, harmed>>
  BY DEF Approve, BuildRestorePreview, StageApply, ValidateTargets, ApplyRefused, RenameFails,
         HashFails, ApplyDone, RestoreFails, RestoreDone, Dies, EditProposal, EditPolicy,
         artifacts, history
<1>2. CASE cmd' = cmd
  BY <1>1, <1>2, LostKept
<1>3. CASE cmd' = Idle
  BY <1>1, <1>3, IdleShape, LostKept
<1>4. CASE StageApply
  <2>1. cmd'.op = "apply"
    BY <1>4 DEF StageApply, LostInv, ShapesOK, Fields
  <2> QED
    BY <1>1, <1>4, <2>1, LostKept DEF StageApply
<1>5. CASE ValidateTargets
  <2>1. cmd'.op = "apply"
    BY <1>5 DEF ValidateTargets, LostInv, ShapesOK, Fields
  <2> QED
    BY <1>1, <1>5, <2>1, LostKept DEF ValidateTargets
<1> QED
  BY <1>2, <1>3, <1>4, <1>5
     DEF Approve, BuildRestorePreview, ApplyRefused, RenameFails, HashFails, ApplyDone,
         RestoreFails, RestoreDone, Dies, EditProposal, EditPolicy, artifacts

\* Nothing is promised any more about an older apply.
LEMMA LostForgotten ==
  ASSUME ShapesOK', undo' = << >>
  PROVE  LostInv'
BY DEF LostInv

LEMMA LostMaterializeStart == LostInv /\ ShapesOK' /\ MaterializeStart => LostInv'
<1> SUFFICES ASSUME LostInv, ShapesOK', MaterializeStart PROVE LostInv'
  OBVIOUS
<1>1. UNCHANGED <<files, backup, plan, result, undo, harmed>>
  BY DEF MaterializeStart, artifacts, history
<1>2. cmd'.op = "materialize"
  BY DEF MaterializeStart, Idle
<1>3. ASSUME NEW p \in DOMAIN undo
      PROVE  PlanSays(p)' /\ ResultSays(p)' /\ (p \notin harmed => CopiesHold(p)')
  <2>1. PlanSays(p)' /\ ResultSays(p)'
    BY <1>1 DEF LostInv, PlanSays, ResultSays
  <2>2. undo[p] # Missing => files[p] = undo[p]
    <3>1. PICK k \in DOMAIN plan.items : plan.items[k].path = p /\ plan.items[k].sha = undo[p]
      BY DEF LostInv, PlanSays
    <3> QED
      BY <3>1 DEF MaterializeStart, Elements
  <2> QED
    BY <1>1, <1>2, <2>1, <2>2 DEF LostInv, CopiesHold
<1> QED
  BY <1>1, <1>2, <1>3 DEF LostInv

\* A copy writes what the file held when the apply began, if it writes at all.
LEMMA LostCopy == LostInv /\ ShapesOK' /\ (CopyItem \/ CopyFails) => LostInv'
<1> SUFFICES ASSUME LostInv, ShapesOK', CopyItem \/ CopyFails PROVE LostInv'
  OBVIOUS
<1>1. UNCHANGED <<files, plan, result, undo, harmed>>
  BY DEF CopyItem, CopyFails, artifacts, history
<1>2. cmd.op = "materialize" /\ cmd'.op \in {"materialize", "idle"}
  <2>1. CASE CopyItem
    BY <2>1 DEF CopyItem, LostInv, ShapesOK, Fields
  <2>2. CASE CopyFails
    BY <2>2, IdleShape DEF CopyFails
  <2> QED
    BY <2>1, <2>2
<1>3. ASSUME NEW p \in DOMAIN undo
      PROVE  PlanSays(p)' /\ ResultSays(p)' /\ (p \notin harmed => CopiesHold(p)')
  <2>1. PlanSays(p)' /\ ResultSays(p)'
    BY <1>1 DEF LostInv, PlanSays, ResultSays
  <2>2. p \notin harmed /\ undo[p] # Missing => files[p] = undo[p]
    BY <1>2 DEF LostInv, CopiesHold
  <2> QED
    BY <1>1, <1>2, <2>1, <2>2 DEF CopiesHold
<1> QED
  BY <1>1, <1>2, <1>3 DEF LostInv

\* A rename leaves the backups alone, and under an apply they all hold.
LEMMA LostRename == LostInv /\ ShapesOK' /\ RenameItem => LostInv'
<1> SUFFICES ASSUME LostInv, ShapesOK', RenameItem PROVE LostInv'
  OBVIOUS
<1>1. UNCHANGED <<backup, plan, result, undo, harmed>> /\ cmd.op = "apply"
  BY DEF RenameItem, artifacts, history
<1>2. cmd'.op = "apply"
  BY DEF RenameItem, LostInv, ShapesOK, Fields
<1>3. ASSUME NEW p \in DOMAIN undo
      PROVE  PlanSays(p)' /\ ResultSays(p)' /\ (p \notin harmed => CopiesHold(p)')
  BY <1>1, <1>2 DEF LostInv, PlanSays, ResultSays, CopiesHold
<1> QED
  BY <1>1, <1>2, <1>3 DEF LostInv

\* A restore goes by the preview made from this plan and this result.
LEMMA LostRestoreStart == LostInv /\ ShapesOK' /\ RestoreStart => LostInv'
<1> SUFFICES ASSUME LostInv, ShapesOK', RestoreStart PROVE LostInv'
  OBVIOUS
<1>1. UNCHANGED <<files, backup, plan, result, undo, harmed>>
  BY DEF RestoreStart, artifacts
<1>2. cmd'.op = "restore" /\ cmd'.items = RestorePreview.items
  BY DEF RestoreStart, Idle
<1>3. ASSUME NEW p \in DOMAIN undo
      PROVE  /\ PlanSays(p)' /\ ResultSays(p)' /\ RestoreSays(p)'
             /\ p \notin harmed => CopiesHold(p)'
  <2>1. PlanSays(p)' /\ ResultSays(p)' /\ (p \notin harmed => CopiesHold(p)')
    BY <1>1, <1>2 DEF LostInv, PlanSays, ResultSays, CopiesHold
  <2>2. ASSUME NEW k \in DOMAIN cmd'.items, cmd'.items[k].path = p, undo[p] # Missing
        PROVE  cmd'.items[k].sha = undo[p] /\ cmd'.items[k].copied = undo[p]
    <3> DEFINE it == plan.items[k]
               res == CHOOSE x \in Elements(result.items) : x.path = it.path
    <3>1. k \in DOMAIN plan.items /\ cmd'.items[k] = [it EXCEPT !.copied = res.copied]
      BY <1>2, <2>2 DEF RestorePreview
    <3>2. cmd'.items[k].path = it.path /\ cmd'.items[k].sha = it.sha
          /\ cmd'.items[k].copied = res.copied
      BY <3>1 DEF LostInv, ShapesOK, IsItem, ItemFields
    <3>3. it.path = p /\ it.sha = undo[p]
      BY <2>2, <3>1, <3>2 DEF LostInv, PlanSays
    <3>4. res \in Elements(result.items) /\ res.path = it.path
      <4>1. \E x \in Elements(result.items) : x.path = it.path
        BY <3>1 DEF RestoreStart, RestoreReady, Elements
      <4> QED
        BY <4>1
    <3>5. res.copied = undo[p]
      BY <2>2, <3>3, <3>4 DEF LostInv, ResultSays, Elements
    <3> QED
      BY <3>2, <3>3, <3>5
  <2> QED
    BY <1>1, <2>1, <2>2 DEF RestoreSays
<1> QED
  BY <1>1, <1>2, <1>3 DEF LostInv

LEMMA LostRestoreItem == LostInv /\ ShapesOK' /\ RestoreItem => LostInv'
<1> SUFFICES ASSUME LostInv, ShapesOK', RestoreItem PROVE LostInv'
  OBVIOUS
<1>1. UNCHANGED <<backup, plan, result, undo, harmed>> /\ cmd.op = "restore"
  BY DEF RestoreItem, artifacts, history
<1>2. cmd'.op = "restore" /\ cmd'.items = cmd.items
  BY DEF RestoreItem, LostInv, ShapesOK, Fields
<1> DEFINE it == cmd.items[cmd.i]
<1>3. /\ cmd.i \in DOMAIN cmd.items
      /\ it.sha # Missing => backup[it.path] = it.copied
      /\ files' = [files EXCEPT ![it.path] = IF it.sha # Missing THEN backup[it.path] ELSE Missing]
  BY DEF RestoreItem
<1>4. ASSUME NEW p \in DOMAIN undo
      PROVE  /\ PlanSays(p)' /\ ResultSays(p)' /\ RestoreSays(p)'
             /\ p \notin harmed => CopiesHold(p)'
  <2>1. PlanSays(p)' /\ ResultSays(p)' /\ RestoreSays(p)'
    BY <1>1, <1>2 DEF LostInv, PlanSays, ResultSays, RestoreSays
  <2>2. p \in Paths
    BY DEF LostInv, ShapesOK
  <2>3. CASE p # it.path
    <3>1. files'[p] = files[p]
      BY <1>3, <2>2, <2>3 DEF LostInv, ShapesOK
    <3> QED
      BY <1>1, <1>2, <2>1, <3>1 DEF LostInv, CopiesHold
  <2>4. CASE p = it.path /\ undo[p] # Missing
    <3>1. it.sha = undo[p] /\ it.copied = undo[p]
      BY <1>1, <1>3, <2>4 DEF LostInv, RestoreSays
    <3>2. backup[p] = undo[p]
      BY <1>3, <2>4, <3>1
    <3> QED
      BY <1>1, <1>2, <2>1, <3>2 DEF CopiesHold
  <2> QED
    BY <1>1, <2>1, <2>3, <2>4 DEF CopiesHold
<1> QED
  BY <1>1, <1>2, <1>4 DEF LostInv

\* An edit either leaves a backup that equals the old content, or counts as harm.
LEMMA LostEdit ==
  ASSUME LostInv, ShapesOK', NEW f \in Paths, EditFile(f) \/ TakeBack(f) \/ DamageBackup(f)
  PROVE  LostInv'
<1>1. UNCHANGED <<plan, result, undo, cmd>> /\ harmed \subseteq harmed'
  BY DEF EditFile, TakeBack, Overwrite, DamageBackup, artifacts
<1>2. ASSUME NEW p \in DOMAIN undo
      PROVE  /\ PlanSays(p)' /\ ResultSays(p)'
             /\ cmd'.op = "restore" => RestoreSays(p)'
             /\ p \notin harmed' => CopiesHold(p)'
  <2>1. PlanSays(p)' /\ ResultSays(p)' /\ (cmd'.op = "restore" => RestoreSays(p)')
    BY <1>1 DEF LostInv, PlanSays, ResultSays, RestoreSays
  <2>2. p \in Paths
    BY DEF LostInv, ShapesOK
  <2>3. CASE p # f
    <3>1. files'[p] = files[p] /\ backup'[p] = backup[p]
      BY <2>2, <2>3 DEF LostInv, ShapesOK, EditFile, TakeBack, Overwrite, DamageBackup
    <3> QED
      BY <1>1, <2>1, <3>1 DEF LostInv, CopiesHold
  <2>4. CASE p = f /\ p \notin harmed'
    <3>1. backup' = backup /\ cmd.op # "materialize" /\ backup[p] = files[p]
      BY <2>4 DEF EditFile, TakeBack, Overwrite, DamageBackup
    <3> QED
      BY <1>1, <2>1, <2>4, <3>1 DEF LostInv, CopiesHold
  <2> QED
    BY <2>1, <2>3, <2>4
<1> QED
  BY <1>1, <1>2 DEF LostInv

LEMMA LostNext == LostInv /\ [MemoryNext]_vars => LostInv'
<1> SUFFICES ASSUME LostInv, [MemoryNext]_vars PROVE LostInv'
  OBVIOUS
<1>1. ShapesOK'
  BY ShapesNext DEF LostInv
<1>2. CASE UNCHANGED vars
  BY <1>1, <1>2, LostKept DEF vars, artifacts, history
<1>3. CASE BuildBackupPlan \/ MaterializeDone
  BY <1>1, <1>3, LostForgotten DEF BuildBackupPlan, MaterializeDone
<1>4. CASE ApplyStart
  BY <1>4, LostApply
<1>5. CASE \E p \in Paths : EditFile(p) \/ TakeBack(p) \/ DamageBackup(p)
  BY <1>1, <1>5, LostEdit
<1> QED
  BY <1>1, <1>2, <1>3, <1>4, <1>5, LostQuiet, LostMaterializeStart, LostCopy, LostRename,
     LostRestoreStart, LostRestoreItem DEF MemoryNext

\* Whatever fails or dies during an apply, a restore or another backup, what a file of the
\* plan held before the apply is in the file or in its backup.
THEOREM NeverLostHolds == MemorySpec => []NeverLost
<1>1. LostInv => NeverLost
  BY DEF LostInv, CopiesHold, NeverLost
<1> QED
  BY <1>1, LostInit, LostNext, PTL DEF MemorySpec

-----------------------------------------------------------------------------
(* Nothing is overwritten blindly.  Once the targets are validated, a file  *)
(* an action will write is as the plan has it, unless it has been edited    *)
(* since or an earlier action has written it.                               *)

\* The items of the apply are those of its plan.
ItemsSay(p) ==
  /\ \E k \in DOMAIN cmd.items : cmd.items[k].path = p
  /\ \A k \in DOMAIN cmd.items : cmd.items[k].path = p => cmd.items[k].sha = undo[p]

\* Its actions write files of the plan, and create files the plan knows to be missing.
ActionFits(a) ==
  /\ a.target \in DOMAIN undo
  /\ a.op = "create" => undo[a.target] = Missing
  /\ a.op = "archive" => a.archive \in DOMAIN undo /\ undo[a.archive] = Missing

AsPlanned(a) ==
  \A p \in Written(a) : p \in late \cup Touched(cmd.done) \/ files[p] = undo[p]

ApplyInv ==
  /\ cmd.done \in Seq(Action) /\ cmd.actions \in Seq(Action)
  /\ \A p \in DOMAIN undo : ItemsSay(p)
  /\ \A k \in DOMAIN cmd.actions :
       /\ ActionFits(cmd.actions[k])
       /\ cmd.at = "rename" => AsPlanned(cmd.actions[k])

OverwriteInv ==
  /\ ShapesOK /\ proposal \in Proposals
  /\ cmd.op = "apply" => ApplyInv

LEMMA OverwriteInit == MemoryInit => OverwriteInv
<1> SUFFICES ASSUME MemoryInit PROVE OverwriteInv
  OBVIOUS
<1>1. ShapesOK
  BY LostInit DEF LostInv
<1>2. proposal \in Proposals /\ cmd.op # "apply"
  BY IdleShape DEF MemoryInit
<1> QED
  BY <1>1, <1>2 DEF OverwriteInv

\* In a plan that names every file once, Planned finds the item of a file.
LEMMA PlannedItem ==
  ASSUME Distinct(plan.items), NEW k \in DOMAIN plan.items
  PROVE  Planned(plan.items[k].path) = plan.items[k].sha
<1>1. plan.items[k] \in Elements(plan.items)
  BY DEF Elements
<1>2. ASSUME NEW x \in Elements(plan.items), x.path = plan.items[k].path
      PROVE  x = plan.items[k]
  BY <1>2 DEF Elements, Distinct
<1> QED
  BY <1>1, <1>2 DEF Planned

LEMMA OverwriteApply == OverwriteInv /\ ShapesOK' /\ ApplyStart => OverwriteInv'
<1> SUFFICES ASSUME OverwriteInv, ShapesOK', ApplyStart PROVE OverwriteInv'
  OBVIOUS
<1>1. /\ undo' = [p \in PathsOf(plan.items) |-> Planned(p)]
      /\ UNCHANGED <<files, proposal>>
  BY DEF ApplyStart, artifacts
<1>2. /\ cmd'.at = "stage" /\ cmd'.items = plan.items
      /\ cmd'.actions = proposal.patches /\ cmd'.done = <<>>
  BY ApplyBegins
<1>3. PlanHolds /\ \A k \in DOMAIN proposal.patches : ActionValid(k, proposal.patches)
  BY DEF ApplyStart, ApplyReady
<1>4. cmd'.done \in Seq(Action) /\ cmd'.actions \in Seq(Action)
  <2>1. proposal \in Proposal
    BY MemoryAssumption DEF OverwriteInv
  <2>2. proposal.patches \in Seq(Action)
    BY <2>1 DEF Proposal
  <2> QED
    BY <1>2, <2>2
<1>5. ASSUME NEW k \in DOMAIN plan.items, plan.items[k].path \in PathsOf(plan.items)
      PROVE  /\ undo'[plan.items[k].path] = plan.items[k].sha
             /\ files[plan.items[k].path] = plan.items[k].sha
  BY <1>1, <1>3, <1>5, PlannedItem DEF PlanHolds, Elements
<1>6. ASSUME NEW p \in DOMAIN undo' PROVE ItemsSay(p)'
  BY <1>1, <1>2, <1>5 DEF ItemsSay, PathsOf
<1>7. ASSUME NEW p \in PathsOf(plan.items)
      PROVE  undo'[p] = files[p] /\ undo'[p] = Planned(p)
  BY <1>1, <1>5 DEF PathsOf
<1>8. ASSUME NEW k \in DOMAIN cmd'.actions PROVE ActionFits(cmd.actions[k])'
  <2>1. ActionValid(k, proposal.patches)
    BY <1>2, <1>3
  <2> QED
    BY <1>1, <1>2, <1>7, <2>1 DEF ActionValid, ActionFits
<1> QED
  BY <1>1, <1>2, <1>4, <1>6, <1>8 DEF OverwriteInv, ApplyInv

\* Steps under an apply that neither write nor get to the renames.
LEMMA OverwriteKept ==
  ASSUME OverwriteInv, ShapesOK', proposal' \in Proposals,
         cmd'.op = "apply" =>
           /\ cmd.op = "apply" /\ cmd'.actions = cmd.actions /\ cmd'.items = cmd.items
           /\ cmd'.done = cmd.done /\ UNCHANGED <<files, undo, late>>
           /\ cmd'.at = "rename" => cmd.at = "rename"
  PROVE  OverwriteInv'
<1> SUFFICES ASSUME cmd'.op = "apply" PROVE ApplyInv'
  BY DEF OverwriteInv
<1>1. ASSUME NEW p \in DOMAIN undo' PROVE ItemsSay(p)'
  BY DEF OverwriteInv, ApplyInv, ItemsSay
<1>2. ASSUME NEW k \in DOMAIN cmd'.actions
      PROVE  /\ ActionFits(cmd.actions[k])'
             /\ cmd'.at = "rename" => AsPlanned(cmd.actions[k])'
  BY DEF OverwriteInv, ApplyInv, ActionFits, AsPlanned
<1> QED
  BY <1>1, <1>2 DEF OverwriteInv, ApplyInv

\* What the plan of the apply says of a file.
LEMMA InPlanIs == ASSUME NEW p, ItemsSay(p) PROVE InPlan(p) = undo[p]
<1>1. PICK k \in DOMAIN cmd.items : cmd.items[k].path = p
  BY DEF ItemsSay
<1>2. \E it \in Elements(cmd.items) : it.path = p
  BY <1>1 DEF Elements
<1>3. \A it \in Elements(cmd.items) : it.path = p => it.sha = undo[p]
  BY DEF Elements, ItemsSay
<1> QED
  BY <1>2, <1>3 DEF InPlan

LEMMA OverwriteValidate == OverwriteInv /\ ShapesOK' /\ ValidateTargets => OverwriteInv'
<1> SUFFICES ASSUME OverwriteInv, ShapesOK', ValidateTargets PROVE OverwriteInv'
  OBVIOUS
<1>1. UNCHANGED <<files, proposal, undo>> /\ cmd.op = "apply"
  BY DEF ValidateTargets, artifacts
<1>2. cmd'.actions = cmd.actions /\ cmd'.items = cmd.items /\ cmd'.done = cmd.done
  BY DEF ValidateTargets, OverwriteInv, ShapesOK, Fields
<1>3. ASSUME NEW p \in DOMAIN undo PROVE InPlan(p) = undo[p]
  <2>1. ItemsSay(p)
    BY <1>1 DEF OverwriteInv, ApplyInv
  <2> QED
    BY <2>1, InPlanIs
<1>4. ASSUME NEW k \in DOMAIN cmd.actions PROVE AsPlanned(cmd.actions[k])'
  <2> DEFINE a == cmd.actions[k]
  <2>1. TargetHolds(a)
    BY DEF ValidateTargets, Elements
  <2>2. ActionFits(a)
    BY <1>1 DEF OverwriteInv, ApplyInv
  <2>3. InPlan(a.target) = undo[a.target]
    BY <1>3, <2>2 DEF ActionFits
  <2>4. files[a.target] = undo[a.target]
    BY <2>1, <2>2, <2>3 DEF TargetHolds, Creates, ActionFits
  <2>5. a.op = "archive" => files[a.archive] = undo[a.archive]
    BY <2>1, <2>2 DEF TargetHolds, Creates, ActionFits
  <2> QED
    BY <1>1, <1>2, <2>4, <2>5 DEF AsPlanned, Written
<1>5. ASSUME NEW p \in DOMAIN undo' PROVE ItemsSay(p)'
  BY <1>1, <1>2 DEF OverwriteInv, ApplyInv, ItemsSay
<1>6. ASSUME NEW k \in DOMAIN cmd'.actions PROVE ActionFits(cmd.actions[k])'
  BY <1>1, <1>2 DEF OverwriteInv, ApplyInv, ActionFits
<1> QED
  BY <1>1, <1>2, <1>4, <1>5, <1>6 DEF OverwriteInv, ApplyInv

\* What a rename writes, and what it leaves alone.
LEMMA RenameWrites ==
  ASSUME ShapesOK, RenameItem, NEW p \in Paths, files'[p] # files[p]
  PROVE  p \in Written(cmd.actions[cmd.i])
BY DEF ShapesOK, RenameItem, Renamed, Written

LEMMA OverwriteRename == OverwriteInv /\ ShapesOK' /\ RenameItem => OverwriteInv'
<1> SUFFICES ASSUME OverwriteInv, ShapesOK', RenameItem PROVE OverwriteInv'
  OBVIOUS
<1> DEFINE a == cmd.actions[cmd.i]
<1>1. UNCHANGED <<proposal, undo, late>> /\ cmd.op = "apply" /\ cmd.at = "rename"
      /\ cmd.i \in DOMAIN cmd.actions
  BY DEF RenameItem, artifacts, history
<1>2. /\ cmd'.actions = cmd.actions /\ cmd'.items = cmd.items
      /\ cmd'.done = Append(cmd.done, a)
  BY DEF RenameItem, OverwriteInv, ShapesOK, Fields
<1>3. a \in Action
  BY <1>1 DEF OverwriteInv, ApplyInv
<1>4. cmd'.done \in Seq(Action) /\ Elements(cmd'.done) = Elements(cmd.done) \cup {a}
  BY <1>1, <1>2, <1>3 DEF OverwriteInv, ApplyInv, Elements
<1>5. Touched(cmd'.done) = Touched(cmd.done) \cup Written(a)
  BY <1>4 DEF Touched
<1>6. ASSUME NEW k \in DOMAIN cmd.actions PROVE AsPlanned(cmd.actions[k])'
  <2>1. AsPlanned(cmd.actions[k]) /\ ActionFits(cmd.actions[k])
    BY <1>1 DEF OverwriteInv, ApplyInv
  <2>2. ASSUME NEW p \in Written(cmd.actions[k])
        PROVE  p \in late' \cup Touched(cmd'.done) \/ files'[p] = undo'[p]
    <3>1. p \in Paths
      BY <2>1 DEF ActionFits, Written, OverwriteInv, ShapesOK
    <3>2. CASE files'[p] = files[p]
      BY <1>1, <1>5, <2>1, <3>2 DEF AsPlanned
    <3>3. CASE files'[p] # files[p]
      <4>1. p \in Written(a)
        BY <3>1, <3>3, RenameWrites DEF OverwriteInv
      <4> QED
        BY <1>5, <4>1 DEF Written
    <3> QED
      BY <3>2, <3>3
  <2> QED
    BY <1>2, <2>2 DEF AsPlanned
<1>7. ASSUME NEW p \in DOMAIN undo' PROVE ItemsSay(p)'
  BY <1>1, <1>2 DEF OverwriteInv, ApplyInv, ItemsSay
<1>8. ASSUME NEW k \in DOMAIN cmd'.actions PROVE ActionFits(cmd.actions[k])'
  BY <1>1, <1>2 DEF OverwriteInv, ApplyInv, ActionFits
<1> QED
  BY <1>1, <1>2, <1>4, <1>6, <1>7, <1>8 DEF OverwriteInv, ApplyInv

LEMMA OverwriteEdit ==
  ASSUME OverwriteInv, ShapesOK', NEW f \in Paths, EditFile(f) \/ TakeBack(f) \/ DamageBackup(f)
  PROVE  OverwriteInv'
<1>1. UNCHANGED <<proposal, undo, cmd>>
  BY DEF EditFile, TakeBack, Overwrite, DamageBackup, artifacts
<1>2. \/ files' = files /\ late' = late
      \/ late' = late \cup {f} /\ \E c : files' = [files EXCEPT ![f] = c]
  BY DEF EditFile, TakeBack, Overwrite, DamageBackup
<1> SUFFICES ASSUME cmd.op = "apply" PROVE ApplyInv'
  BY <1>1 DEF OverwriteInv
<1>3. ASSUME NEW k \in DOMAIN cmd.actions, cmd.at = "rename" PROVE AsPlanned(cmd.actions[k])'
  <2>1. AsPlanned(cmd.actions[k]) /\ ActionFits(cmd.actions[k])
    BY <1>3 DEF OverwriteInv, ApplyInv
  <2>2. ASSUME NEW p \in Written(cmd.actions[k])
        PROVE  p \in late' \cup Touched(cmd.done) \/ files'[p] = undo[p]
    <3>1. p \in Paths
      BY <2>1 DEF ActionFits, Written, OverwriteInv, ShapesOK
    <3>2. p \in late' \/ (files'[p] = files[p] /\ late \subseteq late')
      BY <1>2, <3>1 DEF OverwriteInv, ShapesOK
    <3> QED
      BY <2>1, <3>2 DEF AsPlanned
  <2> QED
    BY <1>1, <2>2 DEF AsPlanned
<1>4. ASSUME NEW p \in DOMAIN undo' PROVE ItemsSay(p)'
  BY <1>1 DEF OverwriteInv, ApplyInv, ItemsSay
<1>5. ASSUME NEW k \in DOMAIN cmd'.actions PROVE ActionFits(cmd.actions[k])'
  BY <1>1 DEF OverwriteInv, ApplyInv, ActionFits
<1> QED
  BY <1>1, <1>3, <1>4, <1>5 DEF OverwriteInv, ApplyInv

LEMMA OverwriteNext == OverwriteInv /\ [MemoryNext]_vars => OverwriteInv'
<1> SUFFICES ASSUME OverwriteInv, [MemoryNext]_vars PROVE OverwriteInv'
  OBVIOUS
<1>1. ShapesOK'
  BY ShapesNext DEF OverwriteInv
<1>2. CASE UNCHANGED vars
  BY <1>1, <1>2, OverwriteKept DEF vars, artifacts, history, OverwriteInv
<1>3. CASE ApplyStart
  BY <1>1, <1>3, OverwriteApply
<1>4. CASE ValidateTargets
  BY <1>1, <1>4, OverwriteValidate
<1>5. CASE RenameItem
  BY <1>1, <1>5, OverwriteRename
<1>6. CASE \E p \in Paths : EditFile(p) \/ TakeBack(p) \/ DamageBackup(p)
  BY <1>1, <1>6, OverwriteEdit
<1>7. CASE StageApply
  <2>1. /\ UNCHANGED <<files, proposal, undo, late>>
        /\ cmd'.actions = cmd.actions /\ cmd'.items = cmd.items /\ cmd'.done = cmd.done
        /\ cmd'.at = "validate" /\ cmd.op = "apply"
    BY <1>7 DEF StageApply, artifacts, history, OverwriteInv, ShapesOK, Fields
  <2> QED
    BY <1>1, <2>1, OverwriteKept DEF OverwriteInv
<1>8. CASE MemoryNext /\ ~ApplyStart /\ ~ValidateTargets /\ ~RenameItem /\ ~StageApply
           /\ ~(\E p \in Paths : EditFile(p) \/ TakeBack(p) \/ DamageBackup(p))
  <2>1. proposal' \in Proposals
    BY <1>8
       DEF OverwriteInv, MemoryNext, Approve, BuildBackupPlan, BuildRestorePreview,
           MaterializeStart, CopyItem, CopyFails, MaterializeDone, ApplyRefused, RenameFails,
           HashFails, ApplyDone, RestoreStart, RestoreItem, RestoreFails, RestoreDone, Dies,
           EditProposal, EditPolicy, artifacts
  <2>2. cmd'.op = "apply" => UNCHANGED <<cmd, files, undo, late>>
    <3>1. CASE cmd' = Idle
      BY <3>1, IdleShape
    <3>2. CASE MaterializeStart \/ RestoreStart
      BY <3>2 DEF MaterializeStart, RestoreStart, Idle
    <3>3. CASE CopyItem \/ RestoreItem
      BY <3>3 DEF CopyItem, RestoreItem, OverwriteInv, ShapesOK, Fields
    <3>4. CASE \/ \E d \in {"approved", "rejected"} : Approve(d)
               \/ BuildBackupPlan \/ BuildRestorePreview
      BY <3>4, IdleShape DEF Approve, BuildBackupPlan, BuildRestorePreview
    <3>5. CASE EditProposal \/ EditPolicy
      BY <3>5 DEF EditProposal, EditPolicy, history
    <3> QED
      BY <1>8, <3>1, <3>2, <3>3, <3>4, <3>5
         DEF MemoryNext, CopyFails, MaterializeDone, ApplyRefused, RenameFails, HashFails,
             ApplyDone, RestoreFails, RestoreDone, Dies
  <2> QED
    BY <1>1, <2>1, <2>2, OverwriteKept
<1> QED
  BY <1>2, <1>3, <1>4, <1>5, <1>6, <1>7, <1>8

LEMMA OverwriteStep ==
  ASSUME OverwriteInv, MemoryNext, cmd.op = "apply", cmd' # cmd,
         NEW p \in Paths, files'[p] # files[p]
  PROVE  p \in late \cup Touched(cmd.done) \/ (p \in DOMAIN undo /\ files[p] = undo[p])
<1>1. RenameItem
  BY IdleShape
     DEF MemoryNext, Approve, BuildBackupPlan, BuildRestorePreview, MaterializeStart, CopyItem,
         CopyFails, MaterializeDone, ApplyStart, StageApply, ValidateTargets, ApplyRefused,
         RenameFails, HashFails, ApplyDone, RestoreStart, RestoreItem, RestoreFails,
         RestoreDone, Dies, EditFile, TakeBack, Overwrite, DamageBackup, EditProposal, EditPolicy
<1>2. cmd.i \in DOMAIN cmd.actions /\ cmd.at = "rename"
  BY <1>1 DEF RenameItem
<1>3. p \in Written(cmd.actions[cmd.i])
  BY <1>1, RenameWrites DEF OverwriteInv
<1>4. ActionFits(cmd.actions[cmd.i]) /\ AsPlanned(cmd.actions[cmd.i])
  BY <1>2 DEF OverwriteInv, ApplyInv
<1> QED
  BY <1>3, <1>4 DEF ActionFits, AsPlanned, Written

\* An apply replaces only what its plan has seen or what it has written itself, unless the
\* edit came after the targets were validated.
THEOREM NoBlindOverwriteHolds == MemorySpec => NoBlindOverwrite
<1> DEFINE Seen == cmd.op = "apply" /\ cmd' # cmd =>
               \A p \in Paths : files'[p] # files[p] =>
                 p \in late \cup Touched(cmd.done) \/ (p \in DOMAIN undo /\ files[p] = undo[p])
<1>1. OverwriteInv /\ [MemoryNext]_vars => [Seen]_vars
  BY OverwriteStep
<1>2. MemorySpec => [][Seen]_vars
  BY <1>1, OverwriteInit, OverwriteNext, PTL DEF MemorySpec
<1> QED
  BY <1>2 DEF NoBlindOverwrite

-----------------------------------------------------------------------------
(* Recursion.                                                               *)

\* A set of numbers has a least element.
LEMMA NatMin ==
  ASSUME NEW T, T \subseteq Nat, T # {}
  PROVE  \E n \in T : \A m \in T : n <= m
<1> DEFINE R == OpToRel(<, Nat)
<1>1. IsWellFoundedOn(R, Nat)
  BY NatLessThanWellFounded
<1>2. \A i, j \in Nat : i < j => <<i, j>> \in R
  BY DEF OpToRel
<1> HIDE DEF R
<1>3. PICK x \in T : \A y \in T : ~ (<<y, x>> \in R)
  BY <1>1, WFMin
<1>4. ASSUME NEW y \in T PROVE x <= y
  <2>1. ~ (<<y, x>> \in R) /\ x \in Nat /\ y \in Nat
    BY <1>3
  <2>2. ~ (y < x)
    BY <1>2, <2>1
  <2> QED
    BY <2>1, <2>2
<1> QED
  BY <1>4

\* Induction over the numbers up to n, for a set in the place of a predicate.
LEMMA UpTo ==
  ASSUME NEW n \in Nat, NEW S, 0 \in S, \A k \in 0 .. n - 1 : k \in S => k + 1 \in S
  PROVE  \A k \in 0 .. n : k \in S
<1> DEFINE T == (0 .. n) \ S
<1> SUFFICES ASSUME T # {} PROVE FALSE
  OBVIOUS
<1>1. PICK m \in T : \A k \in T : m <= k
  <2> HIDE DEF T
  <2>1. T \subseteq Nat
    BY DEF T
  <2> QED
    BY <2>1, NatMin
<1>2. m # 0 /\ m - 1 \in 0 .. n - 1 /\ m - 1 \notin T
  BY <1>1
<1> QED
  BY <1>1, <1>2

Recursive(f, n, X, c, F) ==
  f \in [0 .. n -> X] /\ f[0] = c /\ \A k \in 1 .. n : f[k] = F[k][f[k - 1]]

\* A function on 0 .. n can be defined by what it is at 0 and how it goes on.
LEMMA RecursionHolds ==
  ASSUME NEW n \in Nat, NEW X, NEW c \in X, NEW F \in [1 .. n -> [X -> X]]
  PROVE  \E f : Recursive(f, n, X, c, F)
<1> DEFINE Good(m, f) == /\ f \in [0 .. m -> X] /\ f[0] = c
                         /\ \A k \in 1 .. m : f[k] = F[k][f[k - 1]]
           S == {m \in Nat : \E f \in [0 .. m -> X] : Good(m, f)}
<1>1. 0 \in S
  <2>1. Good(0, [k \in 0 .. 0 |-> c])
    OBVIOUS
  <2> QED
    BY <2>1
<1>2. ASSUME NEW m \in 0 .. n - 1, m \in S PROVE m + 1 \in S
  <2>1. PICK f \in [0 .. m -> X] : Good(m, f)
    BY <1>2
  <2> DEFINE g == [k \in 0 .. m + 1 |-> IF k = m + 1 THEN F[m + 1][f[m]] ELSE f[k]]
  <2>2. m + 1 \in 1 .. n /\ m \in 0 .. m /\ f[m] \in X
    BY <2>1
  <2>3. F[m + 1][f[m]] \in X
    BY <2>2
  <2>4. g \in [0 .. m + 1 -> X]
    <3>1. ASSUME NEW k \in 0 .. m + 1 PROVE g[k] \in X
      BY <2>1, <2>3
    <3> QED
      BY <3>1
  <2>5. g[0] = c
    BY <2>1
  <2>6. ASSUME NEW k \in 1 .. m + 1 PROVE g[k] = F[k][g[k - 1]]
    <3>1. CASE k = m + 1
      <4>1. g[k] = F[m + 1][f[m]] /\ g[k - 1] = f[m]
        BY <3>1
      <4> QED
        BY <3>1, <4>1
    <3>2. CASE k # m + 1
      <4>1. k \in 1 .. m /\ k - 1 \in 0 .. m
        BY <3>2
      <4>2. g[k] = f[k] /\ g[k - 1] = f[k - 1]
        BY <4>1
      <4> QED
        BY <2>1, <4>1, <4>2
    <3> QED
      BY <3>1, <3>2
  <2>7. Good(m + 1, g)
    <3> HIDE DEF g
    <3> QED
      BY <2>4, <2>5, <2>6
  <2>8. m + 1 \in Nat
    OBVIOUS
  <2> HIDE DEF Good, g
  <2> QED
    BY <2>4, <2>7, <2>8
<1>3. n \in S
  <2> HIDE DEF S
  <2>1. \A m \in 0 .. n - 1 : m \in S => m + 1 \in S
    BY <1>2
  <2>2. \A k \in 0 .. n : k \in S
    BY <1>1, <2>1, UpTo
  <2> QED
    BY <2>2
<1> QED
  BY <1>3 DEF Recursive

-----------------------------------------------------------------------------
(* The backup plan of a proposal.                                           *)

Want == [path : Paths, op : Operations, must : {"", "exist", "be missing"}]
Wants(a) ==
  IF a.op = "archive"
  THEN <<[path |-> a.target, op |-> a.op, must |-> "exist"],
         [path |-> a.archive, op |-> a.op, must |-> "be missing"]>>
  ELSE <<[path |-> a.target, op |-> a.op, must |-> ""]>>

LEMMA WantsType == ASSUME NEW a \in Action PROVE Wants(a) \in Seq(Want)
<1>1. \A x, y \in Want : <<x>> \in Seq(Want) /\ <<x, y>> \in Seq(Want)
  OBVIOUS
<1>2. ASSUME NEW path \in {a.target, a.archive}, NEW must \in {"", "exist", "be missing"}
      PROVE  [path |-> path, op |-> a.op, must |-> must] \in Want
  BY DEF Want, Action
<1> QED
  BY <1>1, <1>2 DEF Wants

LEMMA WantedType == ASSUME NEW p \in Proposal PROVE Wanted(p) \in Seq(Want)
<1> DEFINE n == Len(p.patches)
           Lists == Seq(Want)
           From == CHOOSE From : From = [k \in 0 .. n |->
                     IF k = 0 THEN <<>> ELSE From[k - 1] \o Wants(p.patches[k])]
           F == [k \in 1 .. n |-> [x \in Lists |-> x \o Wants(p.patches[k])]]
<1>1. Wanted(p) = From[n]
  BY DEF Wanted, Wants
<1>2. n \in Nat /\ <<>> \in Lists
      /\ \A k \in 1 .. n : \A x \in Lists : x \o Wants(p.patches[k]) \in Lists
  <2>1. p.patches \in Seq(Action)
    BY DEF Proposal
  <2>2. \A k \in 1 .. n : Wants(p.patches[k]) \in Lists
    BY <2>1, WantsType
  <2>3. \A T : \A x, y \in Seq(T) : x \o y \in Seq(T)
    OBVIOUS
  <2>4. \A x, y \in Lists : x \o y \in Lists
    BY <2>3
  <2>5. n \in Nat /\ <<>> \in Lists
    BY <2>1
  <2> HIDE DEF n, Lists
  <2> QED
    BY <2>2, <2>4, <2>5
<1> HIDE DEF n, Lists
<1>3. F \in [1 .. n -> [Lists -> Lists]]
  BY <1>2
<1>4. \A k \in 1 .. n : \A x \in Lists : F[k][x] = x \o Wants(p.patches[k])
  OBVIOUS
<1> HIDE DEF F
<1>5. PICK f \in [0 .. n -> Lists] :
       f[0] = <<>> /\ \A k \in 1 .. n : f[k] = F[k][f[k - 1]]
  <2>1. n \in Nat /\ <<>> \in Lists
    BY <1>2
  <2>2. \E f : Recursive(f, n, Lists, <<>>, F)
    BY <2>1, <1>3, RecursionHolds
  <2> QED
    BY <2>2 DEF Recursive
<1>6. \A k \in 0 .. n : k # 0 => k \in 1 .. n /\ k - 1 \in 0 .. n
  BY <1>2
<1>7. f = [k \in 0 .. n |-> IF k = 0 THEN <<>> ELSE f[k - 1] \o Wants(p.patches[k])]
  <2>1. ASSUME NEW k \in 0 .. n, k # 0
        PROVE  F[k][f[k - 1]] = f[k - 1] \o Wants(p.patches[k])
    BY <1>4, <1>6, <2>1
  <2>2. \A k \in 0 .. n : f[k] = IF k = 0 THEN <<>> ELSE f[k - 1] \o Wants(p.patches[k])
    BY <1>5, <1>6, <2>1
  <2> QED
    BY <1>5, <2>2
<1>8. From = [k \in 0 .. n |-> IF k = 0 THEN <<>> ELSE From[k - 1] \o Wants(p.patches[k])]
  BY <1>7
<1> DEFINE S == {k \in 0 .. n : From[k] \in Lists}
<1> HIDE DEF From
<1>9. 0 \in S
  BY <1>2, <1>8
<1>10. ASSUME NEW k \in 0 .. n - 1, k \in S PROVE k + 1 \in S
  <2>1. k + 1 \in 1 .. n /\ k + 1 \in 0 .. n /\ k + 1 # 0 /\ (k + 1) - 1 = k
    BY <1>2
  <2>2. From[k + 1] = From[k] \o Wants(p.patches[k + 1])
    BY <1>8, <2>1
  <2> QED
    BY <1>2, <1>10, <2>1, <2>2
<1>11. \A k \in 0 .. n - 1 : k \in S => k + 1 \in S
  BY <1>10
<1>12. \A k \in 0 .. n : k \in S
  <2> HIDE DEF S
  <2> QED
    BY <1>2, <1>9, <1>11, UpTo
<1>13. n \in S
  BY <1>2, <1>12
<1> QED
  BY <1>1, <1>13 DEF Lists

\* What is appended to a list of distinct paths is a path of its own.
LEMMA AppendDistinct ==
  ASSUME NEW x \in Seq(Want), Distinct(x), NEW v \in Want, v.path \notin PathsOf(x)
  PROVE  Append(x, v) \in Seq(Want) /\ Distinct(Append(x, v))
<1> DEFINE y == Append(x, v)
<1>1. y \in Seq(Want) /\ Len(y) = Len(x) + 1 /\ y[Len(x) + 1] = v
      /\ \A k \in 1 .. Len(x) : y[k] = x[k]
  OBVIOUS
<1>2. ASSUME NEW k \in 1 .. Len(x) PROVE x[k].path # v.path
  <2>1. k \in DOMAIN x
    OBVIOUS
  <2>2. v.path \in Paths
    BY DEF Want
  <2> QED
    BY <2>1, <2>2 DEF PathsOf
<1>3. ASSUME NEW k \in 1 .. Len(x), NEW l \in 1 .. Len(x), x[k].path = x[l].path PROVE k = l
  BY <1>3 DEF Distinct
<1>4. DOMAIN y = 1 .. Len(x) + 1 /\ Len(x) \in Nat
  BY <1>1
<1> HIDE DEF y
<1>5. ASSUME NEW k \in DOMAIN y, NEW l \in DOMAIN y, y[k].path = y[l].path PROVE k = l
  <2>1. CASE k = Len(x) + 1 /\ l = Len(x) + 1
    BY <2>1
  <2>2. CASE k = Len(x) + 1 /\ l # Len(x) + 1
    <3>1. l \in 1 .. Len(x)
      BY <1>4, <2>2
    <3> QED
      BY <1>1, <1>2, <1>5, <2>2, <3>1
  <2>3. CASE k # Len(x) + 1 /\ l = Len(x) + 1
    <3>1. k \in 1 .. Len(x)
      BY <1>4, <2>3
    <3> QED
      BY <1>1, <1>2, <1>5, <2>3, <3>1
  <2>4. CASE k # Len(x) + 1 /\ l # Len(x) + 1
    <3>1. k \in 1 .. Len(x) /\ l \in 1 .. Len(x)
      BY <1>4, <2>4
    <3> QED
      BY <1>1, <1>3, <1>5, <3>1
  <2> QED
    BY <2>1, <2>2, <2>3, <2>4
<1> QED
  BY <1>1, <1>5 DEF Distinct, y

LEMMA TargetsType ==
  ASSUME NEW p \in Proposal
  PROVE  BackupTargets(p) \in Seq(Want) /\ Distinct(BackupTargets(p))
<1> DEFINE w == Wanted(p)
           n == Len(w)
           Lists == {x \in Seq(Want) : Distinct(x)}
           Next1(x, v) == IF v.path \in PathsOf(x) THEN x ELSE Append(x, v)
           Taken == CHOOSE Taken : Taken = [k \in 0 .. n |->
                      IF k = 0 THEN <<>>
                      ELSE IF w[k].path \in PathsOf(Taken[k - 1]) THEN Taken[k - 1]
                      ELSE Append(Taken[k - 1], w[k])]
           F == [k \in 1 .. n |-> [x \in Lists |-> Next1(x, w[k])]]
<1>1. BackupTargets(p) = Taken[n]
  BY DEF BackupTargets
<1>2. w \in Seq(Want) /\ n \in Nat
  BY WantedType
<1>3. <<>> \in Lists
  BY DEF Distinct
<1>4. ASSUME NEW k \in 1 .. n, NEW x \in Lists PROVE Next1(x, w[k]) \in Lists
  <2>1. w[k] \in Want
    BY <1>2
  <2>2. CASE w[k].path \in PathsOf(x)
    BY <2>2
  <2>3. CASE w[k].path \notin PathsOf(x)
    <3> HIDE DEF w
    <3>1. Append(x, w[k]) \in Seq(Want) /\ Distinct(Append(x, w[k]))
      BY <2>1, <2>3, AppendDistinct
    <3> QED
      BY <2>3, <3>1
  <2> QED
    BY <2>2, <2>3
<1>5. \A k \in 1 .. n : \A x \in Lists : Next1(x, w[k]) \in Lists
  BY <1>4
<1> HIDE DEF w, n, Lists, Next1
<1>6. F \in [1 .. n -> [Lists -> Lists]]
  BY <1>5
<1>7. \A k \in 1 .. n : \A x \in Lists : F[k][x] = Next1(x, w[k])
  OBVIOUS
<1> HIDE DEF F
<1>8. PICK f \in [0 .. n -> Lists] : f[0] = <<>> /\ \A k \in 1 .. n : f[k] = F[k][f[k - 1]]
  <2>1. n \in Nat
    BY <1>2
  <2>2. \E f : Recursive(f, n, Lists, <<>>, F)
    BY <2>1, <1>3, <1>6, RecursionHolds
  <2> QED
    BY <2>2 DEF Recursive
<1>9. \A k \in 0 .. n : k # 0 => k \in 1 .. n /\ k - 1 \in 0 .. n
  BY <1>2
<1>10. f = [k \in 0 .. n |->
             IF k = 0 THEN <<>>
             ELSE IF w[k].path \in PathsOf(f[k - 1]) THEN f[k - 1] ELSE Append(f[k - 1], w[k])]
  <2>1. ASSUME NEW k \in 0 .. n, k # 0 PROVE F[k][f[k - 1]] = Next1(f[k - 1], w[k])
    BY <1>7, <1>8, <1>9, <2>1
  <2>2. \A k \in 0 .. n :
          f[k] = IF k = 0 THEN <<>>
                 ELSE IF w[k].path \in PathsOf(f[k - 1]) THEN f[k - 1] ELSE Append(f[k - 1], w[k])
    BY <1>8, <1>9, <2>1 DEF Next1
  <2> QED
    BY <1>8, <2>2
<1>11. Taken = [k \in 0 .. n |->
             IF k = 0 THEN <<>>
             ELSE IF w[k].path \in PathsOf(Taken[k - 1]) THEN Taken[k - 1]
             ELSE Append(Taken[k - 1], w[k])]
  BY <1>10
<1> DEFINE S == {k \in 0 .. n : Taken[k] \in Lists}
<1> HIDE DEF Taken
<1>12. Taken[0] = <<>> /\ \A k \in 0 .. n : k # 0 => Taken[k] = Next1(Taken[k - 1], w[k])
  <2>1. 0 \in 0 .. n
    BY <1>2
  <2>2. \A k \in 0 .. n : k # 0 => Taken[k] = Next1(Taken[k - 1], w[k])
    BY <1>11 DEF Next1
  <2>3. Taken[0] = <<>>
    BY <1>11, <2>1
  <2> QED
    BY <2>2, <2>3
<1>13. 0 \in S
  BY <1>2, <1>3, <1>12
<1>14. ASSUME NEW k \in 0 .. n - 1, k \in S PROVE k + 1 \in S
  <2>1. k + 1 \in 1 .. n /\ k + 1 \in 0 .. n /\ k + 1 # 0 /\ (k + 1) - 1 = k
    BY <1>2
  <2>2. Taken[k + 1] = Next1(Taken[k], w[k + 1])
    BY <1>12, <2>1
  <2> QED
    BY <1>5, <1>14, <2>1, <2>2
<1>15. \A k \in 0 .. n - 1 : k \in S => k + 1 \in S
  BY <1>14
<1>16. \A k \in 0 .. n : k \in S
  <2> HIDE DEF S
  <2> QED
    BY <1>2, <1>13, <1>15, UpTo
<1>17. n \in S
  BY <1>2, <1>16
<1> QED
  BY <1>1, <1>17 DEF Lists

\* The items of a plan, with a path each.
LEMMA PlanType ==
  ASSUME NEW p \in Proposal, NEW fs \in [Paths -> Content]
  PROVE  PlanFor(p, fs) \in Seq(Item) /\ Distinct(PlanFor(p, fs))
<1> DEFINE t == BackupTargets(p)
           It(w) == [path |-> w.path, op |-> w.op, sha |-> fs[w.path], copied |-> Missing]
<1>1. t \in Seq(Want) /\ Distinct(t)
  BY TargetsType
<1>2. PlanFor(p, fs) = [k \in DOMAIN t |-> It(t[k])]
  BY DEF PlanFor
<1>3. Missing \in Content
  <2>1. \A T : \A c \in T : <<c>> \in Seq(T)
    OBVIOUS
  <2> QED
    BY <2>1 DEF Missing, Content
<1>4. \A w \in Want : It(w) \in Item
  BY <1>3 DEF Want, Item
<1> HIDE DEF t
<1>5. DOMAIN t = 1 .. Len(t) /\ Len(t) \in Nat /\ \A k \in DOMAIN t : t[k] \in Want
  BY <1>1
<1>6. \A k \in DOMAIN t : It(t[k]) \in Item /\ It(t[k]).path = t[k].path
  BY <1>4, <1>5
<1>7. PlanFor(p, fs) \in Seq(Item)
  <2> HIDE DEF It
  <2> QED
    BY <1>2, <1>5, <1>6
<1>8. Distinct(PlanFor(p, fs))
  <2> HIDE DEF It
  <2> QED
    BY <1>1, <1>2, <1>6 DEF Distinct
<1> QED
  BY <1>7, <1>8

-----------------------------------------------------------------------------
(* Types.                                                                   *)

CommandOK ==
  /\ cmd = [x \in Fields |-> cmd[x]]
  /\ cmd.op \in {"idle", "materialize", "apply", "restore"} /\ cmd.approval \in 0 .. MaxApprovals
  /\ cmd.i \in Nat \ {0} /\ cmd.items \in Seq(Item) /\ cmd.actions \in Seq(Action)
  /\ cmd.op = "idle" => cmd.i = 1
  /\ cmd.op \in {"materialize", "restore"} => cmd.i <= Len(cmd.items) + 1
  /\ cmd.op = "materialize" => cmd.done \in Seq(Item)
  /\ cmd.op = "apply" =>
       /\ cmd.done \in Seq(Action) /\ cmd.i = Len(cmd.done) + 1 /\ cmd.i <= Len(cmd.actions) + 1
       /\ cmd.actions # <<>>
       /\ cmd.at \in {"stage", "validate", "rename"}
       /\ cmd.at # "rename" => cmd.i = 1
       /\ cmd.at # "stage" => cmd.temps \in Seq(Content) /\ Len(cmd.temps) = Len(cmd.actions)

UndoOK == DOMAIN undo \subseteq Paths /\ undo \in [DOMAIN undo -> Content]
ApprovalOK == approval.decision = "approved" => approval.id # 0
TypeInv == MemoryTypeOK /\ CommandOK /\ UndoOK /\ ApprovalOK

\* The contents nobody writes on purpose.
LEMMA ContentType ==
  /\ Missing \in Content /\ CutShort \in Content /\ Edited \in Content
  /\ \A c \in Content, t \in Pieces : Append(c, t) \in Content /\ <<t>> \in Content
<1>1. \A T : \A c \in T : <<c>> \in Seq(T)
  OBVIOUS
<1>2. \A T : \A c \in T : \A s \in Seq(T) : Append(s, c) \in Seq(T)
  OBVIOUS
<1> QED
  BY <1>1, <1>2 DEF Missing, CutShort, Edited, Content

LEMMA Bounds == MaxApprovals \in Nat /\ MaxEdits \in Nat /\ MaxFaults \in Nat
BY MemoryAssumption

LEMMA CommandEnds == ASSUME cmd' = Idle PROVE CommandOK'
<1>1. cmd' = [x \in Fields |-> cmd'[x]] /\ cmd'.op = "idle"
  BY IdleShape
<1>2. cmd'.i = 1 /\ cmd'.approval = 0 /\ cmd'.items = <<>> /\ cmd'.actions = <<>>
  BY DEF Idle
<1>3. 0 \in 0 .. MaxApprovals
  BY Bounds
<1>4. \A T : <<>> \in Seq(T)
  OBVIOUS
<1>5. cmd'.items \in Seq(Item) /\ cmd'.actions \in Seq(Action)
  BY <1>2, <1>4
<1>6. /\ cmd'.op \notin {"materialize", "apply", "restore"}
      /\ cmd'.i \in Nat \ {0} /\ cmd'.approval \in 0 .. MaxApprovals
  BY <1>1, <1>2, <1>3
<1> QED
  BY <1>1, <1>2, <1>5, <1>6 DEF CommandOK

\* A proposal's actions.
LEMMA ProposalActions ==
  ASSUME NEW p \in Proposals PROVE p \in Proposal /\ p.patches \in Seq(Action) /\ p.patches # <<>>
<1>1. p \in Proposal /\ Len(p.patches) > 0
  BY MemoryAssumption
<1>2. p.patches \in Seq(Action)
  BY <1>1 DEF Proposal
<1> QED
  BY <1>1, <1>2

LEMMA CommandBegins ==
  ASSUME TypeInv, MaterializeStart \/ ApplyStart \/ RestoreStart PROVE CommandOK'
<1>1. /\ plan.approval \in 0 .. MaxApprovals /\ plan.items \in Seq(Item)
      /\ preview.items \in Seq(Item) /\ proposal \in Proposals
  BY DEF TypeInv, MemoryTypeOK
<1>2. CASE MaterializeStart
  <2>1. cmd' = [Idle EXCEPT !.op = "materialize", !.approval = plan.approval, !.items = plan.items]
    BY <1>2 DEF MaterializeStart
  <2>2. cmd' = [x \in Fields |-> cmd'[x]]
    BY <2>1 DEF Idle, Fields
  <2>3. /\ cmd'.op = "materialize" /\ cmd'.approval = plan.approval /\ cmd'.items = plan.items
        /\ cmd'.i = 1 /\ cmd'.actions = <<>> /\ cmd'.done = <<>>
    BY <2>1 DEF Idle
  <2>4. 1 <= Len(plan.items) + 1
    BY <1>1
  <2> QED
    BY <1>1, <2>2, <2>3, <2>4 DEF CommandOK
<1>3. CASE RestoreStart
  <2>1. cmd' = [Idle EXCEPT !.op = "restore", !.approval = plan.approval, !.items = preview.items]
    BY <1>3 DEF RestoreStart
  <2>2. cmd' = [x \in Fields |-> cmd'[x]]
    BY <2>1 DEF Idle, Fields
  <2>3. /\ cmd'.op = "restore" /\ cmd'.approval = plan.approval /\ cmd'.items = preview.items
        /\ cmd'.i = 1 /\ cmd'.actions = <<>>
    BY <2>1 DEF Idle
  <2>4. 1 <= Len(preview.items) + 1
    BY <1>1
  <2> QED
    BY <1>1, <2>2, <2>3, <2>4 DEF CommandOK
<1>4. CASE ApplyStart
  <2>1. cmd' = [Idle EXCEPT !.op = "apply", !.at = "stage", !.approval = plan.approval,
                            !.actions = proposal.patches, !.items = plan.items]
    BY <1>4 DEF ApplyStart
  <2>2. cmd' = [x \in Fields |-> cmd'[x]]
    BY <2>1 DEF Idle, Fields
  <2>3. /\ cmd'.op = "apply" /\ cmd'.at = "stage" /\ cmd'.approval = plan.approval
        /\ cmd'.items = plan.items /\ cmd'.i = 1 /\ cmd'.actions = proposal.patches
        /\ cmd'.done = <<>>
    BY <2>1 DEF Idle
  <2>4. proposal.patches \in Seq(Action) /\ proposal.patches # <<>>
    BY <1>1, ProposalActions
  <2>5. 1 = Len(<<>>) + 1 /\ 1 <= Len(proposal.patches) + 1
    BY <2>4
  <2> QED
    BY <1>1, <2>2, <2>3, <2>4, <2>5 DEF CommandOK
<1> QED
  BY <1>2, <1>3, <1>4

\* The loops of materialize and restore.
LEMMA CommandGoesOn ==
  ASSUME TypeInv, CopyItem \/ RestoreItem PROVE CommandOK'
<1>1. CommandOK /\ files \in [Paths -> Content]
  BY DEF TypeInv, MemoryTypeOK
<1>2. cmd.i \in DOMAIN cmd.items /\ cmd.i + 1 \in Nat \ {0} /\ cmd.i + 1 <= Len(cmd.items) + 1
  <2>1. cmd.i \in DOMAIN cmd.items
    BY DEF CopyItem, RestoreItem
  <2>2. cmd.i \in Nat \ {0} /\ cmd.items \in Seq(Item)
    BY <1>1 DEF CommandOK
  <2> QED
    BY <2>1, <2>2
<1>3. cmd.items[cmd.i] \in Item
  BY <1>1, <1>2 DEF CommandOK
<1>4. CASE CopyItem
  <2>1. PICK it \in Item : cmd' = [cmd EXCEPT !.i = cmd.i + 1, !.done = Append(cmd.done, it)]
    <3>1. files[cmd.items[cmd.i].path] \in Content
      BY <1>1, <1>3 DEF Item
    <3>2. [cmd.items[cmd.i] EXCEPT !.copied = files[cmd.items[cmd.i].path]] \in Item
      BY <1>3, <3>1 DEF Item
    <3> QED
      BY <1>3, <1>4, <3>2 DEF CopyItem
  <2>2. cmd' = [x \in Fields |-> cmd'[x]] /\ cmd'.i = cmd.i + 1 /\ cmd'.done = Append(cmd.done, it)
        /\ cmd'.op = cmd.op /\ cmd'.approval = cmd.approval /\ cmd'.items = cmd.items
        /\ cmd'.actions = cmd.actions
    BY <1>1, <2>1 DEF CommandOK, Fields
  <2>3. cmd.op = "materialize"
    BY <1>4 DEF CopyItem
  <2>4. cmd'.done \in Seq(Item)
    <3>1. cmd.done \in Seq(Item)
      BY <1>1, <2>3 DEF CommandOK
    <3> QED
      BY <2>2, <3>1
  <2> QED
    BY <1>1, <1>2, <2>2, <2>3, <2>4 DEF CommandOK
<1>5. CASE RestoreItem
  <2>1. cmd' = [cmd EXCEPT !.i = cmd.i + 1, !.done = Append(cmd.done, cmd.items[cmd.i])]
    BY <1>5 DEF RestoreItem
  <2>2. cmd' = [x \in Fields |-> cmd'[x]] /\ cmd'.i = cmd.i + 1
        /\ cmd'.op = cmd.op /\ cmd'.approval = cmd.approval /\ cmd'.items = cmd.items
        /\ cmd'.actions = cmd.actions
    BY <1>1, <2>1 DEF CommandOK, Fields
  <2>3. cmd.op = "restore"
    BY <1>5 DEF RestoreItem
  <2> QED
    BY <1>1, <1>2, <2>2, <2>3 DEF CommandOK
<1> QED
  BY <1>4, <1>5

\* The steps of apply.
LEMMA CommandApplies ==
  ASSUME TypeInv, StageApply \/ ValidateTargets \/ RenameItem PROVE CommandOK'
<1>1. CommandOK /\ files \in [Paths -> Content] /\ cmd.op = "apply"
  BY DEF TypeInv, MemoryTypeOK, StageApply, ValidateTargets, RenameItem
<1>2. /\ cmd.done \in Seq(Action) /\ cmd.i = Len(cmd.done) + 1 /\ cmd.i <= Len(cmd.actions) + 1
      /\ cmd.actions \in Seq(Action) /\ cmd.actions # <<>>
  BY <1>1 DEF CommandOK
<1>3. CASE StageApply
  <2> DEFINE temps == [k \in DOMAIN cmd.actions |-> Temp(cmd.actions[k])]
  <2>1. cmd' = [cmd EXCEPT !.at = "validate", !.temps = temps] /\ cmd.at = "stage"
    BY <1>3 DEF StageApply
  <2>2. ASSUME NEW k \in DOMAIN cmd.actions PROVE Temp(cmd.actions[k]) \in Content
    <3>1. cmd.actions[k] \in Action
      BY <1>2
    <3>2. cmd.actions[k].text \in Pieces /\ files[cmd.actions[k].target] \in Content
      BY <1>1, <3>1 DEF Action
    <3> QED
      BY <3>2, ContentType DEF Temp
  <2>3. temps \in Seq(Content) /\ Len(temps) = Len(cmd.actions)
    <3>1. DOMAIN cmd.actions = 1 .. Len(cmd.actions) /\ Len(cmd.actions) \in Nat
      BY <1>2
    <3> QED
      BY <2>2, <3>1
  <2> HIDE DEF temps
  <2>4. cmd' = [x \in Fields |-> cmd'[x]] /\ cmd'.i = cmd.i /\ cmd'.done = cmd.done
        /\ cmd'.op = cmd.op /\ cmd'.approval = cmd.approval /\ cmd'.items = cmd.items
        /\ cmd'.actions = cmd.actions /\ cmd'.at = "validate" /\ cmd'.temps = temps
    BY <1>1, <2>1 DEF CommandOK, Fields
  <2>5. cmd'.i = 1
    BY <1>1, <2>1, <2>4 DEF CommandOK
  <2> QED
    BY <1>1, <2>3, <2>4, <2>5 DEF CommandOK
<1>4. CASE ValidateTargets
  <2>1. cmd' = [cmd EXCEPT !.at = "rename"] /\ cmd.at = "validate"
    BY <1>4 DEF ValidateTargets
  <2>2. cmd' = [x \in Fields |-> cmd'[x]] /\ cmd'.i = cmd.i /\ cmd'.done = cmd.done
        /\ cmd'.op = cmd.op /\ cmd'.approval = cmd.approval /\ cmd'.items = cmd.items
        /\ cmd'.actions = cmd.actions /\ cmd'.at = "rename" /\ cmd'.temps = cmd.temps
    BY <1>1, <2>1 DEF CommandOK, Fields
  <2> QED
    BY <1>1, <2>1, <2>2 DEF CommandOK
<1>5. CASE RenameItem
  <2>1. cmd' = [cmd EXCEPT !.i = cmd.i + 1, !.done = Append(cmd.done, cmd.actions[cmd.i])]
        /\ cmd.at = "rename" /\ cmd.i \in DOMAIN cmd.actions
    BY <1>5 DEF RenameItem
  <2>2. cmd' = [x \in Fields |-> cmd'[x]] /\ cmd'.i = cmd.i + 1
        /\ cmd'.done = Append(cmd.done, cmd.actions[cmd.i])
        /\ cmd'.op = cmd.op /\ cmd'.approval = cmd.approval /\ cmd'.items = cmd.items
        /\ cmd'.actions = cmd.actions /\ cmd'.at = "rename" /\ cmd'.temps = cmd.temps
    BY <1>1, <2>1 DEF CommandOK, Fields
  <2>3. cmd.actions[cmd.i] \in Action
    BY <1>2, <2>1
  <2>4. cmd'.done \in Seq(Action) /\ Len(cmd'.done) = Len(cmd.done) + 1
    BY <1>2, <2>2, <2>3
  <2>5. cmd'.i = Len(cmd'.done) + 1 /\ cmd'.i <= Len(cmd.actions) + 1 /\ cmd'.i \in Nat \ {0}
    BY <1>2, <2>1, <2>2, <2>4
  <2> QED
    BY <1>1, <2>1, <2>2, <2>4, <2>5 DEF CommandOK
<1> QED
  BY <1>3, <1>4, <1>5

LEMMA CommandNext == TypeInv /\ [MemoryNext]_vars => CommandOK'
<1> SUFFICES ASSUME TypeInv, [MemoryNext]_vars PROVE CommandOK'
  OBVIOUS
<1>1. CASE cmd' = cmd
  BY <1>1 DEF TypeInv, CommandOK
<1>2. CASE cmd' = Idle
  BY <1>2, CommandEnds
<1>3. CASE MaterializeStart \/ ApplyStart \/ RestoreStart
  BY <1>3, CommandBegins
<1>4. CASE CopyItem \/ RestoreItem
  BY <1>4, CommandGoesOn
<1>5. CASE StageApply \/ ValidateTargets \/ RenameItem
  BY <1>5, CommandApplies
<1> QED
  BY <1>1, <1>2, <1>3, <1>4, <1>5
     DEF MemoryNext, Approve, BuildBackupPlan, BuildRestorePreview, CopyFails, MaterializeDone,
         ApplyRefused, RenameFails, HashFails, ApplyDone, RestoreFails, RestoreDone, Dies,
         EditFile, TakeBack, Overwrite, DamageBackup, EditProposal, EditPolicy, artifacts, history, vars

LEMMA FilesType == TypeInv /\ [MemoryNext]_vars => files' \in [Paths -> Content]
<1> SUFFICES ASSUME TypeInv, [MemoryNext]_vars PROVE files' \in [Paths -> Content]
  OBVIOUS
<1>1. /\ files \in [Paths -> Content] /\ backup \in [Paths -> Content]
      /\ CommandOK /\ UndoOK
  BY DEF TypeInv, MemoryTypeOK
<1>2. CASE files' = files
  BY <1>1, <1>2
<1>3. CASE RenameItem
  <2> DEFINE a == cmd.actions[cmd.i]
  <2>1. /\ cmd.op = "apply" /\ cmd.at = "rename" /\ cmd.i \in DOMAIN cmd.actions
        /\ files' = Renamed(files, a, cmd.temps[cmd.i])
    BY <1>3 DEF RenameItem
  <2>2. /\ cmd.actions \in Seq(Action) /\ cmd.temps \in Seq(Content)
        /\ Len(cmd.temps) = Len(cmd.actions)
    BY <1>1, <2>1 DEF CommandOK
  <2>3. a \in Action /\ cmd.temps[cmd.i] \in Content
    BY <2>1, <2>2
  <2>4. a.target \in Paths /\ a.archive \in Paths
    BY <2>3 DEF Action
  <2> HIDE DEF a
  <2> QED
    BY <1>1, <2>1, <2>3, <2>4, ContentType DEF Renamed
<1>4. CASE RestoreItem
  <2>1. cmd.i \in DOMAIN cmd.items /\ cmd.items \in Seq(Item)
    BY <1>1, <1>4 DEF RestoreItem, CommandOK
  <2>2. cmd.items[cmd.i] \in Item
    BY <2>1
  <2>3. cmd.items[cmd.i].path \in Paths
    BY <2>2 DEF Item
  <2> QED
    BY <1>1, <1>4, <2>3, ContentType DEF RestoreItem
<1>5. CASE \E p \in Paths : EditFile(p) \/ TakeBack(p)
  <2>1. PICK p \in Paths : EditFile(p) \/ TakeBack(p)
    BY <1>5
  <2>2. \E c \in Content : files' = [files EXCEPT ![p] = c]
    BY <1>1, <2>1, ContentType DEF EditFile, TakeBack, Overwrite, UndoOK
  <2> QED
    BY <1>1, <2>2
<1> QED
  BY <1>2, <1>3, <1>4, <1>5
     DEF MemoryNext, Approve, BuildBackupPlan, BuildRestorePreview, MaterializeStart, CopyItem,
         CopyFails, MaterializeDone, ApplyStart, StageApply, ValidateTargets, ApplyRefused,
         RenameFails, HashFails, ApplyDone, RestoreStart, RestoreFails, RestoreDone, Dies,
         DamageBackup, EditProposal, EditPolicy, vars

LEMMA BackupType == TypeInv /\ [MemoryNext]_vars => backup' \in [Paths -> Content]
<1> SUFFICES ASSUME TypeInv, [MemoryNext]_vars PROVE backup' \in [Paths -> Content]
  OBVIOUS
<1>1. files \in [Paths -> Content] /\ backup \in [Paths -> Content] /\ CommandOK
  BY DEF TypeInv, MemoryTypeOK
<1>2. CASE backup' = backup
  BY <1>1, <1>2
<1>3. CASE CopyItem \/ CopyFails
  <2>1. cmd.i \in DOMAIN cmd.items /\ cmd.items \in Seq(Item)
    BY <1>1, <1>3 DEF CopyItem, CopyFails, CommandOK
  <2>2. cmd.items[cmd.i] \in Item
    BY <2>1
  <2>3. cmd.items[cmd.i].path \in Paths
    BY <2>2 DEF Item
  <2>4. \/ backup' = backup
        \/ \E c \in Content : backup' = [backup EXCEPT ![cmd.items[cmd.i].path] = c]
    BY <1>1, <1>3, <2>3, ContentType DEF CopyItem, CopyFails
  <2> QED
    BY <1>1, <2>4
<1>4. CASE \E p \in Paths : DamageBackup(p)
  BY <1>1, <1>4, ContentType DEF DamageBackup
<1> QED
  BY <1>2, <1>3, <1>4
     DEF MemoryNext, Approve, BuildBackupPlan, BuildRestorePreview, MaterializeStart,
         MaterializeDone, ApplyStart, StageApply, ValidateTargets, ApplyRefused, RenameItem,
         RenameFails, HashFails, ApplyDone, RestoreStart, RestoreItem, RestoreFails, RestoreDone,
         Dies, EditFile, TakeBack, Overwrite, EditProposal, EditPolicy, vars

\* What the operator and everybody else write by hand.
ByHandOK ==
  /\ proposal \in Proposals /\ policy \in Policies /\ approval.id \in 0 .. MaxApprovals
  /\ granted \subseteq Proposals /\ ApprovalOK

LEMMA ByHandNext == ByHandOK /\ [MemoryNext]_vars => ByHandOK'
<1> SUFFICES ASSUME ByHandOK, [MemoryNext]_vars PROVE ByHandOK'
  OBVIOUS
<1>1. CASE UNCHANGED <<proposal, policy, approval, granted>>
  BY <1>1 DEF ByHandOK, ApprovalOK
<1>2. CASE \E d \in {"approved", "rejected"} : Approve(d)
  <2>1. PICK d \in {"approved", "rejected"} : Approve(d)
    BY <1>2
  <2>2. approval'.id = approval.id + 1 /\ approval.id < MaxApprovals /\ UNCHANGED <<proposal, policy>>
    BY <2>1 DEF Approve
  <2>3. granted' \subseteq Proposals
    BY <2>1 DEF Approve, ByHandOK
  <2>4. approval.id + 1 \in 0 .. MaxApprovals /\ approval.id + 1 # 0
    BY <2>2, Bounds DEF ByHandOK
  <2> QED
    BY <2>2, <2>3, <2>4 DEF ByHandOK, ApprovalOK
<1>3. CASE EditProposal \/ EditPolicy
  BY <1>3 DEF EditProposal, EditPolicy, history, ByHandOK, ApprovalOK
<1> QED
  BY <1>1, <1>2, <1>3
     DEF MemoryNext, BuildBackupPlan, BuildRestorePreview, MaterializeStart, CopyItem,
         CopyFails, MaterializeDone, ApplyStart, StageApply, ValidateTargets, ApplyRefused,
         RenameItem, RenameFails, HashFails, ApplyDone, RestoreStart, RestoreItem, RestoreFails,
         RestoreDone, Dies, EditFile, TakeBack, Overwrite, DamageBackup, artifacts, history, vars

\* The artifacts that commands write from each other.
WrittenOK ==
  /\ \A a \in {plan, result, preview} : a.approval \in 0 .. MaxApprovals /\ a.items \in Seq(Item)
  /\ Distinct(plan.items)

\* A preview has the items of the plan.
LEMMA PreviewType ==
  ASSUME WrittenOK, RestoreReady
  PROVE  /\ RestorePreview.approval = plan.approval /\ RestorePreview.items \in Seq(Item)
         /\ DOMAIN RestorePreview.items = DOMAIN plan.items
         /\ \A k \in DOMAIN plan.items :
              /\ RestorePreview.items[k].path = plan.items[k].path
              /\ RestorePreview.items[k].op = plan.items[k].op
              /\ RestorePreview.items[k].sha = plan.items[k].sha
              /\ \E res \in Elements(result.items) :
                   /\ res.path = plan.items[k].path
                   /\ RestorePreview.items[k].copied = res.copied
<1> DEFINE Res(it) == CHOOSE x \in Elements(result.items) : x.path = it.path
           New(it) == [it EXCEPT !.copied = Res(it).copied]
           items == RestorePreview.items
<1>1. RestorePreview.approval = plan.approval /\ items = [k \in DOMAIN plan.items |-> New(plan.items[k])]
  BY DEF RestorePreview
<1>2. plan.items \in Seq(Item) /\ result.items \in Seq(Item)
  BY DEF WrittenOK
<1>3. ASSUME NEW k \in DOMAIN plan.items
      PROVE  /\ Res(plan.items[k]) \in Elements(result.items)
             /\ Res(plan.items[k]).path = plan.items[k].path
  <2>1. plan.items[k] \in Elements(plan.items)
    BY DEF Elements
  <2>2. \E res \in Elements(result.items) : res.path = plan.items[k].path
    BY <2>1 DEF RestoreReady
  <2> QED
    BY <2>2
<1>4. ASSUME NEW k \in DOMAIN plan.items
      PROVE  /\ New(plan.items[k]) \in Item /\ New(plan.items[k]).path = plan.items[k].path
             /\ New(plan.items[k]).op = plan.items[k].op /\ New(plan.items[k]).sha = plan.items[k].sha
             /\ New(plan.items[k]).copied = Res(plan.items[k]).copied
  <2>1. plan.items[k] \in Item
    BY <1>2
  <2>2. Res(plan.items[k]) \in Item
    <3>1. \A x \in Elements(result.items) : x \in Item
      BY <1>2 DEF Elements
    <3> HIDE DEF Res
    <3> QED
      BY <1>3, <3>1
  <2>3. Res(plan.items[k]).copied \in Content
    BY <2>2 DEF Item
  <2> HIDE DEF Res
  <2> QED
    BY <2>1, <2>3 DEF Item
<1>5. DOMAIN plan.items = 1 .. Len(plan.items) /\ Len(plan.items) \in Nat
  BY <1>2
<1> HIDE DEF New, Res, items
<1>6. items \in Seq(Item) /\ DOMAIN items = DOMAIN plan.items
  BY <1>1, <1>4, <1>5
<1>7. ASSUME NEW k \in DOMAIN plan.items
      PROVE  /\ items[k].path = plan.items[k].path /\ items[k].op = plan.items[k].op
             /\ items[k].sha = plan.items[k].sha
             /\ \E res \in Elements(result.items) :
                  res.path = plan.items[k].path /\ items[k].copied = res.copied
  BY <1>1, <1>3, <1>4
<1> QED
  BY <1>1, <1>6, <1>7 DEF items

LEMMA WrittenNext == TypeInv /\ [MemoryNext]_vars => WrittenOK'
<1> SUFFICES ASSUME TypeInv, [MemoryNext]_vars PROVE WrittenOK'
  OBVIOUS
<1>1. WrittenOK /\ ByHandOK /\ CommandOK /\ files \in [Paths -> Content]
  BY DEF TypeInv, MemoryTypeOK, WrittenOK, ByHandOK
<1>2. CASE UNCHANGED <<plan, result, preview>>
  BY <1>1, <1>2 DEF WrittenOK
<1>3. CASE BuildBackupPlan
  <2>1. /\ plan'.approval = approval.id /\ plan'.items = PlanFor(proposal, files)
        /\ UNCHANGED <<result, preview>>
    BY <1>3 DEF BuildBackupPlan
  <2>2. proposal \in Proposal
    BY <1>1, ProposalActions DEF ByHandOK
  <2>3. plan'.items \in Seq(Item) /\ Distinct(plan'.items)
    BY <1>1, <2>1, <2>2, PlanType
  <2> QED
    BY <1>1, <2>1, <2>3 DEF WrittenOK, ByHandOK
<1>4. CASE BuildRestorePreview
  <2>1. preview' = RestorePreview /\ UNCHANGED <<plan, result>> /\ RestoreReady
    BY <1>4 DEF BuildRestorePreview
  <2>2. RestorePreview.approval = plan.approval /\ RestorePreview.items \in Seq(Item)
    BY <1>1, <2>1, PreviewType
  <2> QED
    BY <1>1, <2>1, <2>2 DEF WrittenOK
<1>5. CASE MaterializeDone
  <2>1. /\ result'.approval = cmd.approval /\ result'.items = cmd.done
        /\ UNCHANGED <<plan, preview>> /\ cmd.op = "materialize"
    BY <1>5 DEF MaterializeDone
  <2>2. cmd.done \in Seq(Item) /\ cmd.approval \in 0 .. MaxApprovals
    BY <1>1, <2>1 DEF CommandOK
  <2> QED
    BY <1>1, <2>1, <2>2 DEF WrittenOK
<1> QED
  BY <1>2, <1>3, <1>4, <1>5
     DEF MemoryNext, Approve, MaterializeStart, CopyItem, CopyFails, ApplyStart, StageApply,
         ValidateTargets, ApplyRefused, RenameItem, RenameFails, HashFails, ApplyDone,
         RestoreStart, RestoreItem, RestoreFails, RestoreDone, Dies, EditFile, TakeBack,
         Overwrite, DamageBackup, EditProposal, EditPolicy, artifacts, vars

\* The bounded counters and the history.
CountsOK ==
  /\ edits \in 0 .. MaxEdits /\ faults \in 0 .. MaxFaults
  /\ late \subseteq Paths /\ misread \subseteq Paths /\ harmed \subseteq Paths

LEMMA CountsNext == TypeInv /\ [MemoryNext]_vars => CountsOK'
<1> SUFFICES ASSUME TypeInv, [MemoryNext]_vars PROVE CountsOK'
  OBVIOUS
<1>1. CountsOK /\ CommandOK
  BY DEF TypeInv, MemoryTypeOK, CountsOK
<1>2. edits' \in 0 .. MaxEdits
  <2>1. edits' = edits \/ (edits < MaxEdits /\ edits' = edits + 1)
    BY DEF MemoryNext, Approve, BuildBackupPlan, BuildRestorePreview, MaterializeStart,
           CopyItem, CopyFails, MaterializeDone, ApplyStart, StageApply, ValidateTargets,
           ApplyRefused, RenameItem, RenameFails, HashFails, ApplyDone, RestoreStart,
           RestoreItem, RestoreFails, RestoreDone, Dies, EditFile, TakeBack, DamageBackup,
           EditProposal, EditPolicy, vars
  <2> QED
    BY <1>1, <2>1, Bounds DEF CountsOK
<1>3. faults' \in 0 .. MaxFaults
  <2>1. faults' = faults \/ (faults < MaxFaults /\ faults' = faults + 1)
    BY DEF MemoryNext, Approve, BuildBackupPlan, BuildRestorePreview, MaterializeStart,
           CopyItem, CopyFails, MaterializeDone, ApplyStart, StageApply, ValidateTargets,
           ApplyRefused, RenameItem, RenameFails, HashFails, ApplyDone, RestoreStart,
           RestoreItem, RestoreFails, RestoreDone, Dies, EditFile, TakeBack, Overwrite,
           DamageBackup, EditProposal, EditPolicy, vars
  <2> QED
    BY <1>1, <2>1, Bounds DEF CountsOK
<1>4. misread' \subseteq Paths
  <2>1. CASE StageApply
    <3>1. ASSUME NEW a \in Elements(cmd.actions) PROVE a.target \in Paths
      <4>1. cmd.actions \in Seq(Action)
        BY <1>1 DEF CommandOK
      <4>2. a \in Action
        BY <4>1 DEF Elements
      <4> QED
        BY <4>2 DEF Action
    <3> QED
      BY <2>1, <3>1 DEF StageApply
  <2>2. CASE misread' = misread \/ misread' = {}
    BY <1>1, <2>2 DEF CountsOK
  <2> QED
    BY <2>1, <2>2
       DEF MemoryNext, Approve, BuildBackupPlan, BuildRestorePreview, MaterializeStart,
           CopyItem, CopyFails, MaterializeDone, ApplyStart, ValidateTargets,
           ApplyRefused, RenameItem, RenameFails, HashFails, ApplyDone, RestoreStart,
           RestoreItem, RestoreFails, RestoreDone, Dies, EditFile, TakeBack, Overwrite,
           DamageBackup, EditProposal, EditPolicy, vars, history
<1>5. late' \subseteq Paths
  <2>1. late' \subseteq late \/ \E p \in Paths : late' = late \cup {p}
    BY DEF MemoryNext, Approve, BuildBackupPlan, BuildRestorePreview, MaterializeStart,
           CopyItem, CopyFails, MaterializeDone, ApplyStart, StageApply, ValidateTargets,
           ApplyRefused, RenameItem, RenameFails, HashFails, ApplyDone, RestoreStart,
           RestoreItem, RestoreFails, RestoreDone, Dies, EditFile, TakeBack, Overwrite,
           DamageBackup, EditProposal, EditPolicy, vars, history
  <2> QED
    BY <1>1, <2>1 DEF CountsOK
<1>6. harmed' \subseteq Paths
  <2>1. harmed' \subseteq harmed \/ \E p \in Paths : harmed' = harmed \cup {p}
    BY DEF MemoryNext, Approve, BuildBackupPlan, BuildRestorePreview, MaterializeStart,
           CopyItem, CopyFails, MaterializeDone, ApplyStart, StageApply, ValidateTargets,
           ApplyRefused, RenameItem, RenameFails, HashFails, ApplyDone, RestoreStart,
           RestoreItem, RestoreFails, RestoreDone, Dies, EditFile, TakeBack, Overwrite,
           DamageBackup, EditProposal, EditPolicy, vars, history
  <2> QED
    BY <1>1, <2>1 DEF CountsOK
<1> QED
  BY <1>2, <1>3, <1>4, <1>5, <1>6 DEF CountsOK

LEMMA UndoNext == TypeInv /\ [MemoryNext]_vars => UndoOK'
<1> SUFFICES ASSUME TypeInv, [MemoryNext]_vars PROVE UndoOK'
  OBVIOUS
<1>1. UndoOK /\ WrittenOK
  BY DEF TypeInv, MemoryTypeOK, WrittenOK
<1>2. CASE undo' = undo
  BY <1>1, <1>2 DEF UndoOK
<1>3. CASE undo' = << >>
  BY <1>3 DEF UndoOK
<1>4. CASE ApplyStart
  <2>1. undo' = [p \in PathsOf(plan.items) |-> Planned(p)]
    BY <1>4 DEF ApplyStart
  <2>2. ASSUME NEW p \in PathsOf(plan.items) PROVE Planned(p) \in Content
    <3>1. PICK k \in DOMAIN plan.items : plan.items[k].path = p
      BY DEF PathsOf
    <3>2. Planned(p) = plan.items[k].sha
      BY <1>1, <3>1, PlannedItem DEF WrittenOK
    <3>3. plan.items[k] \in Item
      BY <1>1 DEF WrittenOK
    <3> QED
      BY <3>2, <3>3 DEF Item
  <2> QED
    BY <2>1, <2>2 DEF UndoOK, PathsOf
<1> QED
  BY <1>2, <1>3, <1>4
     DEF MemoryNext, Approve, BuildBackupPlan, BuildRestorePreview, MaterializeStart, CopyItem,
         CopyFails, MaterializeDone, StageApply, ValidateTargets, ApplyRefused, RenameItem,
         RenameFails, HashFails, ApplyDone, RestoreStart, RestoreItem, RestoreFails, RestoreDone,
         Dies, EditFile, TakeBack, Overwrite, DamageBackup, EditProposal, EditPolicy, history, vars

\* The loops stay within the items and the actions.
LEMMA LoopBound == CommandOK => cmd.i \in 1 .. (Len(cmd.items) + Len(cmd.actions) + 1)
<1> SUFFICES ASSUME CommandOK PROVE cmd.i \in 1 .. (Len(cmd.items) + Len(cmd.actions) + 1)
  OBVIOUS
<1>1. Len(cmd.items) \in Nat /\ Len(cmd.actions) \in Nat
  BY DEF CommandOK
<1>2. cmd.i \in Nat \ {0} /\ (cmd.i <= Len(cmd.items) + 1 \/ cmd.i <= Len(cmd.actions) + 1)
  BY <1>1 DEF CommandOK
<1> DEFINE m == Len(cmd.items)
           n == Len(cmd.actions)
           i == cmd.i
<1>3. m \in Nat /\ n \in Nat /\ i \in Nat \ {0} /\ (i <= m + 1 \/ i <= n + 1)
  BY <1>1, <1>2
<1> HIDE DEF m, n, i
<1>4. i \in 1 .. (m + n + 1)
  BY <1>3
<1> QED
  BY <1>4 DEF m, n, i

LEMMA TypesNext == TypeInv /\ [MemoryNext]_vars => TypeInv'
<1> SUFFICES ASSUME TypeInv, [MemoryNext]_vars PROVE TypeInv'
  OBVIOUS
<1>1. ByHandOK
  BY DEF TypeInv, MemoryTypeOK, ByHandOK
<1>2. ByHandOK' /\ WrittenOK' /\ CountsOK' /\ UndoOK' /\ CommandOK'
  BY <1>1, ByHandNext, WrittenNext, CountsNext, UndoNext, CommandNext
<1>3. files' \in [Paths -> Content] /\ backup' \in [Paths -> Content]
  BY FilesType, BackupType
<1>4. cmd'.i \in 1 .. (Len(cmd'.items) + Len(cmd'.actions) + 1)
  <2>1. (CommandOK => cmd.i \in 1 .. (Len(cmd.items) + Len(cmd.actions) + 1))'
    BY LoopBound, PTL
  <2> QED
    BY <1>2, <2>1
<1>5. MemoryTypeOK'
  BY <1>2, <1>3, <1>4 DEF MemoryTypeOK, ByHandOK, WrittenOK, CountsOK, CommandOK
<1> QED
  BY <1>2, <1>5 DEF TypeInv, ByHandOK

LEMMA TypesInit == MemoryInit => TypeInv
<1> SUFFICES ASSUME MemoryInit PROVE TypeInv
  OBVIOUS
<1>1. \A T : <<>> \in Seq(T)
  OBVIOUS
<1>2. CommandOK
  <2>1. cmd = Idle
    BY DEF MemoryInit
  <2>2. cmd = [x \in Fields |-> cmd[x]] /\ cmd.op = "idle"
    BY <2>1, IdleShape
  <2>3. cmd.i = 1 /\ cmd.approval = 0 /\ cmd.items \in Seq(Item) /\ cmd.actions \in Seq(Action)
    BY <1>1, <2>1 DEF Idle
  <2>4. cmd.approval \in 0 .. MaxApprovals /\ cmd.i \in Nat \ {0}
    BY <2>3, Bounds
  <2> QED
    BY <2>2, <2>3, <2>4 DEF CommandOK
<1>3. UndoOK /\ ApprovalOK
  BY DEF MemoryInit, UndoOK, ApprovalOK, NoApproval
<1>4. files \in [Paths -> Content] /\ backup \in [Paths -> Content]
  BY MemoryAssumption, ContentType DEF MemoryInit
<1>5. proposal \in Proposals /\ policy \in Policies /\ granted \subseteq Proposals
  BY DEF MemoryInit
<1>6. approval.id \in 0 .. MaxApprovals
  <2>1. approval.id = 0
    BY DEF MemoryInit, NoApproval
  <2> QED
    BY <2>1, Bounds
<1>7. WrittenOK
  <2>1. \A a \in {plan, result, preview} : a.approval = 0 /\ a.items = <<>>
    BY DEF MemoryInit
  <2>2. 0 \in 0 .. MaxApprovals
    BY Bounds
  <2>3. Distinct(<<>>)
    BY DEF Distinct
  <2> QED
    BY <1>1, <2>1, <2>2, <2>3 DEF WrittenOK
<1>8. CountsOK
  <2>1. edits = 0 /\ faults = 0 /\ late = {} /\ misread = {} /\ harmed = {}
    BY DEF MemoryInit
  <2> QED
    BY <2>1, Bounds DEF CountsOK
<1>9. cmd.i \in 1 .. (Len(cmd.items) + Len(cmd.actions) + 1)
  BY <1>2, LoopBound
<1>10. MemoryTypeOK
  BY <1>2, <1>4, <1>5, <1>6, <1>7, <1>8, <1>9 DEF MemoryTypeOK, CommandOK, WrittenOK, CountsOK
<1> QED
  BY <1>2, <1>3, <1>10 DEF TypeInv

\* Files, artifacts and commands have their types, and a plan names every file once.
THEOREM MemoryTypeCorrect == MemorySpec => []MemoryTypeOK
<1>1. TypeInv => MemoryTypeOK
  BY DEF TypeInv
<1> QED
  BY <1>1, TypesInit, TypesNext, PTL DEF MemorySpec

-----------------------------------------------------------------------------
(* Restore undoes the apply.  Plan and result name the files of the apply   *)
(* and agree on them, so that a restore is not refused; its items carry     *)
(* what the files held before the apply; and those before cmd.i are back.   *)

\* The result covers the item of the plan.
Agrees(it, res) ==
  /\ res.path = it.path /\ res.op = it.op
  /\ (res.sha = Missing) = (it.sha = Missing)
  /\ it.sha # Missing => res.copied = it.sha

Recoverable ==
  DOMAIN undo # {} =>
    /\ plan.approval # 0 /\ result.approval = plan.approval
    /\ Distinct(plan.items) /\ Distinct(result.items)
    /\ \A k \in DOMAIN plan.items :
         /\ plan.items[k].path \in DOMAIN undo
         /\ \E l \in DOMAIN result.items : Agrees(plan.items[k], result.items[l])
Backed == \A p \in DOMAIN undo \ harmed : undo[p] # Missing => backup[p] \in {undo[p], CutShort}

RestoreCovers(p) ==
  /\ \E k \in DOMAIN cmd.items : cmd.items[k].path = p
  /\ \A k \in DOMAIN cmd.items : cmd.items[k].path = p =>
       /\ cmd.items[k].sha = undo[p]
       /\ undo[p] # Missing => cmd.items[k].copied = undo[p]
Restoring ==
  cmd.op = "restore" =>
    /\ last.op = "none"
    /\ \A p \in DOMAIN undo : RestoreCovers(p)
    /\ \A k \in DOMAIN cmd.items : k < cmd.i =>
         \A p \in DOMAIN undo \ late : cmd.items[k].path = p => files[p] = undo[p]
Restored ==
  last.op = "restore" => cmd.op = "idle" /\ \A p \in DOMAIN undo \ late : files[p] = undo[p]

RestoreInv == Recoverable /\ Backed /\ Restoring /\ Restored

LEMMA RestoreInvInit == MemoryInit => RestoreInv
<1> SUFFICES ASSUME MemoryInit PROVE RestoreInv
  OBVIOUS
<1>1. DOMAIN undo = {}
  BY DEF MemoryInit
<1>2. cmd.op = "idle"
  BY IdleShape DEF MemoryInit
<1>3. last.op = "none"
  BY DEF MemoryInit, NoOutcome
<1> QED
  BY <1>1, <1>2, <1>3 DEF RestoreInv, Recoverable, Backed, Restoring, Restored

LEMMA RecoverableNext == TypeInv /\ RestoreInv /\ [MemoryNext]_vars => Recoverable'
<1> SUFFICES ASSUME TypeInv, RestoreInv, [MemoryNext]_vars PROVE Recoverable'
  OBVIOUS
<1>1. CASE UNCHANGED <<plan, result, undo>>
  BY <1>1 DEF RestoreInv, Recoverable, Agrees
<1>2. CASE undo' = << >>
  BY <1>2 DEF Recoverable
<1>3. CASE ApplyStart
  <2>1. /\ undo' = [p \in PathsOf(plan.items) |-> Planned(p)] /\ UNCHANGED <<plan, result>>
        /\ PreflightOK /\ PlanHolds /\ ResultCovers
        /\ plan.approval = approval.id /\ result.approval = approval.id
    BY <1>3 DEF ApplyStart, ApplyReady, artifacts
  <2>2. plan.approval # 0
    BY <2>1 DEF PreflightOK, TypeInv, ApprovalOK
  <2>3. ASSUME NEW k \in DOMAIN plan.items
        PROVE  /\ plan.items[k].path \in DOMAIN undo'
               /\ \E l \in DOMAIN result.items : Agrees(plan.items[k], result.items[l])
    <3>1. plan.items[k] \in Item
      BY DEF TypeInv, MemoryTypeOK
    <3>2. plan.items[k].path \in PathsOf(plan.items)
      BY <3>1 DEF Item, PathsOf
    <3>3. PICK l \in DOMAIN result.items : result.items[l].path = plan.items[k].path
      BY <2>1, <3>2 DEF ResultCovers, PathsOf
    <3>4. Covers(plan.items[k], result.items[l])
      BY <2>1, <3>3 DEF ResultCovers, Elements
    <3> QED
      BY <2>1, <3>2, <3>3, <3>4 DEF Covers, Agrees
  <2>4. Distinct(plan.items) /\ Distinct(result.items)
    BY <2>1 DEF PlanHolds, ResultCovers
  <2> QED
    BY <2>1, <2>2, <2>3, <2>4 DEF Recoverable
<1> QED
  BY <1>1, <1>2, <1>3
     DEF MemoryNext, Approve, BuildBackupPlan, BuildRestorePreview, MaterializeStart, CopyItem,
         CopyFails, MaterializeDone, StageApply, ValidateTargets, ApplyRefused, RenameItem,
         RenameFails, HashFails, ApplyDone, RestoreStart, RestoreItem, RestoreFails, RestoreDone,
         Dies, EditFile, TakeBack, Overwrite, DamageBackup, EditProposal, EditPolicy, artifacts,
         history, vars

LEMMA BackedNext == TypeInv /\ LostInv /\ LostInv' /\ RestoreInv /\ [MemoryNext]_vars => Backed'
<1> SUFFICES ASSUME TypeInv, LostInv, LostInv', RestoreInv, [MemoryNext]_vars PROVE Backed'
  OBVIOUS
<1>1. CASE UNCHANGED <<backup, undo>> /\ harmed \subseteq harmed'
  BY <1>1 DEF RestoreInv, Backed
<1>2. CASE undo' = << >>
  BY <1>2 DEF Backed
<1>3. CASE ApplyStart
  <2>1. cmd'.op = "apply"
    BY <1>3, ApplyBegins
  <2> QED
    BY <2>1 DEF LostInv, CopiesHold, Backed
<1>4. CASE CopyItem \/ CopyFails
  <2> DEFINE f == cmd.items[cmd.i].path
  <2>1. cmd.op = "materialize" /\ UNCHANGED <<undo, harmed>>
    BY <1>4 DEF CopyItem, CopyFails, history
  <2>2. backup' \in {backup, [backup EXCEPT ![f] = files[f]], [backup EXCEPT ![f] = CutShort]}
    BY <1>4 DEF CopyItem, CopyFails
  <2>3. ASSUME NEW p \in DOMAIN undo \ harmed, undo[p] # Missing
        PROVE  backup'[p] \in {undo[p], CutShort}
    <3>1. backup[p] \in {undo[p], CutShort} /\ files[p] = undo[p] /\ p \in Paths
      BY <2>1, <2>3 DEF RestoreInv, Backed, LostInv, CopiesHold, ShapesOK
    <3>2. backup \in [Paths -> Content]
      BY DEF TypeInv, MemoryTypeOK
    <3> HIDE DEF f
    <3> QED
      BY <2>2, <3>1, <3>2
  <2> QED
    BY <2>1, <2>3 DEF Backed
<1>5. CASE \E p \in Paths : DamageBackup(p)
  <2>1. PICK f \in Paths : DamageBackup(f)
    BY <1>5
  <2>2. undo' = undo /\ harmed' = harmed \cup {f} /\ backup' = [backup EXCEPT ![f] = Edited]
    BY <2>1 DEF DamageBackup
  <2>3. backup \in [Paths -> Content] /\ DOMAIN undo \subseteq Paths
    BY DEF TypeInv, MemoryTypeOK, UndoOK
  <2> QED
    BY <2>2, <2>3 DEF RestoreInv, Backed
<1> QED
  BY <1>1, <1>2, <1>3, <1>4, <1>5
     DEF MemoryNext, Approve, BuildBackupPlan, BuildRestorePreview, MaterializeStart,
         MaterializeDone, StageApply, ValidateTargets, ApplyRefused, RenameItem,
         RenameFails, HashFails, ApplyDone, RestoreStart, RestoreItem, RestoreFails, RestoreDone,
         Dies, EditFile, TakeBack, Overwrite, EditProposal, EditPolicy, artifacts,
         history, vars

\* What an outsider does to the files is late.
LEMMA EditsAreLate ==
  ASSUME TypeInv, NEW f \in Paths, EditFile(f) \/ TakeBack(f) \/ DamageBackup(f)
  PROVE  /\ UNCHANGED <<undo, cmd, last, misread, plan, result>> /\ late \subseteq late'
         /\ \A p \in Paths \ late' : files'[p] = files[p]
<1>1. /\ UNCHANGED <<undo, cmd, last, misread, plan, result>>
      /\ \/ files' = files /\ late' = late
         \/ late' = late \cup {f} /\ \E c : files' = [files EXCEPT ![f] = c]
  BY DEF EditFile, TakeBack, Overwrite, DamageBackup, artifacts
<1>2. files \in [Paths -> Content]
  BY DEF TypeInv, MemoryTypeOK
<1> QED
  BY <1>1, <1>2

LEMMA RestoringStart == TypeInv /\ LostInv /\ RestoreStart => Restoring'
<1> SUFFICES ASSUME TypeInv, LostInv, RestoreStart PROVE Restoring'
  OBVIOUS
<1>1. /\ cmd' = [Idle EXCEPT !.op = "restore", !.approval = plan.approval, !.items = preview.items]
      /\ RestoreReady /\ preview = RestorePreview /\ last' = NoOutcome
      /\ UNCHANGED <<files, undo>>
  BY DEF RestoreStart
<1>2. cmd'.items = RestorePreview.items /\ cmd'.i = 1
  BY <1>1 DEF Idle
<1>3. WrittenOK
  BY DEF TypeInv, MemoryTypeOK, WrittenOK
<1>4. /\ DOMAIN cmd'.items = DOMAIN plan.items
      /\ \A k \in DOMAIN plan.items :
           /\ cmd'.items[k].path = plan.items[k].path /\ cmd'.items[k].sha = plan.items[k].sha
           /\ \E res \in Elements(result.items) :
                res.path = plan.items[k].path /\ cmd'.items[k].copied = res.copied
  BY <1>1, <1>2, <1>3, PreviewType
<1>5. ASSUME NEW p \in DOMAIN undo' PROVE RestoreCovers(p)'
  <2>1. PlanSays(p) /\ ResultSays(p)
    BY <1>1 DEF LostInv
  <2>2. ASSUME NEW k \in DOMAIN plan.items, plan.items[k].path = p, undo[p] # Missing
        PROVE  cmd'.items[k].copied = undo[p]
    <3>1. PICK res \in Elements(result.items) : res.path = p /\ cmd'.items[k].copied = res.copied
      BY <1>4, <2>2
    <3> QED
      BY <2>1, <2>2, <3>1 DEF ResultSays, Elements
  <2> QED
    BY <1>1, <1>4, <2>1, <2>2 DEF RestoreCovers, PlanSays
<1>6. \A k \in DOMAIN cmd'.items : ~(k < cmd'.i)
  <2>1. DOMAIN cmd'.items \subseteq Nat \ {0}
    BY <1>3, <1>4 DEF WrittenOK
  <2> QED
    BY <1>2, <2>1
<1>7. last'.op = "none"
  BY <1>1 DEF NoOutcome
<1> QED
  BY <1>5, <1>6, <1>7 DEF Restoring

LEMMA RestoringItem == TypeInv /\ Restoring /\ RestoreItem => Restoring'
<1> SUFFICES ASSUME TypeInv, Restoring, RestoreItem PROVE Restoring'
  OBVIOUS
<1> DEFINE it == cmd.items[cmd.i]
<1>1. /\ cmd.op = "restore" /\ cmd.i \in DOMAIN cmd.items
      /\ it.sha # Missing => backup[it.path] = it.copied
      /\ files' = [files EXCEPT ![it.path] = IF it.sha # Missing THEN backup[it.path] ELSE Missing]
      /\ UNCHANGED <<last, undo, late>>
  BY DEF RestoreItem, history
<1>2. cmd'.items = cmd.items /\ cmd'.i = cmd.i + 1 /\ cmd'.op = "restore"
  BY <1>1 DEF RestoreItem, TypeInv, CommandOK, Fields
<1>3. /\ files \in [Paths -> Content] /\ cmd.i \in Nat /\ DOMAIN cmd.items \subseteq Nat
      /\ DOMAIN undo \subseteq Paths
  <2>1. cmd.i \in Nat /\ cmd.items \in Seq(Item)
    BY DEF TypeInv, CommandOK
  <2>2. files \in [Paths -> Content] /\ DOMAIN undo \subseteq Paths
    BY DEF TypeInv, MemoryTypeOK, UndoOK
  <2> QED
    BY <2>1, <2>2
<1>4. ASSUME NEW p \in DOMAIN undo, it.path = p PROVE files'[p] = undo[p]
  <2>1. it.sha = undo[p] /\ (undo[p] # Missing => it.copied = undo[p])
    BY <1>1, <1>4 DEF Restoring, RestoreCovers
  <2> HIDE DEF it
  <2> QED
    BY <1>1, <1>3, <1>4, <2>1
<1>5. ASSUME NEW k \in DOMAIN cmd.items, k < cmd.i + 1, NEW p \in DOMAIN undo \ late, cmd.items[k].path = p
      PROVE  files'[p] = undo[p]
  <2>1. CASE it.path = p
    BY <1>4, <2>1
  <2>2. CASE it.path # p
    <3>1. k # cmd.i
      BY <1>5, <2>2
    <3>2. k < cmd.i
      BY <1>3, <1>5, <3>1
    <3>3. files[p] = undo[p]
      BY <1>1, <1>5, <3>2 DEF Restoring
    <3> HIDE DEF it
    <3> QED
      BY <1>1, <1>3, <2>2, <3>3
  <2> QED
    BY <2>1, <2>2
<1>6. \A p \in DOMAIN undo : RestoreCovers(p)'
  BY <1>1, <1>2 DEF Restoring, RestoreCovers
<1>7. last.op = "none"
  BY <1>1 DEF Restoring
<1> QED
  BY <1>1, <1>2, <1>5, <1>6, <1>7 DEF Restoring

LEMMA RestoringNext == TypeInv /\ LostInv /\ RestoreInv /\ [MemoryNext]_vars => Restoring'
<1> SUFFICES ASSUME TypeInv, LostInv, RestoreInv, [MemoryNext]_vars PROVE Restoring'
  OBVIOUS
<1>1. CASE cmd'.op # "restore"
  BY <1>1 DEF Restoring
<1>2. CASE RestoreStart
  BY <1>2, RestoringStart
<1>3. CASE RestoreItem
  BY <1>3, RestoringItem DEF RestoreInv
<1>4. CASE \E p \in Paths : EditFile(p) \/ TakeBack(p) \/ DamageBackup(p)
  <2>1. PICK f \in Paths : EditFile(f) \/ TakeBack(f) \/ DamageBackup(f)
    BY <1>4
  <2>2. /\ UNCHANGED <<undo, cmd, last>> /\ late \subseteq late'
        /\ \A p \in Paths \ late' : files'[p] = files[p]
    BY <2>1, EditsAreLate
  <2>3. DOMAIN undo \subseteq Paths
    BY DEF TypeInv, UndoOK
  <2> QED
    BY <2>2, <2>3 DEF RestoreInv, Restoring, RestoreCovers
<1>5. CASE UNCHANGED <<cmd, undo, late, files, last>>
  BY <1>5 DEF RestoreInv, Restoring, RestoreCovers
<1>6. CASE MaterializeStart \/ ApplyStart
  BY <1>1, <1>6 DEF MaterializeStart, ApplyStart, Idle
<1>7. CASE CopyItem \/ StageApply \/ ValidateTargets \/ RenameItem
  <2>1. cmd'.op = cmd.op /\ cmd.op # "restore"
    BY <1>7 DEF CopyItem, StageApply, ValidateTargets, RenameItem, TypeInv, CommandOK, Fields
  <2> QED
    BY <1>1, <2>1
<1>8. CASE cmd' = Idle
  BY <1>1, <1>8, IdleShape
<1> QED
  BY <1>2, <1>3, <1>4, <1>5, <1>6, <1>7, <1>8
     DEF MemoryNext, Approve, BuildBackupPlan, BuildRestorePreview, CopyFails, MaterializeDone,
         ApplyRefused, RenameFails, HashFails, ApplyDone, RestoreFails, RestoreDone, Dies,
         EditProposal, EditPolicy, artifacts, history, vars

LEMMA OutcomeOp ==
  NoOutcome.op = "none" /\ \A op, status, n : Outcome(op, status, n).op = op
BY DEF NoOutcome, Outcome

LEMMA RestoredNext == TypeInv /\ RestoreInv /\ [MemoryNext]_vars => Restored'
<1> SUFFICES ASSUME TypeInv, RestoreInv, [MemoryNext]_vars PROVE Restored'
  OBVIOUS
<1>1. CASE last'.op # "restore"
  BY <1>1 DEF Restored
<1>2. CASE RestoreDone
  <2>1. /\ cmd.op = "restore" /\ cmd.i > Len(cmd.items) /\ cmd' = Idle /\ UNCHANGED <<files, undo, late>>
    BY <1>2 DEF RestoreDone, history
  <2>2. ASSUME NEW p \in DOMAIN undo \ late PROVE files[p] = undo[p]
    <3>1. PICK k \in DOMAIN cmd.items : cmd.items[k].path = p
      BY <2>1 DEF RestoreInv, Restoring, RestoreCovers
    <3>2. cmd.items \in Seq(Item) /\ cmd.i \in Nat
      BY DEF TypeInv, CommandOK
    <3>3. k < cmd.i
      BY <2>1, <3>2
    <3> QED
      BY <2>1, <3>1, <3>3 DEF RestoreInv, Restoring
  <2>3. cmd'.op = "idle"
    BY <2>1, IdleShape
  <2> QED
    BY <2>1, <2>2, <2>3 DEF Restored
<1>3. CASE ~RestoreDone /\ last'.op = "restore"
  <2>1. \/ last' = last \/ last' = NoOutcome
        \/ \E status, n : last' = Outcome("apply", status, n)
    BY <1>3
       DEF MemoryNext, Approve, BuildBackupPlan, BuildRestorePreview, MaterializeStart, CopyItem,
           CopyFails, MaterializeDone, ApplyStart, StageApply, ValidateTargets, ApplyRefused,
           RenameItem, RenameFails, HashFails, ApplyDone, RestoreStart, RestoreItem,
           RestoreFails, Dies, EditFile, TakeBack, Overwrite, DamageBackup, EditProposal,
           EditPolicy, vars
  <2>2. last' = last
    BY <1>3, <2>1, OutcomeOp
  <2>3. cmd.op = "idle" /\ \A p \in DOMAIN undo \ late : files[p] = undo[p]
    BY <1>3, <2>2 DEF RestoreInv, Restored
  <2>4. CASE \E p \in Paths : EditFile(p) \/ TakeBack(p) \/ DamageBackup(p)
    <3>1. PICK f \in Paths : EditFile(f) \/ TakeBack(f) \/ DamageBackup(f)
      BY <2>4
    <3>2. /\ UNCHANGED <<undo, cmd>> /\ late \subseteq late'
          /\ \A p \in Paths \ late' : files'[p] = files[p]
      BY <3>1, EditsAreLate
    <3>3. DOMAIN undo \subseteq Paths
      BY DEF TypeInv, UndoOK
    <3> QED
      BY <2>3, <3>2, <3>3 DEF Restored
  <2>5. CASE UNCHANGED <<files, late>> /\ cmd' \in {cmd, Idle} /\ undo' \in {undo, << >>}
    BY <2>3, <2>5, IdleShape DEF Restored
  <2>6. last'.op # "none"
    BY <1>3
  <2>7. ~MaterializeStart /\ ~ApplyStart /\ ~RestoreStart
    BY <2>6, OutcomeOp DEF MaterializeStart, ApplyStart, RestoreStart
  <2> QED
    BY <2>3, <2>4, <2>5, <2>7, <1>3
       DEF MemoryNext, Approve, BuildBackupPlan, BuildRestorePreview, CopyItem,
           CopyFails, MaterializeDone, StageApply, ValidateTargets, ApplyRefused,
           RenameItem, RenameFails, HashFails, ApplyDone, RestoreItem,
           RestoreFails, Dies, EditProposal, EditPolicy, vars, history
<1> QED
  BY <1>1, <1>2, <1>3

LEMMA RestoreInvNext ==
  TypeInv /\ LostInv /\ LostInv' /\ RestoreInv /\ [MemoryNext]_vars => RestoreInv'
BY RecoverableNext, BackedNext, RestoringNext, RestoredNext DEF RestoreInv

LEMMA RestoreIsReady ==
  ASSUME LostInv, RestoreInv, WrittenOK,
         DOMAIN undo # {}, harmed = {}, \A p \in Paths : backup[p] # CutShort
  PROVE  RestoreReady
<1>1. /\ plan.approval # 0 /\ result.approval = plan.approval
      /\ Distinct(plan.items) /\ Distinct(result.items)
  BY DEF RestoreInv, Recoverable
<1>2. ASSUME NEW it \in Elements(plan.items)
      PROVE  \E res \in Elements(result.items) : res.path = it.path /\ Restores(it, res)
  <2>1. PICK k \in DOMAIN plan.items : plan.items[k] = it
    BY DEF Elements
  <2>2. it.path \in DOMAIN undo
    BY <2>1 DEF RestoreInv, Recoverable
  <2>3. PICK l \in DOMAIN result.items : Agrees(it, result.items[l])
    BY <2>1 DEF RestoreInv, Recoverable
  <2>4. it.sha = undo[it.path]
    BY <2>1, <2>2 DEF LostInv, PlanSays
  <2>5. it.path \in Paths
    BY <2>2 DEF LostInv, ShapesOK
  <2>6. it.sha # Missing => backup[it.path] = it.sha
    BY <2>2, <2>4, <2>5 DEF RestoreInv, Backed
  <2>7. result.items[l].path = it.path /\ Restores(it, result.items[l])
    BY <2>3, <2>6 DEF Agrees, Restores
  <2>8. result.items[l] \in Elements(result.items)
    BY DEF Elements
  <2> QED
    BY <2>7, <2>8
<1> QED
  BY <1>1, <1>2 DEF RestoreReady

\* Whatever an apply and the restores after it left undone, a restore is refused only for a
\* damaged or truncated backup, and one that ends has brought every file back.
THEOREM RestoreUndoesApplyHolds == MemorySpec => []RestoreUndoesApply
<1>1. TypeInv /\ LostInv /\ RestoreInv => RestoreUndoesApply
  BY RestoreIsReady DEF RestoreUndoesApply, RestoreInv, Restored, TypeInv, MemoryTypeOK, WrittenOK
<1> QED
  BY <1>1, TypesInit, TypesNext, LostInit, LostNext, RestoreInvInit, RestoreInvNext, PTL DEF MemorySpec

-----------------------------------------------------------------------------
(* The report is true.  While an apply renames, every file nobody else has  *)
(* a part in holds what the first cmd.i - 1 actions, one after the other,   *)
(* make of the contents the apply started from.                             *)

\* What one action makes of the files.
Carried(fs, a) ==
  IF a.op = "append" /\ fs[a.target] # Missing
  THEN [fs EXCEPT ![a.target] = Append(fs[a.target], a.text)]
  ELSE Renamed(fs, a, <<a.text>>)

Fits(a, D) == a.target \in D /\ (a.op = "archive" => a.archive \in D)

LEMMA CarriedType ==
  ASSUME NEW D, NEW fs \in [D -> Content], NEW a \in Action, Fits(a, D)
  PROVE  /\ Carried(fs, a) \in [D -> Content]
         /\ \A p \in D \ Written(a) : Carried(fs, a)[p] = fs[p]
<1>1. a.text \in Pieces
  BY DEF Action
<1>2. a.target \in D /\ fs[a.target] \in Content
  BY DEF Fits
<1>3. Append(fs[a.target], a.text) \in Content /\ <<a.text>> \in Content /\ Missing \in Content
  BY <1>1, <1>2, ContentType
<1>4. CASE a.op = "append" /\ fs[a.target] # Missing
  BY <1>3, <1>4 DEF Carried, Written
<1>5. CASE a.op = "archive"
  <2>1. Carried(fs, a) = [fs EXCEPT ![a.archive] = fs[a.target], ![a.target] = Missing]
    BY <1>5 DEF Carried, Renamed
  <2> QED
    BY <1>2, <1>3, <1>5, <2>1 DEF Written
<1>6. CASE a.op # "archive" /\ ~(a.op = "append" /\ fs[a.target] # Missing)
  <2>1. Carried(fs, a) = [fs EXCEPT ![a.target] = <<a.text>>]
    BY <1>6 DEF Carried, Renamed
  <2> QED
    BY <1>2, <1>3, <1>6, <2>1 DEF Written
<1> QED
  BY <1>4, <1>5, <1>6

\* InTurn carries out one action after the other.
LEMMA InTurnIs ==
  ASSUME NEW D, NEW before \in [D -> Content], NEW actions \in Seq(Action),
         \A k \in DOMAIN actions : Fits(actions[k], D)
  PROVE  \E h \in [0 .. Len(actions) -> [D -> Content]] :
           /\ h[0] = before
           /\ \A k \in 1 .. Len(actions) : h[k] = Carried(h[k - 1], actions[k])
           /\ \A n \in 0 .. Len(actions) : InTurn(before, actions, n) = h[n]
<1> DEFINE N == Len(actions)
           All == [D -> Content]
           F == [k \in 1 .. N |-> [x \in All |-> Carried(x, actions[k])]]
<1>1. N \in Nat /\ \A k \in 1 .. N : actions[k] \in Action /\ Fits(actions[k], D)
  OBVIOUS
<1>2. ASSUME NEW k \in 1 .. N, NEW x \in All PROVE Carried(x, actions[k]) \in All
  BY <1>1, CarriedType
<1>3. \A k \in 1 .. N : \A x \in All : Carried(x, actions[k]) \in All
  BY <1>2
<1>4. before \in All
  OBVIOUS
<1> HIDE DEF N, All
<1>5. F \in [1 .. N -> [All -> All]]
  BY <1>3
<1>6. \A k \in 1 .. N : \A x \in All : F[k][x] = Carried(x, actions[k])
  OBVIOUS
<1> HIDE DEF F
<1>7. PICK h \in [0 .. N -> All] : h[0] = before /\ \A k \in 1 .. N : h[k] = F[k][h[k - 1]]
  <2>1. N \in Nat
    BY <1>1
  <2>2. \E f : Recursive(f, N, All, before, F)
    BY <2>1, <1>4, <1>5, RecursionHolds
  <2> QED
    BY <2>2 DEF Recursive
<1>8. ASSUME NEW k \in 1 .. N PROVE h[k] = Carried(h[k - 1], actions[k])
  <2>1. k - 1 \in 0 .. N
    BY <1>1
  <2>2. h[k - 1] \in All
    BY <1>7, <2>1
  <2> QED
    BY <1>6, <1>7, <2>2
<1>9. ASSUME NEW n \in 0 .. N PROVE InTurn(before, actions, n) = h[n]
  <2> DEFINE After == CHOOSE After : After = [k \in 0 .. n |->
                        IF k = 0 THEN before
                        ELSE IF actions[k].op = "append" /\ After[k - 1][actions[k].target] # Missing
                             THEN [After[k - 1] EXCEPT ![actions[k].target] = Append(@, actions[k].text)]
                             ELSE Renamed(After[k - 1], actions[k], <<actions[k].text>>)]
             g == [k \in 0 .. n |-> h[k]]
  <2>1. InTurn(before, actions, n) = After[n]
    BY DEF InTurn
  <2>2. \A k \in 0 .. n : k \in 0 .. N /\ (k # 0 => k \in 1 .. N /\ k - 1 \in 0 .. n)
    BY <1>1
  <2>3. \A k \in 0 .. n : g[k] = IF k = 0 THEN before ELSE Carried(g[k - 1], actions[k])
    BY <1>7, <1>8, <2>2
  <2>4. g = [k \in 0 .. n |->
              IF k = 0 THEN before
              ELSE IF actions[k].op = "append" /\ g[k - 1][actions[k].target] # Missing
                   THEN [g[k - 1] EXCEPT ![actions[k].target] = Append(@, actions[k].text)]
                   ELSE Renamed(g[k - 1], actions[k], <<actions[k].text>>)]
    <3>1. g = [k \in 0 .. n |-> g[k]]
      OBVIOUS
    <3> HIDE DEF g
    <3> QED
      BY <2>3, <3>1 DEF Carried
  <2>5. After = [k \in 0 .. n |->
              IF k = 0 THEN before
              ELSE IF actions[k].op = "append" /\ After[k - 1][actions[k].target] # Missing
                   THEN [After[k - 1] EXCEPT ![actions[k].target] = Append(@, actions[k].text)]
                   ELSE Renamed(After[k - 1], actions[k], <<actions[k].text>>)]
    <3> HIDE DEF g
    <3> QED
      BY <2>4
  <2> HIDE DEF After
  <2>6. \A k \in 0 .. n : After[k] = IF k = 0 THEN before ELSE Carried(After[k - 1], actions[k])
    BY <2>5 DEF Carried
  <2> DEFINE S == {k \in 0 .. n : After[k] = h[k]}
  <2>7. n \in Nat /\ 0 \in 0 .. n
    BY <1>1
  <2>8. 0 \in S
    BY <1>7, <2>6, <2>7
  <2>9. ASSUME NEW k \in 0 .. n - 1, k \in S PROVE k + 1 \in S
    <3>1. k + 1 \in 0 .. n /\ k + 1 \in 1 .. N /\ k + 1 # 0 /\ (k + 1) - 1 = k
      BY <1>1
    <3> QED
      BY <1>8, <2>6, <2>9, <3>1
  <2>10. \A k \in 0 .. n : k \in S
    <3>1. \A k \in 0 .. n - 1 : k \in S => k + 1 \in S
      BY <2>9
    <3> HIDE DEF S
    <3>2. n \in Nat
      BY <2>7
    <3> QED
      BY <2>8, <3>1, <3>2, UpTo
  <2>11. n \in S
    BY <2>7, <2>10
  <2> QED
    BY <2>1, <2>11
<1> QED
  BY <1>7, <1>8, <1>9 DEF N, All

LEMMA InTurnBegins ==
  ASSUME NEW D, NEW before \in [D -> Content], NEW actions \in Seq(Action),
         \A k \in DOMAIN actions : Fits(actions[k], D)
  PROVE  InTurn(before, actions, 0) = before
<1>1. 0 \in 0 .. Len(actions)
  OBVIOUS
<1> QED
  BY <1>1, InTurnIs

LEMMA InTurnGoesOn ==
  ASSUME NEW D, NEW before \in [D -> Content], NEW actions \in Seq(Action),
         \A k \in DOMAIN actions : Fits(actions[k], D), NEW k \in DOMAIN actions
  PROVE  /\ InTurn(before, actions, k - 1) \in [D -> Content]
         /\ InTurn(before, actions, k) = Carried(InTurn(before, actions, k - 1), actions[k])
<1>1. k \in 1 .. Len(actions) /\ k \in 0 .. Len(actions) /\ k - 1 \in 0 .. Len(actions)
  OBVIOUS
<1>2. PICK h \in [0 .. Len(actions) -> [D -> Content]] :
           /\ h[0] = before
           /\ \A l \in 1 .. Len(actions) : h[l] = Carried(h[l - 1], actions[l])
           /\ \A n \in 0 .. Len(actions) : InTurn(before, actions, n) = h[n]
  BY InTurnIs
<1> QED
  BY <1>1, <1>2

\* A file that none of the actions so far has written is as it was before.
LEMMA InTurnKeeps ==
  ASSUME NEW D, NEW before \in [D -> Content], NEW actions \in Seq(Action),
         \A k \in DOMAIN actions : Fits(actions[k], D),
         NEW p \in D, NEW n \in 0 .. Len(actions),
         \A k \in 1 .. n : p \notin Written(actions[k])
  PROVE  InTurn(before, actions, n)[p] = before[p]
<1>1. Len(actions) \in Nat /\ n \in Nat
  OBVIOUS
<1>2. PICK h \in [0 .. Len(actions) -> [D -> Content]] :
           /\ h[0] = before
           /\ \A l \in 1 .. Len(actions) : h[l] = Carried(h[l - 1], actions[l])
           /\ \A m \in 0 .. Len(actions) : InTurn(before, actions, m) = h[m]
  BY InTurnIs
<1> DEFINE S == {k \in 0 .. n : h[k][p] = before[p]}
<1>3. 0 \in S
  BY <1>1, <1>2
<1>4. ASSUME NEW k \in 0 .. n - 1, k \in S PROVE k + 1 \in S
  <2>1. /\ k + 1 \in 0 .. n /\ k + 1 \in 1 .. n /\ k + 1 \in 1 .. Len(actions)
        /\ k \in 0 .. Len(actions) /\ (k + 1) - 1 = k
    BY <1>1
  <2>2. actions[k + 1] \in Action /\ Fits(actions[k + 1], D) /\ h[k] \in [D -> Content]
    BY <1>2, <2>1
  <2>3. h[k + 1] = Carried(h[k], actions[k + 1])
    BY <1>2, <2>1
  <2>4. p \notin Written(actions[k + 1])
    BY <2>1
  <2>5. h[k + 1][p] = h[k][p]
    BY <2>2, <2>3, <2>4, CarriedType
  <2> QED
    BY <1>4, <2>1, <2>5
<1>5. \A k \in 0 .. n : k \in S
  <2>1. \A k \in 0 .. n - 1 : k \in S => k + 1 \in S
    BY <1>4
  <2>2. n \in Nat
    BY <1>1
  <2> HIDE DEF S
  <2> QED
    BY <1>3, <2>1, <2>2, UpTo
<1>6. n \in S
  BY <1>1, <1>5
<1> QED
  BY <1>2, <1>6

\* The temporary file of the k-th action is as its action says, unless it was misread.
Staged(k) ==
  LET a == cmd.actions[k] IN
  a.op # "archive" =>
    \/ a.target \in misread /\ a.op = "append"
    \/ cmd.temps[k] = IF a.op = "append" /\ undo[a.target] # Missing
                      THEN Append(undo[a.target], a.text) ELSE <<a.text>>
MisreadAppends ==
  \A p \in misread : \E k \in DOMAIN cmd.actions : cmd.actions[k].op = "append" /\ cmd.actions[k].target = p

Reporting ==
  cmd.op = "apply" =>
    /\ last.op = "none"
    /\ cmd.at = "stage" => misread = {}
    /\ MisreadAppends
    /\ cmd.at # "rename" => \A p \in DOMAIN undo \ late : files[p] = undo[p]
    /\ cmd.at # "stage" => \A k \in DOMAIN cmd.actions : Staged(k)
    /\ cmd.at = "rename" /\ OneActionPerFile(cmd.actions) =>
         \A p \in DOMAIN undo \ Disturbed(cmd.actions) :
           files[p] = InTurn(undo, cmd.actions, cmd.i - 1)[p]
Reported == last.op = "apply" => cmd.op = "idle" /\ ReportIsTrue
ReportInv == Reporting /\ Reported

LEMMA ReportInit == MemoryInit => ReportInv
<1> SUFFICES ASSUME MemoryInit PROVE ReportInv
  OBVIOUS
<1>1. cmd.op = "idle"
  BY IdleShape DEF MemoryInit
<1>2. last.op = "none"
  BY OutcomeOp DEF MemoryInit
<1> QED
  BY <1>1, <1>2 DEF ReportInv, Reporting, Reported

\* What the earlier invariants say of an apply under way.
LEMMA UnderApply ==
  ASSUME TypeInv, OverwriteInv, cmd.op = "apply"
  PROVE  /\ undo \in [DOMAIN undo -> Content] /\ DOMAIN undo \subseteq Paths
         /\ cmd.actions \in Seq(Action) /\ cmd.actions # <<>>
         /\ cmd.done \in Seq(Action) /\ cmd.i = Len(cmd.done) + 1 /\ cmd.i <= Len(cmd.actions) + 1
         /\ \A k \in DOMAIN cmd.actions : Fits(cmd.actions[k], DOMAIN undo)
         /\ \A p \in DOMAIN undo : InPlan(p) = undo[p]
<1>1. undo \in [DOMAIN undo -> Content] /\ DOMAIN undo \subseteq Paths /\ CommandOK
  BY DEF TypeInv, UndoOK
<1>2. ApplyInv
  BY DEF OverwriteInv
<1>3. \A k \in DOMAIN cmd.actions : Fits(cmd.actions[k], DOMAIN undo)
  BY <1>2 DEF ApplyInv, ActionFits, Fits
<1>4. ASSUME NEW p \in DOMAIN undo PROVE InPlan(p) = undo[p]
  <2>1. ItemsSay(p)
    BY <1>2 DEF ApplyInv
  <2> QED
    BY <2>1, InPlanIs
<1> QED
  BY <1>1, <1>3, <1>4 DEF CommandOK

LEMMA ReportingStart == TypeInv /\ ApplyStart => Reporting'
<1> SUFFICES ASSUME TypeInv, ApplyStart PROVE Reporting'
  OBVIOUS
<1>1. cmd'.op = "apply" /\ cmd'.at = "stage"
  BY ApplyBegins
<1>2. /\ undo' = [p \in PathsOf(plan.items) |-> Planned(p)] /\ files' = files
      /\ misread' = {} /\ last' = NoOutcome /\ PlanHolds
  BY DEF ApplyStart, ApplyReady
<1>3. ASSUME NEW p \in DOMAIN undo' PROVE files'[p] = undo'[p]
  <2>1. PICK k \in DOMAIN plan.items : plan.items[k].path = p
    BY <1>2 DEF PathsOf
  <2>2. undo'[p] = plan.items[k].sha
    BY <1>2, <2>1, PlannedItem DEF PlanHolds
  <2> QED
    BY <1>2, <2>1, <2>2 DEF PlanHolds, Elements
<1>4. last'.op = "none"
  BY <1>2, OutcomeOp
<1> QED
  BY <1>1, <1>2, <1>3, <1>4 DEF Reporting, MisreadAppends

LEMMA ReportingStage == TypeInv /\ OverwriteInv /\ Reporting /\ StageApply => Reporting'
<1> SUFFICES ASSUME TypeInv, OverwriteInv, Reporting, StageApply PROVE Reporting'
  OBVIOUS
<1>1. /\ cmd.op = "apply" /\ cmd.at = "stage" /\ UNCHANGED <<files, last, undo, late>>
      /\ cmd' = [cmd EXCEPT !.at = "validate", !.temps = [k \in DOMAIN cmd.actions |-> Temp(cmd.actions[k])]]
      /\ misread' = {a.target : a \in {x \in Elements(cmd.actions) :
                        x.op = "append" /\ ~Creates(x) /\ files[x.target] # InPlan(x.target)}}
  BY DEF StageApply
<1>2. /\ cmd'.op = "apply" /\ cmd'.at = "validate" /\ cmd'.actions = cmd.actions
      /\ cmd'.temps = [k \in DOMAIN cmd.actions |-> Temp(cmd.actions[k])]
  BY <1>1 DEF TypeInv, CommandOK, Fields
<1>3. MisreadAppends'
  BY <1>1, <1>2 DEF MisreadAppends, Elements
<1>4. ASSUME NEW k \in DOMAIN cmd.actions PROVE Staged(k)'
  <2> DEFINE a == cmd.actions[k]
  <2>1. InPlan(a.target) = undo[a.target]
    BY <1>1, UnderApply DEF Fits
  <2>2. cmd'.temps[k] = Temp(a) /\ a \in Elements(cmd.actions)
    BY <1>2 DEF Elements
  <2>3. CASE a.op = "append" /\ undo[a.target] # Missing
    <3>1. Temp(a) = Append(files[a.target], a.text)
      BY <2>1, <2>3 DEF Temp
    <3>2. ~Creates(a)
      BY <2>1, <2>3 DEF Creates
    <3>3. files[a.target] # undo[a.target] => a.target \in misread'
      BY <1>1, <2>1, <2>2, <2>3, <3>2
    <3>4. a.target \in misread' \/ cmd'.temps[k] = Append(undo[a.target], a.text)
      BY <2>2, <3>1, <3>3
    <3>5. undo' = undo /\ cmd'.actions = cmd.actions
      BY <1>1, <1>2
    <3> QED
      BY <2>3, <3>4, <3>5 DEF Staged
  <2>4. CASE ~(a.op = "append" /\ undo[a.target] # Missing)
    <3>1. Temp(a) = <<a.text>>
      BY <2>1, <2>4 DEF Temp
    <3>2. cmd'.temps[k] = <<a.text>>
      BY <2>2, <3>1
    <3>3. undo' = undo /\ cmd'.actions = cmd.actions
      BY <1>1, <1>2
    <3> QED
      BY <2>4, <3>2, <3>3 DEF Staged
  <2> QED
    BY <2>3, <2>4
<1> QED
  BY <1>1, <1>2, <1>3, <1>4 DEF Reporting

LEMMA ReportingValidate ==
  TypeInv /\ OverwriteInv /\ OverwriteInv' /\ Reporting /\ ValidateTargets => Reporting'
<1> SUFFICES ASSUME TypeInv, OverwriteInv, OverwriteInv', Reporting, ValidateTargets PROVE Reporting'
  OBVIOUS
<1>1. /\ cmd.op = "apply" /\ cmd.at = "validate" /\ UNCHANGED <<files, last, undo, misread>>
      /\ cmd' = [cmd EXCEPT !.at = "rename"] /\ late' = late \ Touched(cmd.actions)
      /\ \A a \in Elements(cmd.actions) : TargetHolds(a)
  BY DEF ValidateTargets
<1>2. /\ cmd'.op = "apply" /\ cmd'.at = "rename" /\ cmd'.actions = cmd.actions
      /\ cmd'.temps = cmd.temps /\ cmd'.i = cmd.i /\ cmd.i = 1
  BY <1>1 DEF TypeInv, CommandOK, Fields
<1>3. ASSUME NEW a \in Elements(cmd.actions), NEW p \in Written(a) PROVE files[p] = undo[p]
  <2>1. ActionFits(a)
    BY <1>1 DEF OverwriteInv, ApplyInv, Elements
  <2>2. TargetHolds(a) /\ InPlan(a.target) = undo[a.target]
    BY <1>1, <2>1, UnderApply DEF ActionFits
  <2> QED
    BY <2>1, <2>2 DEF TargetHolds, Creates, ActionFits, Written
<1>4. ASSUME NEW p \in DOMAIN undo \ late' PROVE files[p] = undo[p]
  <2>1. CASE p \in Touched(cmd.actions)
    BY <1>3, <2>1 DEF Touched
  <2>2. CASE p \notin late
    BY <1>1, <2>2 DEF Reporting
  <2> QED
    BY <1>1, <2>1, <2>2
<1>5. InTurn(undo, cmd.actions, 0) = undo
  BY <1>1, UnderApply, InTurnBegins
<1>6. ASSUME NEW p \in DOMAIN undo' \ Disturbed(cmd.actions)'
      PROVE  files'[p] = InTurn(undo, cmd.actions, cmd.i - 1)'[p]
  <2>1. p \in DOMAIN undo \ late'
    BY <1>1 DEF Disturbed
  <2>2. cmd'.i - 1 = 0
    BY <1>2
  <2> QED
    BY <1>1, <1>2, <1>4, <1>5, <2>1, <2>2
<1>7. last.op = "none" /\ MisreadAppends /\ \A k \in DOMAIN cmd.actions : Staged(k)
  BY <1>1 DEF Reporting
<1>8. MisreadAppends' /\ \A k \in DOMAIN cmd.actions : Staged(k)'
  BY <1>1, <1>2, <1>7 DEF MisreadAppends, Staged
<1> QED
  BY <1>1, <1>2, <1>6, <1>7, <1>8 DEF Reporting

\* Where each action has its own files, those of an action are undisturbed together, and no
\* earlier action has written them.
LEMMA OwnFiles ==
  ASSUME OneActionPerFile(cmd.actions), MisreadAppends, NEW i \in DOMAIN cmd.actions,
         NEW p \in Written(cmd.actions[i]), p \notin Disturbed(cmd.actions)
  PROVE  /\ \A k \in DOMAIN cmd.actions : k # i => p \notin Written(cmd.actions[k])
         /\ cmd.actions[i].op = "archive" =>
              \A q \in Written(cmd.actions[i]) : q \notin Disturbed(cmd.actions)
<1> DEFINE a == cmd.actions[i]
<1>1. ASSUME NEW q \in Written(a), NEW k \in DOMAIN cmd.actions, q \in Written(cmd.actions[k]) PROVE k = i
  BY <1>1 DEF OneActionPerFile
<1>2. Written(a) \cap late = {}
  <2>1. a \in Elements(cmd.actions)
    BY DEF Elements
  <2> QED
    BY <2>1 DEF Disturbed
<1>3. ASSUME a.op = "archive", NEW q \in Written(a) PROVE q \notin Disturbed(cmd.actions)
  <2>1. q \notin misread
    <3> SUFFICES ASSUME q \in misread PROVE FALSE
      OBVIOUS
    <3>1. PICK k \in DOMAIN cmd.actions : cmd.actions[k].op = "append" /\ cmd.actions[k].target = q
      BY DEF MisreadAppends
    <3>2. q \in Written(cmd.actions[k])
      BY <3>1 DEF Written
    <3>3. k = i
      BY <1>1, <3>2
    <3> QED
      BY <1>3, <3>1, <3>3
  <2>2. ASSUME NEW x \in Elements(cmd.actions), q \in Written(x) PROVE Written(x) \cap late = {}
    <3>1. PICK k \in DOMAIN cmd.actions : cmd.actions[k] = x
      BY DEF Elements
    <3>2. k = i
      BY <1>1, <2>2, <3>1
    <3> QED
      BY <1>2, <3>1, <3>2
  <2>3. q \notin late
    BY <1>2
  <2> QED
    BY <2>1, <2>2, <2>3 DEF Disturbed
<1>4. ASSUME NEW k \in DOMAIN cmd.actions, k # i PROVE p \notin Written(cmd.actions[k])
  BY <1>1, <1>4
<1> QED
  BY <1>3, <1>4

LEMMA ReportingRename == TypeInv /\ OverwriteInv /\ Reporting /\ RenameItem => Reporting'
<1> SUFFICES ASSUME TypeInv, OverwriteInv, Reporting, RenameItem PROVE Reporting'
  OBVIOUS
<1> DEFINE a == cmd.actions[cmd.i]
<1>1. /\ cmd.op = "apply" /\ cmd.at = "rename" /\ cmd.i \in DOMAIN cmd.actions
      /\ files' = Renamed(files, a, cmd.temps[cmd.i])
      /\ UNCHANGED <<last, undo, late, misread>>
      /\ cmd' = [cmd EXCEPT !.i = cmd.i + 1, !.done = Append(cmd.done, a)]
  BY DEF RenameItem, history
<1>2. /\ cmd'.op = "apply" /\ cmd'.at = "rename" /\ cmd'.actions = cmd.actions
      /\ cmd'.temps = cmd.temps /\ cmd'.i = cmd.i + 1
  BY <1>1 DEF TypeInv, CommandOK, Fields
<1>3. /\ undo \in [DOMAIN undo -> Content] /\ DOMAIN undo \subseteq Paths
      /\ cmd.actions \in Seq(Action)
      /\ \A k \in DOMAIN cmd.actions : Fits(cmd.actions[k], DOMAIN undo)
  BY <1>1, UnderApply
<1>4. /\ last.op = "none" /\ MisreadAppends /\ \A k \in DOMAIN cmd.actions : Staged(k)
      /\ OneActionPerFile(cmd.actions) =>
           \A p \in DOMAIN undo \ Disturbed(cmd.actions) :
             files[p] = InTurn(undo, cmd.actions, cmd.i - 1)[p]
  BY <1>1 DEF Reporting
<1>5. files \in [Paths -> Content]
  BY DEF TypeInv, MemoryTypeOK
<1>6. a \in Action /\ Fits(a, DOMAIN undo) /\ cmd.i \in Nat /\ cmd.i \in 1 .. Len(cmd.actions)
  BY <1>1, <1>3
<1> DEFINE fs == InTurn(undo, cmd.actions, cmd.i - 1)
<1>7. fs \in [DOMAIN undo -> Content] /\ InTurn(undo, cmd.actions, cmd.i) = Carried(fs, a)
  BY <1>1, <1>3, InTurnGoesOn
<1> HIDE DEF fs
<1>8. ASSUME OneActionPerFile(cmd.actions), NEW p \in DOMAIN undo \ Disturbed(cmd.actions)
      PROVE  files'[p] = Carried(fs, a)[p]
  <2>1. files[p] = fs[p] /\ p \in Paths /\ p \in DOMAIN undo
    BY <1>3, <1>4, <1>8 DEF fs
  <2>2. CASE p \notin Written(a)
    <3>1. files'[p] = files[p]
      BY <1>1, <1>5, <2>1, <2>2 DEF Renamed, Written
    <3>2. Carried(fs, a)[p] = fs[p]
      BY <1>6, <1>7, <2>1, <2>2, CarriedType
    <3> QED
      BY <2>1, <3>1, <3>2
  <2>3. CASE p \in Written(a) /\ a.op = "archive"
    <3>1. a.target \in Written(a) /\ a.target \in DOMAIN undo /\ a.target \in Paths
      BY <1>3, <1>6 DEF Written, Fits
    <3>2. a.target \notin Disturbed(cmd.actions)
      BY <1>1, <1>4, <1>8, <2>3, <3>1, OwnFiles
    <3>3. files[a.target] = fs[a.target]
      BY <1>4, <1>8, <3>1, <3>2 DEF fs
    <3>4. Carried(fs, a) = [fs EXCEPT ![a.archive] = fs[a.target], ![a.target] = Missing]
      BY <2>3 DEF Carried, Renamed
    <3>5. files' = [files EXCEPT ![a.archive] = files[a.target], ![a.target] = Missing]
      BY <1>1, <2>3 DEF Renamed
    <3> HIDE DEF a
    <3> QED
      BY <1>5, <1>7, <2>1, <3>3, <3>4, <3>5
  <2>4. CASE p \in Written(a) /\ a.op # "archive"
    <3>1. p = a.target
      BY <2>4 DEF Written
    <3>2. \A k \in DOMAIN cmd.actions : k # cmd.i => p \notin Written(cmd.actions[k])
      BY <1>1, <1>4, <1>8, <2>4, OwnFiles
    <3>3. fs[p] = undo[p]
      <4>1. cmd.i - 1 \in 0 .. Len(cmd.actions)
        BY <1>6
      <4>2. \A k \in 1 .. cmd.i - 1 : p \notin Written(cmd.actions[k])
        BY <1>3, <1>6, <3>2
      <4> QED
        BY <1>3, <2>1, <4>1, <4>2, InTurnKeeps DEF fs
    <3>4. p \notin misread
      BY <1>8 DEF Disturbed
    <3>5. Staged(cmd.i)
      BY <1>1, <1>4
    <3>6. cmd.temps[cmd.i] = IF a.op = "append" /\ undo[p] # Missing
                             THEN Append(undo[p], a.text) ELSE <<a.text>>
      BY <2>4, <3>1, <3>4, <3>5 DEF Staged
    <3>7. files'[p] = cmd.temps[cmd.i]
      BY <1>1, <1>5, <2>1, <2>4, <3>1 DEF Renamed
    <3>8. Carried(fs, a)[p] = IF a.op = "append" /\ fs[p] # Missing
                              THEN Append(fs[p], a.text) ELSE <<a.text>>
      BY <1>7, <2>1, <2>4, <3>1 DEF Carried, Renamed
    <3> QED
      BY <3>3, <3>6, <3>7, <3>8
  <2> QED
    BY <2>2, <2>3, <2>4
<1>9. cmd'.i - 1 = cmd.i
  BY <1>2, <1>6
<1>10. OneActionPerFile(cmd'.actions) =>
         \A p \in DOMAIN undo' \ Disturbed(cmd.actions)' :
           files'[p] = InTurn(undo', cmd'.actions, cmd'.i - 1)[p]
  BY <1>1, <1>2, <1>7, <1>8, <1>9 DEF Disturbed
<1>11. MisreadAppends' /\ \A k \in DOMAIN cmd.actions : Staged(k)'
  BY <1>1, <1>2, <1>4 DEF MisreadAppends, Staged
<1> QED
  BY <1>1, <1>2, <1>4, <1>10, <1>11 DEF Reporting

LEMMA ReportingNext ==
  TypeInv /\ OverwriteInv /\ OverwriteInv' /\ ReportInv /\ [MemoryNext]_vars => Reporting'
<1> SUFFICES ASSUME TypeInv, OverwriteInv, OverwriteInv', ReportInv, [MemoryNext]_vars
             PROVE  Reporting'
  OBVIOUS
<1> USE DEF ReportInv
<1>1. CASE cmd'.op # "apply"
  BY <1>1 DEF Reporting
<1>2. CASE ApplyStart
  BY <1>2, ReportingStart
<1>3. CASE StageApply
  BY <1>3, ReportingStage
<1>4. CASE ValidateTargets
  BY <1>4, ReportingValidate
<1>5. CASE RenameItem
  BY <1>5, ReportingRename
<1>6. CASE \E p \in Paths : EditFile(p) \/ TakeBack(p) \/ DamageBackup(p)
  <2>1. PICK f \in Paths : EditFile(f) \/ TakeBack(f) \/ DamageBackup(f)
    BY <1>6
  <2>2. /\ UNCHANGED <<undo, cmd, last, misread>> /\ late \subseteq late'
        /\ \A p \in Paths \ late' : files'[p] = files[p]
    BY <2>1, EditsAreLate
  <2>3. DOMAIN undo \subseteq Paths
    BY DEF TypeInv, UndoOK
  <2>4. Disturbed(cmd.actions) \subseteq Disturbed(cmd.actions)' /\ late' \subseteq Disturbed(cmd.actions)'
    BY <2>2 DEF Disturbed
  <2>5. SUFFICES ASSUME cmd.op = "apply" PROVE Reporting'
    BY <2>2 DEF Reporting
  <2>6. MisreadAppends' /\ (cmd'.at # "stage" => \A k \in DOMAIN cmd'.actions : Staged(k)')
    BY <2>2, <2>5 DEF Reporting, MisreadAppends, Staged
  <2>7. cmd'.at # "rename" => \A p \in DOMAIN undo' \ late' : files'[p] = undo'[p]
    BY <2>2, <2>3, <2>5 DEF Reporting
  <2>8. cmd'.at = "rename" /\ OneActionPerFile(cmd'.actions) =>
          \A p \in DOMAIN undo' \ Disturbed(cmd.actions)' :
            files'[p] = InTurn(undo', cmd'.actions, cmd'.i - 1)[p]
    BY <2>2, <2>3, <2>4, <2>5 DEF Reporting
  <2> QED
    BY <2>2, <2>5, <2>6, <2>7, <2>8 DEF Reporting
<1>7. CASE UNCHANGED <<cmd, undo, late, misread, files, last>>
  BY <1>7 DEF Reporting, MisreadAppends, Staged, Disturbed
<1>8. CASE MaterializeStart \/ RestoreStart
  BY <1>1, <1>8 DEF MaterializeStart, RestoreStart, Idle
<1>9. CASE CopyItem \/ RestoreItem
  <2>1. cmd'.op = cmd.op /\ cmd.op # "apply"
    BY <1>9 DEF CopyItem, RestoreItem, TypeInv, CommandOK, Fields
  <2> QED
    BY <1>1, <2>1
<1>10. CASE cmd' = Idle
  BY <1>1, <1>10, IdleShape
<1> QED
  BY <1>2, <1>3, <1>4, <1>5, <1>6, <1>7, <1>8, <1>9, <1>10
     DEF MemoryNext, Approve, BuildBackupPlan, BuildRestorePreview, CopyFails, MaterializeDone,
         ApplyRefused, RenameFails, HashFails, ApplyDone, RestoreFails, RestoreDone, Dies,
         EditProposal, EditPolicy, artifacts, history, vars

\* An apply that ends reports what it has done.
LEMMA ReportEnds ==
  ASSUME TypeInv, OverwriteInv, Reporting, cmd.op = "apply",
         NEW status, NEW n, last' = Outcome("apply", status, n), cmd' = Idle,
         UNCHANGED <<files, undo, late, misread>>,
         (status = "failed") = (Len(cmd.done) = 0),
         status = "succeeded" => Len(cmd.done) = Len(cmd.actions)
  PROVE  Reported'
<1>1. /\ last'.status = status /\ last'.items = Len(cmd.done) /\ last'.actions = cmd.actions
  BY DEF Outcome
<1>2. cmd'.op = "idle"
  BY IdleShape
<1>3. ASSUME OneActionPerFile(cmd.actions), NEW p \in DOMAIN undo \ Disturbed(cmd.actions)
      PROVE  files[p] = InTurn(undo, cmd.actions, Len(cmd.done))[p]
  <2>1. CASE cmd.at = "rename"
    <3>1. cmd.i - 1 = Len(cmd.done)
      BY UnderApply
    <3> QED
      BY <1>3, <2>1, <3>1 DEF Reporting
  <2>2. CASE cmd.at # "rename"
    <3>1. Len(cmd.done) = 0
      <4>1. cmd.done \in Seq(Action) /\ cmd.i = Len(cmd.done) + 1
        BY UnderApply
      <4>2. cmd.i = 1
        BY <2>2 DEF TypeInv, CommandOK
      <4> QED
        BY <4>1, <4>2
    <3>2. InTurn(undo, cmd.actions, 0) = undo
      BY UnderApply, InTurnBegins
    <3>3. p \notin late
      BY DEF Disturbed
    <3> QED
      BY <2>2, <3>1, <3>2, <3>3 DEF Reporting
  <2> QED
    BY <2>1, <2>2
<1>4. ASSUME OneActionPerFile(last'.actions), NEW p \in DOMAIN undo' \ Disturbed(last.actions)'
      PROVE  files'[p] = InTurn(undo', last'.actions, last'.items)[p]
  <2>1. p \in DOMAIN undo \ Disturbed(cmd.actions)
    BY <1>1 DEF Disturbed
  <2> QED
    BY <1>1, <1>3, <1>4, <2>1
<1> QED
  BY <1>1, <1>2, <1>4 DEF Reported, ReportIsTrue

LEMMA ReportedNext == TypeInv /\ OverwriteInv /\ ReportInv /\ [MemoryNext]_vars => Reported'
<1> SUFFICES ASSUME TypeInv, OverwriteInv, ReportInv, [MemoryNext]_vars PROVE Reported'
  OBVIOUS
<1>1. Reporting /\ Reported
  BY DEF ReportInv
<1>2. CASE last'.op # "apply"
  BY <1>2 DEF Reported
<1>3. CASE ApplyRefused
  <2>1. /\ cmd.op = "apply" /\ cmd.at \in {"stage", "validate"} /\ cmd' = Idle
        /\ last' = Outcome("apply", "failed", 0) /\ UNCHANGED <<files, undo, late, misread>>
    BY <1>3 DEF ApplyRefused, history
  <2>2. cmd.done \in Seq(Action) /\ cmd.i = Len(cmd.done) + 1 /\ cmd.i = 1
    BY <2>1, UnderApply DEF TypeInv, CommandOK
  <2>3. Len(cmd.done) = 0
    BY <2>2
  <2> QED
    BY <1>1, <2>1, <2>3, ReportEnds
<1>4. CASE RenameFails
  <2> DEFINE status == IF Len(cmd.done) > 0 THEN "partial_failed" ELSE "failed"
  <2>1. /\ cmd.op = "apply" /\ cmd' = Idle /\ UNCHANGED <<files, undo, late, misread>>
        /\ last' = Outcome("apply", status, cmd.i - 1)
    BY <1>4 DEF RenameFails, history
  <2>2. Len(cmd.done) \in Nat
    BY <2>1, UnderApply
  <2>3. (status = "failed") = (Len(cmd.done) = 0) /\ status # "succeeded"
    BY <2>2
  <2> HIDE DEF status
  <2> QED
    BY <1>1, <2>1, <2>3, ReportEnds
<1>5. CASE HashFails
  <2>1. /\ cmd.op = "apply" /\ cmd.i > 1 /\ cmd' = Idle /\ UNCHANGED <<files, undo, late, misread>>
        /\ last' = Outcome("apply", "partial_failed", cmd.i - 1)
    BY <1>5 DEF HashFails, history
  <2>2. cmd.done \in Seq(Action) /\ cmd.i = Len(cmd.done) + 1
    BY <2>1, UnderApply
  <2>3. Len(cmd.done) # 0
    BY <2>1, <2>2
  <2> QED
    BY <1>1, <2>1, <2>3, ReportEnds
<1>6. CASE ApplyDone
  <2>1. /\ cmd.op = "apply" /\ cmd.i > Len(cmd.actions) /\ cmd' = Idle
        /\ UNCHANGED <<files, undo, late, misread>>
        /\ last' = Outcome("apply", "succeeded", cmd.i - 1)
    BY <1>6 DEF ApplyDone, history
  <2>2. /\ cmd.done \in Seq(Action) /\ cmd.i = Len(cmd.done) + 1 /\ cmd.i <= Len(cmd.actions) + 1
        /\ cmd.actions \in Seq(Action) /\ cmd.actions # <<>>
    BY <2>1, UnderApply
  <2>3. Len(cmd.done) = Len(cmd.actions) /\ Len(cmd.actions) # 0
    BY <2>1, <2>2
  <2> QED
    BY <1>1, <2>1, <2>3, ReportEnds
<1>7. CASE last'.op = "apply" /\ last' = last
  <2>1. cmd.op = "idle" /\ ReportIsTrue
    BY <1>1, <1>7 DEF Reported
  <2>2. CASE \E p \in Paths : EditFile(p) \/ TakeBack(p) \/ DamageBackup(p)
    <3>1. PICK f \in Paths : EditFile(f) \/ TakeBack(f) \/ DamageBackup(f)
      BY <2>2
    <3>2. /\ UNCHANGED <<undo, cmd, last, misread>> /\ late \subseteq late'
          /\ \A p \in Paths \ late' : files'[p] = files[p]
      BY <3>1, EditsAreLate
    <3>3. DOMAIN undo \subseteq Paths
      BY DEF TypeInv, UndoOK
    <3>4. Disturbed(last.actions) \subseteq Disturbed(last.actions)' /\ late' \subseteq Disturbed(last.actions)'
      BY <3>2 DEF Disturbed
    <3>5. OneActionPerFile(last'.actions) =>
            \A p \in DOMAIN undo' \ Disturbed(last.actions)' :
              files'[p] = InTurn(undo', last'.actions, last'.items)[p]
      BY <1>7, <2>1, <3>2, <3>3, <3>4 DEF ReportIsTrue
    <3>6. /\ (last'.status = "failed") <=> (last'.items = 0)
          /\ last'.status = "succeeded" => last'.items = Len(last'.actions)
      BY <1>7, <2>1 DEF ReportIsTrue
    <3> QED
      BY <2>1, <3>2, <3>5, <3>6 DEF Reported, ReportIsTrue
  <2>3. CASE UNCHANGED <<files, late, misread>> /\ cmd' \in {cmd, Idle} /\ undo' \in {undo, << >>}
    <3>1. cmd'.op = "idle"
      BY <2>1, <2>3, IdleShape
    <3>2. ReportIsTrue'
      BY <1>7, <2>1, <2>3 DEF ReportIsTrue, Disturbed
    <3> QED
      BY <3>1, <3>2 DEF Reported
  <2>4. last'.op # "none"
    BY <1>7
  <2>5. ~MaterializeStart /\ ~ApplyStart /\ ~RestoreStart
    BY <2>4, OutcomeOp DEF MaterializeStart, ApplyStart, RestoreStart
  <2> QED
    BY <2>1, <2>2, <2>3, <2>5
       DEF MemoryNext, Approve, BuildBackupPlan, BuildRestorePreview, CopyItem, CopyFails,
           MaterializeDone, StageApply, ValidateTargets, ApplyRefused, RenameItem, RenameFails,
           HashFails, ApplyDone, RestoreItem, RestoreFails, RestoreDone, Dies, EditProposal,
           EditPolicy, vars, history
<1>8. CASE last'.op = "apply" /\ last' # last
  <2>1. ApplyRefused \/ RenameFails \/ HashFails \/ ApplyDone
    BY <1>8, OutcomeOp
       DEF MemoryNext, Approve, BuildBackupPlan, BuildRestorePreview, MaterializeStart, CopyItem,
           CopyFails, MaterializeDone, ApplyStart, StageApply, ValidateTargets, RenameItem,
           RestoreStart, RestoreItem, RestoreFails, RestoreDone, Dies, EditFile, TakeBack,
           Overwrite, DamageBackup, EditProposal, EditPolicy, vars
  <2> QED
    BY <1>3, <1>4, <1>5, <1>6, <2>1
<1> QED
  BY <1>2, <1>7, <1>8

\* What an apply reports is what it has done: nothing, the first so many of its actions, or
\* all of them, wherever nobody else had a hand in the files.
THEOREM ReportIsTrueHolds == MemorySpec => []ReportIsTrue
<1>1. ReportInv => ReportIsTrue
  BY DEF ReportInv, Reported, ReportIsTrue
<1>2. TypeInv /\ OverwriteInv /\ OverwriteInv' /\ ReportInv /\ [MemoryNext]_vars => ReportInv'
  BY ReportingNext, ReportedNext DEF ReportInv
<1> QED
  BY <1>1, <1>2, TypesInit, TypesNext, OverwriteInit, OverwriteNext, ReportInit, PTL DEF MemorySpec
====
