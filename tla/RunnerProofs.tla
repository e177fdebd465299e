---------------------------- MODULE RunnerProofs ----------------------------
(***************************************************************************)
(* The invariants of Runner, for any runs, tasks, results and number of    *)
(* faults, prunes and edits.                                               *)
(***************************************************************************)
EXTENDS Runner, SequenceTheorems, TLAPS

Early == {"idle", "baseline", "prepare"}
Judging == {"work", "check", "validate", "diff", "snapshot", "finish"}
Unchecked == Early \cup {"open", "work", "check"}
Recorded == {"memory", "write", "rows", "done"}
Late == {"rows", "done", "failed", "killed"}
Pcs == Early \cup Judging \cup {"open", "save"} \cup Recorded \cup Late

Verdicts == {"succeeded", "failed", "policy_failed"}
NoCheck == Checked("none", "", "", FALSE)
CheckRecord == [status: {"none", "invalid", "valid", "preflight_passed", "preflight_failed"},
                lint: {"", "invalid", "skipped_policy", "passed", "failed"},
                preflight: {"", "passed", "failed"}, err: BOOLEAN]
RunRecord == [pc: Pcs, task: Tasks \cup {NoTask}, result: Results \cup {NoResult},
              check: CheckRecord, err: BOOLEAN, diff: SUBSET Paths, paths: SUBSET Paths,
              status: Verdicts \cup {""}, next: 1..7]

Shape ==
    /\ run \in [Runs -> RunRecord]
    /\ tree \in [Runs -> {"none", "present", "removed"}] /\ row \in [Runs -> Statuses]
    /\ files \in [Runs -> SUBSET FileNames] /\ rows \in [Runs -> SUBSET FileNames]
    /\ prune \in [pc: {"idle", "remove"}, todo: SUBSET (Runs \X FileNames), gone: SUBSET (Runs \X FileNames)]
    /\ dirty \in BOOLEAN

\* How far a run has come says what its worktree, its row and its status are.
Phase(r) ==
    /\ run[r].pc \in Early \cup {"open"} \cup Judging => run[r].status = ""
    /\ run[r].pc \in Early => tree[r] = "none" /\ row[r] = "none"
    /\ run[r].pc = "open" => tree[r] = "present" /\ row[r] = "none"
    /\ run[r].pc \in Judging => tree[r] = "present" /\ row[r] = "running"
    /\ run[r].pc = "save" => row[r] = "running" /\ run[r].status # ""
    /\ run[r].pc \in Recorded => row[r] = run[r].status /\ run[r].status # ""

\* The worktree, whether the run goes on or not.
Kept(r) ==
    /\ row[r] \in {"none", "running"} \/ row[r] = run[r].status
    /\ tree[r] = "removed" => run[r].status = "succeeded" /\ row[r] # "none"
    /\ row[r] # "none" => tree[r] # "none"

\* The paths the status is decided on are all that git shows, or there was an error.
Seen(r) == Looks(r, {"tracked", "untracked"})
Judged(r) ==
    /\ run[r].pc = "finish" => run[r].err \/ run[r].paths = Seen(r)
    /\ run[r].status = "succeeded" => Seen(r) \subseteq run[r].task.allowed

Vetted(r) ==
    /\ run[r].pc \in Unchecked => run[r].check = NoCheck
    /\ run[r].check.status = "preflight_passed" \/ run[r].check.preflight = "passed" =>
         /\ run[r].check.status = "preflight_passed" /\ run[r].result.says = "ok"
         /\ "approval" \notin Emitted(r)

\* Rows follow the files one by one; only a prune takes one away, and then file before row.
All(r) == Written(r, Len(FilesOf(r)))
Filed(r) ==
    /\ run[r].pc \notin Late => files[r] = {} /\ rows[r] = {} /\ run[r].next = 1
    /\ files[r] \subseteq All(r)
    /\ row[r] # "succeeded" => rows[r] \subseteq files[r]
    /\ run[r].pc = "rows" =>
         run[r].next \in 1..Len(FilesOf(r)) /\ (row[r] # "succeeded" => files[r] = All(r))
    /\ run[r].pc = "done" => run[r].next = Len(FilesOf(r)) + 1
    /\ run[r].pc \in {"rows", "done"} =>
         \A i \in 1..run[r].next - 1 : FilesOf(r)[i] \in files[r] => FilesOf(r)[i] \in rows[r]

RunOK(r) == Phase(r) /\ Kept(r) /\ Judged(r) /\ Vetted(r) /\ Filed(r)

PruneOK ==
    /\ \A c \in prune.todo \cup prune.gone : row[c[1]] = "succeeded" /\ run[c[1]].pc \in Late
    /\ \A c \in prune.gone : c[2] \notin files[c[1]]

RunnerIInv == Shape /\ (\A r \in Runs : RunOK(r)) /\ PruneOK

-----------------------------------------------------------------------------
\* The files of a run are at most six, each by its name.
LEMMA OneName ==
  ASSUME NEW S, NEW f \in S, NEW g \in S
  PROVE  /\ <<>> \in Seq(S) /\ Len(<<>>) = 0
         /\ <<f>> \in Seq(S) /\ Len(<<f>>) = 1
         /\ <<f, g>> \in Seq(S) /\ Len(<<f, g>>) = 2
OBVIOUS

LEMMA OnlyName ==
  ASSUME NEW f \in FileNames, NEW c \in BOOLEAN
  PROVE  Only(c, f) \in Seq(FileNames) /\ Len(Only(c, f)) \in 0..1
<1>1. CASE c
  BY <1>1, OneName DEF Only
<1>2. CASE ~c
  BY <1>2, OneName DEF Only
<1> QED  BY <1>1, <1>2

LEMMA JoinNames ==
  ASSUME NEW s \in Seq(FileNames), NEW t \in Seq(FileNames),
         NEW i \in Nat, NEW j \in Nat, NEW k \in Nat, NEW l \in Nat,
         Len(s) \in i..j, Len(t) \in k..l
  PROVE  s \o t \in Seq(FileNames) /\ Len(s \o t) \in i + k..j + l
BY ConcatProperties

LEMMA FilesOfRun ==
  ASSUME NEW r \in Runs, run[r].result \in Results \cup {NoResult}
  PROVE  FilesOf(r) \in Seq(FileNames) /\ Len(FilesOf(r)) \in 2..6
<1> DEFINE worker == run[r].result.artifacts
           lint == Only(run[r].check.lint # "", "lint")
           pre == Only(run[r].check.preflight # "", "preflight")
<1>1. {"proposal", "approval", "diff", "lint", "preflight", "trace"} \subseteq FileNames
  BY DEF FileNames
<1>2. worker \in Seq(FileNames) /\ Len(worker) \in 0..2
  <2>1. worker \in {<<>>, <<"proposal">>, <<"approval">>,
                    <<"proposal", "approval">>, <<"approval", "proposal">>}
    BY RunnerAssumption DEF NoResult
  <2> HIDE DEF worker
  <2>2. CASE worker = <<>>
    BY <1>1, <2>2, OneName
  <2>3. CASE worker = <<"proposal">>
    BY <1>1, <2>3, OneName
  <2>4. CASE worker = <<"approval">>
    BY <1>1, <2>4, OneName
  <2>5. CASE worker = <<"proposal", "approval">>
    BY <1>1, <2>5, OneName
  <2>6. CASE worker = <<"approval", "proposal">>
    BY <1>1, <2>6, OneName
  <2> QED  BY <2>1, <2>2, <2>3, <2>4, <2>5, <2>6
<1>3. lint \in Seq(FileNames) /\ Len(lint) \in 0..1 /\ pre \in Seq(FileNames) /\ Len(pre) \in 0..1
  BY <1>1, OnlyName
<1>4. <<"diff">> \in Seq(FileNames) /\ Len(<<"diff">>) = 1
      /\ <<"trace">> \in Seq(FileNames) /\ Len(<<"trace">>) = 1
  BY <1>1, OneName
<1> DEFINE diff == <<"diff">>
           trace == <<"trace">>
           f1 == diff \o lint
           f2 == f1 \o pre
           f3 == f2 \o worker
           f4 == f3 \o trace
<1>5. FilesOf(r) = f4
  BY DEF FilesOf
<1>6. diff \in Seq(FileNames) /\ Len(diff) \in 1..1 /\ trace \in Seq(FileNames) /\ Len(trace) \in 1..1
  BY <1>4
<1> HIDE DEF worker, lint, pre, diff, trace
<1>7. f1 \in Seq(FileNames) /\ Len(f1) \in 1 + 0..1 + 1
  BY <1>3, <1>6, JoinNames
<1>8. f1 \in Seq(FileNames) /\ Len(f1) \in 1..2
  BY <1>7
<1> HIDE DEF f1
<1>9. f2 \in Seq(FileNames) /\ Len(f2) \in 1 + 0..2 + 1
  BY <1>3, <1>8, JoinNames
<1>10. f2 \in Seq(FileNames) /\ Len(f2) \in 1..3
  BY <1>9
<1> HIDE DEF f2
<1>11. f3 \in Seq(FileNames) /\ Len(f3) \in 1 + 0..3 + 2
  BY <1>2, <1>10, JoinNames
<1>12. f3 \in Seq(FileNames) /\ Len(f3) \in 1..5
  BY <1>11
<1> HIDE DEF f3
<1>13. f4 \in Seq(FileNames) /\ Len(f4) \in 1 + 1..5 + 1
  BY <1>6, <1>12, JoinNames
<1>14. f4 \in Seq(FileNames) /\ Len(f4) \in 2..6
  BY <1>13
<1> QED  BY <1>5, <1>14

LEMMA NoCheckFields ==
  ASSUME NEW c, c = NoCheck
  PROVE  c \in CheckRecord /\ c.status = "none" /\ c.preflight = ""
BY DEF NoCheck, Checked, CheckRecord

\* Nothing but its own record says what a run has emitted, changed and written.
LEMMA SameFiles ==
  ASSUME NEW r \in Runs, run'[r].result = run[r].result, run'[r].check = run[r].check
  PROVE  FilesOf(r)' = FilesOf(r) /\ All(r)' = All(r) /\ Emitted(r)' = Emitted(r) /\ Seen(r)' = Seen(r)
<1>1. FilesOf(r)' = FilesOf(r)
  BY DEF FilesOf
<1>2. Emitted(r)' = Emitted(r) /\ Seen(r)' = Seen(r)
  BY DEF Emitted, Seen, Looks
<1> QED  BY <1>1, <1>2 DEF All, Written

\* A run that takes no step and is not pruned stays as it is.
LEMMA OtherRun ==
  ASSUME NEW r \in Runs, RunOK(r), run'[r] = run[r], tree'[r] = tree[r], row'[r] = row[r],
         files'[r] = files[r], rows'[r] = rows[r]
  PROVE  RunOK(r)'
<1>1. FilesOf(r)' = FilesOf(r) /\ All(r)' = All(r) /\ Emitted(r)' = Emitted(r) /\ Seen(r)' = Seen(r)
  BY SameFiles
<1>2. Phase(r)' /\ Kept(r)'
  BY DEF RunOK, Phase, Kept
<1>3. Judged(r)' /\ Vetted(r)'
  BY <1>1 DEF RunOK, Judged, Vetted
<1>4. Filed(r)'
  BY <1>1 DEF RunOK, Filed
<1> QED  BY <1>2, <1>3, <1>4 DEF RunOK

LEMMA RunnerInit == Init => RunnerIInv
<1> SUFFICES ASSUME Init PROVE RunnerIInv
  OBVIOUS
<1>1. Shape
  <2>1. NoCheck \in CheckRecord
    BY NoCheckFields
  <2> DEFINE fresh == [pc |-> "idle", task |-> NoTask, result |-> NoResult, check |-> NoCheck,
                       err |-> FALSE, diff |-> {}, paths |-> {}, status |-> "", next |-> 1]
  <2>2. fresh \in RunRecord
    BY <2>1 DEF RunRecord, Pcs, Early
  <2>3. run = [r \in Runs |-> fresh]
    BY DEF Init, NoCheck
  <2> HIDE DEF fresh
  <2>4. run \in [Runs -> RunRecord]
    BY <2>2, <2>3
  <2> QED  BY <2>4 DEF Init, Shape, Statuses
<1>2. ASSUME NEW r \in Runs PROVE RunOK(r)
  <2>1. run[r].pc = "idle" /\ run[r].status = "" /\ run[r].check = NoCheck /\ run[r].next = 1
        /\ tree[r] = "none" /\ row[r] = "none" /\ files[r] = {} /\ rows[r] = {}
    BY DEF Init, NoCheck
  <2>2. Phase(r) /\ Kept(r) /\ Judged(r)
    BY <2>1 DEF Phase, Kept, Judged, Early, Judging, Recorded
  <2>3. Vetted(r)
    BY <2>1, NoCheckFields DEF Vetted
  <2>4. Filed(r)
    BY <2>1 DEF Filed, Late
  <2> QED  BY <2>2, <2>3, <2>4 DEF RunOK
<1>3. PruneOK
  <2>1. prune.todo = {} /\ prune.gone = {}
    BY DEF Init
  <2> QED  BY <2>1 DEF PruneOK
<1> QED  BY <1>1, <1>2, <1>3 DEF RunnerIInv

-----------------------------------------------------------------------------
\* A step of one run that leaves the prunes alone keeps the invariant if that run keeps its own.
LEMMA OneRunSteps ==
  ASSUME RunnerIInv, NEW r \in Runs, NEW rec \in RunRecord, run' = [run EXCEPT ![r] = rec],
         NEW t \in {"none", "present", "removed"}, tree' = [tree EXCEPT ![r] = t],
         NEW s \in Statuses, row' = [row EXCEPT ![r] = s],
         NEW F \in SUBSET FileNames, files' = [files EXCEPT ![r] = F],
         NEW R \in SUBSET FileNames, rows' = [rows EXCEPT ![r] = R],
         dirty' \in BOOLEAN, prune' = prune, RunOK(r)',
         run[r].pc \in Late => rec.pc \in Late /\ s = row[r] /\ F \subseteq files[r]
  PROVE  RunnerIInv'
<1>1. Shape'
  BY DEF RunnerIInv, Shape
<1>2. ASSUME NEW q \in Runs PROVE RunOK(q)'
  <2>1. CASE q = r
    BY <2>1
  <2>2. CASE q # r
    BY <2>2, OtherRun DEF RunnerIInv, Shape
  <2> QED  BY <2>1, <2>2
<1>3. PruneOK'
  <2>1. ASSUME NEW c \in prune.todo \cup prune.gone
        PROVE  c[1] \in Runs /\ row'[c[1]] = "succeeded" /\ run'[c[1]].pc \in Late
    <3>1. c[1] \in Runs /\ row[c[1]] = "succeeded" /\ run[c[1]].pc \in Late
      BY DEF RunnerIInv, Shape, PruneOK
    <3> QED  BY <3>1 DEF RunnerIInv, Shape
  <2>2. ASSUME NEW c \in prune.gone PROVE c[2] \notin files'[c[1]]
    <3>1. c[1] \in Runs /\ c[2] \notin files[c[1]] /\ run[c[1]].pc \in Late
      BY DEF RunnerIInv, Shape, PruneOK
    <3> QED  BY <3>1 DEF RunnerIInv, Shape
  <2> QED  BY <2>1, <2>2 DEF PruneOK
<1> QED  BY <1>1, <1>2, <1>3 DEF RunnerIInv

\* One that changes nothing but the run's own record.
LEMMA QuietStep ==
  ASSUME RunnerIInv, NEW r \in Runs, NEW rec \in RunRecord, run' = [run EXCEPT ![r] = rec],
         UNCHANGED <<tree, row, files, rows, dirty, prune>>, RunOK(r)',
         run[r].pc \in Late => rec.pc \in Late
  PROVE  RunnerIInv'
<1>1. /\ tree' = [tree EXCEPT ![r] = tree[r]] /\ row' = [row EXCEPT ![r] = row[r]]
      /\ files' = [files EXCEPT ![r] = files[r]] /\ rows' = [rows EXCEPT ![r] = rows[r]]
      /\ tree[r] \in {"none", "present", "removed"} /\ row[r] \in Statuses
      /\ files[r] \in SUBSET FileNames /\ rows[r] \in SUBSET FileNames /\ dirty' \in BOOLEAN
  BY DEF RunnerIInv, Shape
<1> QED  BY <1>1, OneRunSteps

\* A run that goes on with the record it has.
LEMMA Moved ==
  ASSUME NEW c \in RunRecord, NEW pc \in Pcs
  PROVE  [c EXCEPT !.pc = pc] \in RunRecord
BY DEF RunRecord

LEMMA GoesTo ==
  ASSUME RunnerIInv, NEW r \in Runs, NEW pc \in Pcs, GoTo(r, pc)
  PROVE  /\ [run[r] EXCEPT !.pc = pc] \in RunRecord
         /\ run' = [run EXCEPT ![r] = [run[r] EXCEPT !.pc = pc]]
         /\ [run[r] EXCEPT !.pc = pc].pc = pc
         /\ run'[r].pc = pc /\ run'[r].status = run[r].status /\ run'[r].check = run[r].check
         /\ run'[r].result = run[r].result /\ run'[r].task = run[r].task
         /\ run'[r].err = run[r].err /\ run'[r].paths = run[r].paths /\ run'[r].next = run[r].next
         /\ FilesOf(r)' = FilesOf(r) /\ All(r)' = All(r) /\ Emitted(r)' = Emitted(r) /\ Seen(r)' = Seen(r)
<1>1. run \in [Runs -> RunRecord] /\ run[r] \in RunRecord
  BY DEF RunnerIInv, Shape
<1>2. [run[r] EXCEPT !.pc = pc] \in RunRecord
  BY <1>1, Moved
<1>3. run' = [run EXCEPT ![r] = [run[r] EXCEPT !.pc = pc]]
  BY DEF GoTo, Become
<1>4. run'[r] = [run[r] EXCEPT !.pc = pc]
  BY <1>1, <1>3
<1>5. /\ run'[r].pc = pc /\ run'[r].status = run[r].status /\ run'[r].check = run[r].check
      /\ run'[r].result = run[r].result /\ run'[r].task = run[r].task
      /\ run'[r].err = run[r].err /\ run'[r].paths = run[r].paths /\ run'[r].next = run[r].next
      /\ [run[r] EXCEPT !.pc = pc].pc = pc
  BY <1>1, <1>4 DEF RunRecord
<1> QED  BY <1>2, <1>3, <1>5, SameFiles

\* An error or a kill that ends the command where it is.
LEMMA EndStep ==
  ASSUME RunnerIInv, NEW r \in Runs, NEW pc \in {"failed", "killed"}, GoTo(r, pc),
         UNCHANGED <<tree, row, files, rows, dirty, prune>>
  PROVE  RunnerIInv'
<1>1. pc \in Pcs /\ pc \in Late
  BY DEF Pcs, Late
<1>2. RunOK(r)'
  <2>1. RunOK(r)
    BY DEF RunnerIInv
  <2>2. Phase(r)' /\ Kept(r)'
    BY <1>1, GoesTo, <2>1 DEF RunOK, Phase, Kept, Early, Judging, Recorded
  <2>3. Judged(r)' /\ Vetted(r)'
    BY <1>1, GoesTo, <2>1 DEF RunOK, Judged, Vetted, Unchecked, Early
  <2>4. Filed(r)'
    BY <1>1, GoesTo, <2>1 DEF RunOK, Filed
  <2> QED  BY <2>2, <2>3, <2>4 DEF RunOK
<1> DEFINE rec == [run[r] EXCEPT !.pc = pc]
<1>3. rec \in RunRecord /\ rec.pc \in Late /\ run' = [run EXCEPT ![r] = rec]
  BY <1>1, GoesTo
<1> HIDE DEF rec
<1> QED  BY <1>2, <1>3, QuietStep

\* One that goes on and changes nothing else.
LEMMA GoOn ==
  ASSUME RunnerIInv, NEW r \in Runs, NEW pc \in Pcs, GoTo(r, pc), RunOK(r)', run[r].pc \notin Late,
         UNCHANGED <<tree, row, files, rows, dirty, prune>>
  PROVE  RunnerIInv'
<1> DEFINE rec == [run[r] EXCEPT !.pc = pc]
<1>1. rec \in RunRecord /\ run' = [run EXCEPT ![r] = rec]
  BY GoesTo
<1> HIDE DEF rec
<1> QED  BY <1>1, QuietStep

LEMMA BeginStep == ASSUME RunnerIInv, NEW r \in Runs, Begin(r) PROVE RunnerIInv'
<1> PICK task \in Tasks : Become(r, [run[r] EXCEPT !.pc = "baseline", !.task = task])
  BY DEF Begin
<1> DEFINE rec == [run[r] EXCEPT !.pc = "baseline", !.task = task]
<1>1. run \in [Runs -> RunRecord] /\ run[r] \in RunRecord /\ RunOK(r) /\ run[r].pc = "idle"
  BY DEF RunnerIInv, Shape, Begin, At
<1>2. /\ rec \in RunRecord /\ rec.pc = "baseline" /\ rec.status = run[r].status
      /\ rec.check = run[r].check /\ rec.result = run[r].result /\ rec.next = run[r].next
  BY <1>1 DEF RunRecord, Pcs, Early
<1>3. run' = [run EXCEPT ![r] = rec] /\ run'[r] = rec
  BY <1>1 DEF Become
<1> HIDE DEF rec
<1>4. UNCHANGED <<tree, row, files, rows, dirty, prune>>
  BY DEF Begin, store, world
<1>5. FilesOf(r)' = FilesOf(r) /\ All(r)' = All(r) /\ Emitted(r)' = Emitted(r) /\ Seen(r)' = Seen(r)
  BY <1>2, <1>3, SameFiles
<1>6. Phase(r)' /\ Kept(r)' /\ Judged(r)'
  BY <1>1, <1>2, <1>3, <1>4 DEF RunOK, Phase, Kept, Judged, Early, Judging, Recorded
<1>7. Vetted(r)' /\ Filed(r)'
  BY <1>1, <1>2, <1>3, <1>4, <1>5 DEF RunOK, Vetted, Filed, Unchecked, Early, Late
<1> QED  BY <1>1, <1>2, <1>3, <1>4, <1>6, <1>7, QuietStep DEF Late, RunOK

LEMMA BaselineStep == ASSUME RunnerIInv, NEW r \in Runs, Baseline(r) PROVE RunnerIInv'
<1>1. RunOK(r) /\ run[r].pc = "baseline" /\ UNCHANGED <<tree, row, files, rows, dirty, prune>>
  BY DEF RunnerIInv, Baseline, At, store, world
<1>2. CASE GoTo(r, "failed")
  BY <1>1, <1>2, EndStep
<1>3. CASE GoTo(r, "prepare")
  <2>1. "prepare" \in Pcs
    BY DEF Pcs, Early
  <2>2. Phase(r)' /\ Kept(r)' /\ Judged(r)'
    BY <1>1, <1>3, <2>1, GoesTo DEF RunOK, Phase, Kept, Judged, Early, Judging, Recorded
  <2>3. Vetted(r)' /\ Filed(r)'
    BY <1>1, <1>3, <2>1, GoesTo DEF RunOK, Vetted, Filed, Unchecked, Early, Late
  <2> QED  BY <1>1, <1>3, <2>1, <2>2, <2>3, GoOn DEF Late, RunOK
<1> QED  BY <1>2, <1>3 DEF Baseline, Fails

LEMMA PrepareStep == ASSUME RunnerIInv, NEW r \in Runs, Prepare(r) PROVE RunnerIInv'
<1>1. RunOK(r) /\ run[r].pc = "prepare" /\ UNCHANGED <<row, files, rows, dirty, prune>>
  BY DEF RunnerIInv, Prepare, At, store, world
<1>2. CASE GoTo(r, "failed") /\ UNCHANGED tree
  BY <1>1, <1>2, EndStep
<1>3. CASE GoTo(r, "open") /\ tree' = [tree EXCEPT ![r] = "present"]
  <2> DEFINE rec == [run[r] EXCEPT !.pc = "open"]
  <2>1. "open" \in Pcs
    BY DEF Pcs
  <2>2. rec \in RunRecord /\ run' = [run EXCEPT ![r] = rec]
    BY <1>3, <2>1, GoesTo
  <2>3. tree'[r] = "present"
    BY <1>3 DEF RunnerIInv, Shape
  <2>4. Phase(r)' /\ Kept(r)' /\ Judged(r)'
    BY <1>1, <1>3, <2>1, <2>3, GoesTo DEF RunOK, Phase, Kept, Judged, Early, Judging, Recorded
  <2>5. Vetted(r)' /\ Filed(r)'
    BY <1>1, <1>3, <2>1, GoesTo DEF RunOK, Vetted, Filed, Unchecked, Early, Late
  <2>6. /\ row' = [row EXCEPT ![r] = row[r]] /\ files' = [files EXCEPT ![r] = files[r]]
        /\ rows' = [rows EXCEPT ![r] = rows[r]] /\ row[r] \in Statuses
        /\ files[r] \in SUBSET FileNames /\ rows[r] \in SUBSET FileNames /\ dirty' \in BOOLEAN
    BY <1>1 DEF RunnerIInv, Shape
  <2> HIDE DEF rec
  <2> QED  BY <1>1, <1>3, <2>2, <2>4, <2>5, <2>6, OneRunSteps DEF Late, RunOK
<1> QED  BY <1>2, <1>3 DEF Prepare, Fails

LEMMA RecordStep == ASSUME RunnerIInv, NEW r \in Runs, Record(r) PROVE RunnerIInv'
<1>1. RunOK(r) /\ run[r].pc = "open" /\ UNCHANGED <<tree, files, rows, dirty, prune>>
  BY DEF RunnerIInv, Record, At, store, world
<1>2. CASE GoTo(r, "failed") /\ UNCHANGED row
  BY <1>1, <1>2, EndStep
<1>3. CASE GoTo(r, "work") /\ row' = [row EXCEPT ![r] = "running"]
  <2> DEFINE rec == [run[r] EXCEPT !.pc = "work"]
  <2>1. "work" \in Pcs
    BY DEF Pcs, Judging
  <2>2. rec \in RunRecord /\ run' = [run EXCEPT ![r] = rec]
    BY <1>3, <2>1, GoesTo
  <2>3. row'[r] = "running"
    BY <1>3 DEF RunnerIInv, Shape
  <2>4. Phase(r)' /\ Kept(r)' /\ Judged(r)'
    BY <1>1, <1>3, <2>1, <2>3, GoesTo DEF RunOK, Phase, Kept, Judged, Early, Judging, Recorded
  <2>5. Vetted(r)' /\ Filed(r)'
    BY <1>1, <1>3, <2>1, <2>3, GoesTo DEF RunOK, Vetted, Filed, Unchecked, Early, Late
  <2>6. /\ tree' = [tree EXCEPT ![r] = tree[r]] /\ files' = [files EXCEPT ![r] = files[r]]
        /\ rows' = [rows EXCEPT ![r] = rows[r]] /\ tree[r] \in {"none", "present", "removed"}
        /\ "running" \in Statuses
        /\ files[r] \in SUBSET FileNames /\ rows[r] \in SUBSET FileNames /\ dirty' \in BOOLEAN
    BY <1>1 DEF RunnerIInv, Shape, Statuses
  <2> HIDE DEF rec
  <2> QED  BY <1>1, <1>3, <2>2, <2>4, <2>5, <2>6, OneRunSteps DEF Late, RunOK
<1> QED  BY <1>2, <1>3 DEF Record, Fails

LEMMA ChecksSound ==
  ASSUME NEW r \in Runs, NEW c \in Checks(r)
  PROVE  /\ c \in CheckRecord
         /\ c.status = "preflight_passed" \/ c.preflight = "passed" =>
              /\ c.status = "preflight_passed" /\ run[r].result.says = "ok"
              /\ "approval" \notin Emitted(r)
<1>1. CASE "approval" \in Emitted(r)
  <2>1. c = Checked("invalid", "invalid", "", TRUE)
    BY <1>1 DEF Checks
  <2> QED  BY <2>1 DEF Checked, CheckRecord
<1>2. CASE "approval" \notin Emitted(r) /\ "proposal" \notin Emitted(r)
  <2>1. c = NoCheck
    BY <1>2 DEF Checks, NoCheck
  <2> QED  BY <2>1, NoCheckFields
<1>3. CASE "approval" \notin Emitted(r) /\ "proposal" \in Emitted(r) /\ run[r].result.says # "ok"
  <2>1. c = Checked("invalid", "invalid", "", TRUE)
    BY <1>3 DEF Checks
  <2> QED  BY <2>1 DEF Checked, CheckRecord
<1>4. CASE /\ "approval" \notin Emitted(r) /\ "proposal" \in Emitted(r) /\ run[r].result.says = "ok"
           /\ run[r].task.policy = "none"
  <2>1. c = Checked("valid", "skipped_policy", "", FALSE)
    BY <1>4 DEF Checks
  <2> QED  BY <2>1 DEF Checked, CheckRecord
<1>5. CASE /\ "approval" \notin Emitted(r) /\ "proposal" \in Emitted(r) /\ run[r].result.says = "ok"
           /\ run[r].task.policy # "none"
  <2>1. c \in Preflights(run[r].task)
    BY <1>5 DEF Checks
  <2>2. CASE c = Checked("preflight_passed", "passed", "passed", FALSE)
    BY <1>5, <2>2 DEF Checked, CheckRecord
  <2>3. CASE \E lint \in {"passed", "failed"} :
               c = Checked("preflight_failed", lint, "failed", run[r].task.policy = "required")
    <3>1. PICK lint \in {"passed", "failed"}, e \in BOOLEAN : c = Checked("preflight_failed", lint, "failed", e)
      BY <2>3
    <3> QED  BY <3>1 DEF Checked, CheckRecord
  <2> QED  BY <2>1, <2>2, <2>3 DEF Preflights
<1> QED  BY <1>1, <1>2, <1>3, <1>4, <1>5

\* Nothing is written and recorded before the run is judged.
LEMMA JudgingStep ==
  ASSUME RunnerIInv, NEW r \in Runs, run[r].pc \in Judging, NEW rec \in RunRecord, Become(r, rec),
         rec.pc \in Judging, rec.status = run[r].status, rec.next = run[r].next,
         UNCHANGED <<tree, row, files, rows, dirty, prune>>, Judged(r)', Vetted(r)'
  PROVE  RunnerIInv'
<1>1. run \in [Runs -> RunRecord] /\ RunOK(r)
  BY DEF RunnerIInv, Shape
<1>2. run' = [run EXCEPT ![r] = rec] /\ run'[r] = rec
  BY <1>1 DEF Become
<1>3. Phase(r)' /\ Kept(r)'
  BY <1>1, <1>2 DEF RunOK, Phase, Kept, Judging, Early, Recorded
<1>4. Filed(r)'
  BY <1>1, <1>2 DEF RunOK, Filed, Phase, Judging, Late
<1> QED  BY <1>2, <1>3, <1>4, QuietStep DEF RunOK, Late, Judging

LEMMA WorkStep == ASSUME RunnerIInv, NEW r \in Runs, Work(r) PROVE RunnerIInv'
<1> PICK result \in Results :
      Become(r, [run[r] EXCEPT !.pc = "check", !.result = result, !.err = ~result.ok])
  BY DEF Work
<1> DEFINE e == ~result.ok
           rec == [run[r] EXCEPT !.pc = "check", !.result = result, !.err = e]
<1>0. e \in BOOLEAN /\ Become(r, rec)
  OBVIOUS
<1> HIDE DEF e
<1>1. run \in [Runs -> RunRecord] /\ run[r] \in RunRecord /\ RunOK(r) /\ run[r].pc = "work"
  BY DEF RunnerIInv, Shape, Work, At
<1>2. /\ rec \in RunRecord /\ rec.pc = "check" /\ rec.status = run[r].status
      /\ rec.check = run[r].check /\ rec.next = run[r].next
  BY <1>0, <1>1 DEF RunRecord, Pcs, Judging
<1>3. run'[r] = rec
  BY <1>0, <1>1 DEF Become
<1> HIDE DEF rec
<1>4. UNCHANGED <<tree, row, files, rows, dirty, prune>>
  BY DEF Work, store, world
<1>5. run[r].check = NoCheck /\ run[r].status = ""
  BY <1>1 DEF RunOK, Vetted, Phase, Unchecked, Judging
<1>6. Judged(r)' /\ Vetted(r)'
  BY <1>2, <1>3, <1>5, NoCheckFields DEF Judged, Vetted
<1> QED  BY <1>0, <1>1, <1>2, <1>4, <1>6, JudgingStep DEF Judging

LEMMA CheckStep == ASSUME RunnerIInv, NEW r \in Runs, CheckMCPToolProposal(r) PROVE RunnerIInv'
<1> PICK check \in Checks(r) :
      Become(r, [run[r] EXCEPT !.pc = "validate", !.check = check, !.err = @ \/ check.err])
  BY DEF CheckMCPToolProposal
<1> DEFINE e == run[r].err \/ check.err
           rec == [run[r] EXCEPT !.pc = "validate", !.check = check, !.err = e]
<1>0. e \in BOOLEAN /\ Become(r, rec)
  OBVIOUS
<1> HIDE DEF e
<1>1. run \in [Runs -> RunRecord] /\ run[r] \in RunRecord /\ RunOK(r) /\ run[r].pc = "check"
  BY DEF RunnerIInv, Shape, CheckMCPToolProposal, At
<1>2. /\ rec \in RunRecord /\ rec.pc = "validate" /\ rec.status = run[r].status
      /\ rec.check = check /\ rec.result = run[r].result /\ rec.next = run[r].next
  BY <1>0, <1>1, ChecksSound DEF RunRecord, Pcs, Judging
<1>3. run'[r] = rec
  BY <1>0, <1>1 DEF Become
<1> HIDE DEF rec
<1>4. UNCHANGED <<tree, row, files, rows, dirty, prune>>
  BY DEF CheckMCPToolProposal, store, world
<1>5. run[r].status = "" /\ Emitted(r)' = Emitted(r)
  BY <1>1, <1>2, <1>3 DEF RunOK, Phase, Judging, Emitted
<1>6. Judged(r)' /\ Vetted(r)'
  BY <1>2, <1>3, <1>5, ChecksSound DEF Judged, Vetted, Unchecked, Early
<1> QED  BY <1>0, <1>1, <1>2, <1>4, <1>6, JudgingStep DEF Judging

\* One that settles nothing but whether there was an error, or what the diff shows.
LEMMA NoVerdictStep ==
  ASSUME RunnerIInv, NEW r \in Runs, run[r].pc \in Judging, NEW rec \in RunRecord, Become(r, rec),
         rec.pc \in Judging \ {"work", "check", "finish"}, rec.status = run[r].status,
         rec.next = run[r].next, rec.check = run[r].check, rec.result = run[r].result,
         UNCHANGED <<tree, row, files, rows, dirty, prune>>
  PROVE  RunnerIInv'
<1>1. run'[r] = rec /\ RunOK(r) /\ run[r].status = ""
  BY DEF RunnerIInv, Shape, Become, RunOK, Phase
<1>2. Emitted(r)' = Emitted(r)
  BY <1>1 DEF Emitted
<1>3. Judged(r)' /\ Vetted(r)'
  BY <1>1, <1>2 DEF RunOK, Judged, Vetted, Unchecked, Early, Judging
<1> QED  BY <1>3, JudgingStep

LEMMA ValidateStep == ASSUME RunnerIInv, NEW r \in Runs, Validate(r) PROVE RunnerIInv'
<1> PICK fails \in BOOLEAN : Become(r, [run[r] EXCEPT !.pc = "diff", !.err = @ \/ fails])
  BY DEF Validate
<1> DEFINE e == run[r].err \/ fails
           rec == [run[r] EXCEPT !.pc = "diff", !.err = e]
<1>1. e \in BOOLEAN /\ Become(r, rec)
  OBVIOUS
<1> HIDE DEF e
<1>2. run[r] \in RunRecord /\ run[r].pc = "validate"
  BY DEF RunnerIInv, Shape, Validate, At
<1>3. /\ rec \in RunRecord /\ rec.pc = "diff" /\ rec.status = run[r].status
      /\ rec.check = run[r].check /\ rec.result = run[r].result /\ rec.next = run[r].next
  BY <1>1, <1>2 DEF RunRecord, Pcs, Judging
<1> HIDE DEF rec
<1>4. UNCHANGED <<tree, row, files, rows, dirty, prune>>
  BY DEF Validate, store, world
<1> QED  BY <1>1, <1>2, <1>3, <1>4, NoVerdictStep DEF Judging

\* What git shows is a set of paths, for a result of any changes.
LEMMA LooksTyped == ASSUME NEW r \in Runs, run[r] \in RunRecord, NEW how PROVE Looks(r, how) \in SUBSET Paths
<1>1. run[r].result \in Results \cup {NoResult}
  BY DEF RunRecord
<1>2. run[r].result.changes \subseteq Changes
  BY <1>1, RunnerAssumption DEF NoResult
<1> QED  BY <1>2 DEF Looks, Changes

LEMMA DiffStep == ASSUME RunnerIInv, NEW r \in Runs, CaptureDiff(r) PROVE RunnerIInv'
<1>1. run[r] \in RunRecord /\ run[r].pc = "diff" /\ UNCHANGED <<tree, row, files, rows, dirty, prune>>
  BY DEF RunnerIInv, Shape, CaptureDiff, At, store, world
<1>2. CASE Become(r, [run[r] EXCEPT !.pc = "snapshot", !.diff = Looks(r, {"tracked"})])
  <2> DEFINE seen == Looks(r, {"tracked"})
             rec == [run[r] EXCEPT !.pc = "snapshot", !.diff = seen]
  <2>1. Become(r, rec) /\ seen \in SUBSET Paths
    BY <1>1, <1>2, LooksTyped
  <2> HIDE DEF seen
  <2>2. /\ rec \in RunRecord /\ rec.pc = "snapshot" /\ rec.status = run[r].status
        /\ rec.check = run[r].check /\ rec.result = run[r].result /\ rec.next = run[r].next
    BY <1>1, <2>1 DEF RunRecord, Pcs, Judging
  <2> HIDE DEF rec
  <2> QED  BY <1>1, <2>1, <2>2, NoVerdictStep DEF Judging
<1>3. CASE Become(r, [run[r] EXCEPT !.pc = "snapshot", !.err = TRUE])
  <2> DEFINE rec == [run[r] EXCEPT !.pc = "snapshot", !.err = TRUE]
  <2>1. /\ rec \in RunRecord /\ rec.pc = "snapshot" /\ rec.status = run[r].status
        /\ rec.check = run[r].check /\ rec.result = run[r].result /\ rec.next = run[r].next
    BY <1>1 DEF RunRecord, Pcs, Judging
  <2>2. Become(r, rec)
    BY <1>3
  <2> HIDE DEF rec
  <2> QED  BY <1>1, <2>1, <2>2, NoVerdictStep DEF Judging
<1> QED  BY <1>2, <1>3 DEF CaptureDiff

LEMMA SnapshotStep == ASSUME RunnerIInv, NEW r \in Runs, Snapshot(r) PROVE RunnerIInv'
<1>1. run[r] \in RunRecord /\ run[r].pc = "snapshot" /\ UNCHANGED <<tree, row, files, rows, dirty, prune>>
      /\ RunOK(r) /\ run \in [Runs -> RunRecord]
  BY DEF RunnerIInv, Shape, Snapshot, At, store, world
<1>2. run[r].status = ""
  BY <1>1 DEF RunOK, Phase, Judging
<1>3. CASE Become(r, [run[r] EXCEPT !.pc = "finish", !.paths = Looks(r, {"tracked", "untracked"})])
  <2> DEFINE rec == [run[r] EXCEPT !.pc = "finish", !.paths = Seen(r)]
  <2>1. Become(r, rec) /\ Seen(r) \in SUBSET Paths
    BY <1>1, <1>3, LooksTyped DEF Seen
  <2>2. /\ rec \in RunRecord /\ rec.pc = "finish" /\ rec.status = run[r].status /\ rec.paths = Seen(r)
        /\ rec.check = run[r].check /\ rec.result = run[r].result /\ rec.next = run[r].next
    BY <1>1, <2>1 DEF RunRecord, Pcs, Judging
  <2> HIDE DEF rec
  <2>3. run'[r] = rec
    BY <1>1, <2>1 DEF Become
  <2>4. Emitted(r)' = Emitted(r) /\ Seen(r)' = Seen(r)
    BY <2>2, <2>3 DEF Emitted, Seen, Looks
  <2>5. Judged(r)' /\ Vetted(r)'
    BY <1>1, <1>2, <2>2, <2>3, <2>4 DEF RunOK, Judged, Vetted, Unchecked, Early
  <2> QED  BY <1>1, <2>1, <2>2, <2>5, JudgingStep DEF Judging
<1>4. CASE Become(r, [run[r] EXCEPT !.pc = "finish", !.paths = run[r].diff, !.err = TRUE])
  <2> DEFINE rec == [run[r] EXCEPT !.pc = "finish", !.paths = run[r].diff, !.err = TRUE]
  <2>1. /\ rec \in RunRecord /\ rec.pc = "finish" /\ rec.status = run[r].status /\ rec.err
        /\ rec.check = run[r].check /\ rec.result = run[r].result /\ rec.next = run[r].next
    BY <1>1 DEF RunRecord, Pcs, Judging
  <2>2. Become(r, rec)
    BY <1>4
  <2> HIDE DEF rec
  <2>3. run'[r] = rec
    BY <1>1, <2>2 DEF Become
  <2>4. Emitted(r)' = Emitted(r)
    BY <2>1, <2>3 DEF Emitted
  <2>5. Judged(r)' /\ Vetted(r)'
    BY <1>1, <1>2, <2>1, <2>3, <2>4 DEF RunOK, Judged, Vetted, Unchecked, Early
  <2> QED  BY <1>1, <2>1, <2>2, <2>5, JudgingStep DEF Judging
<1> QED  BY <1>3, <1>4 DEF Snapshot

LEMMA FinishStep == ASSUME RunnerIInv, NEW r \in Runs, Finish(r) PROVE RunnerIInv'
<1>1. /\ run \in [Runs -> RunRecord] /\ run[r] \in RunRecord /\ RunOK(r) /\ run[r].pc = "finish"
      /\ tree \in [Runs -> {"none", "present", "removed"}]
      /\ UNCHANGED <<row, files, rows, dirty, prune>>
  BY DEF RunnerIInv, Shape, Finish, At, store, world
<1> DEFINE verdict == StatusOf(r)
           rec == [run[r] EXCEPT !.pc = "save", !.status = verdict]
<1>2. verdict \in Verdicts
  BY DEF StatusOf, Verdicts
<1>3. verdict = "succeeded" => Seen(r) \subseteq run[r].task.allowed
  BY <1>1 DEF StatusOf, PolicyOK, RunOK, Judged
<1>4. Become(r, rec)
  BY DEF Finish
<1>5. PICK t \in {"present", "removed"} :
        tree' = [tree EXCEPT ![r] = t] /\ (t = "removed" => verdict = "succeeded")
  <2>1. tree[r] = "present"
    BY <1>1 DEF RunOK, Phase, Judging
  <2>2. tree = [tree EXCEPT ![r] = "present"]
    BY <1>1, <2>1
  <2> QED  BY <2>2 DEF Finish
<1> HIDE DEF verdict
<1>6. /\ rec \in RunRecord /\ rec.pc = "save" /\ rec.status = verdict /\ rec.task = run[r].task
      /\ rec.check = run[r].check /\ rec.result = run[r].result /\ rec.next = run[r].next
  BY <1>1, <1>2 DEF RunRecord, Pcs
<1> HIDE DEF rec
<1>7. run' = [run EXCEPT ![r] = rec] /\ run'[r] = rec /\ tree'[r] = t
  BY <1>1, <1>4, <1>5 DEF Become
<1>8. FilesOf(r)' = FilesOf(r) /\ All(r)' = All(r) /\ Emitted(r)' = Emitted(r) /\ Seen(r)' = Seen(r)
  BY <1>6, <1>7, SameFiles
<1>9. row[r] = "running" /\ verdict # ""
  BY <1>1, <1>2 DEF RunOK, Phase, Judging, Verdicts
<1>10. Phase(r)' /\ Kept(r)' /\ Judged(r)'
  BY <1>1, <1>3, <1>5, <1>6, <1>7, <1>8, <1>9 DEF Phase, Kept, Judged, Early, Judging, Recorded
<1>11. Vetted(r)' /\ Filed(r)'
  BY <1>1, <1>6, <1>7, <1>8 DEF RunOK, Vetted, Filed, Unchecked, Early, Late
<1>12. /\ row' = [row EXCEPT ![r] = row[r]] /\ files' = [files EXCEPT ![r] = files[r]]
       /\ rows' = [rows EXCEPT ![r] = rows[r]] /\ row[r] \in Statuses
       /\ files[r] \in SUBSET FileNames /\ rows[r] \in SUBSET FileNames /\ dirty' \in BOOLEAN
  BY <1>1 DEF RunnerIInv, Shape
<1> QED  BY <1>1, <1>5, <1>6, <1>7, <1>10, <1>11, <1>12, OneRunSteps DEF Late, RunOK

LEMMA SaveFinalStep == ASSUME RunnerIInv, NEW r \in Runs, SaveFinal(r) PROVE RunnerIInv'
<1>1. /\ RunOK(r) /\ run[r].pc = "save" /\ run[r] \in RunRecord
      /\ UNCHANGED <<tree, files, rows, dirty, prune>>
  BY DEF RunnerIInv, Shape, SaveFinal, At, store, world
<1>2. CASE GoTo(r, "failed") /\ UNCHANGED row
  BY <1>1, <1>2, EndStep
<1>3. CASE GoTo(r, "memory") /\ row' = [row EXCEPT ![r] = run[r].status]
  <2> DEFINE rec == [run[r] EXCEPT !.pc = "memory"]
  <2>1. "memory" \in Pcs
    BY DEF Pcs, Recorded
  <2>2. rec \in RunRecord /\ run' = [run EXCEPT ![r] = rec]
    BY <1>3, <2>1, GoesTo
  <2>3. row'[r] = run[r].status
    BY <1>3 DEF RunnerIInv, Shape
  <2>4. run[r].status \in Statuses /\ row[r] = "running" /\ run[r].status \notin {"", "none"}
    BY <1>1 DEF RunRecord, Statuses, Verdicts, RunOK, Phase
  <2>5. Phase(r)' /\ Kept(r)' /\ Judged(r)'
    BY <1>1, <1>3, <2>1, <2>3, <2>4, GoesTo DEF RunOK, Phase, Kept, Judged, Early, Judging, Recorded
  <2>6. Vetted(r)' /\ Filed(r)'
    BY <1>1, <1>3, <2>1, <2>3, GoesTo DEF RunOK, Vetted, Filed, Unchecked, Early, Late
  <2>7. /\ tree' = [tree EXCEPT ![r] = tree[r]] /\ files' = [files EXCEPT ![r] = files[r]]
        /\ rows' = [rows EXCEPT ![r] = rows[r]] /\ tree[r] \in {"none", "present", "removed"}
        /\ files[r] \in SUBSET FileNames /\ rows[r] \in SUBSET FileNames /\ dirty' \in BOOLEAN
    BY <1>1 DEF RunnerIInv, Shape
  <2> HIDE DEF rec
  <2> QED  BY <1>1, <1>3, <2>2, <2>4, <2>5, <2>6, <2>7, OneRunSteps DEF Late, RunOK
<1> QED  BY <1>2, <1>3 DEF SaveFinal, Fails

LEMMA MemoryStep == ASSUME RunnerIInv, NEW r \in Runs, CheckMemoryProposal(r) PROVE RunnerIInv'
<1>1. RunOK(r) /\ run[r].pc = "memory" /\ UNCHANGED <<tree, row, files, rows, dirty, prune>>
  BY DEF RunnerIInv, CheckMemoryProposal, At, store, world
<1>2. CASE GoTo(r, "failed")
  BY <1>1, <1>2, EndStep
<1>3. CASE GoTo(r, "write")
  <2>1. "write" \in Pcs
    BY DEF Pcs, Recorded
  <2>2. Phase(r)' /\ Kept(r)' /\ Judged(r)'
    BY <1>1, <1>3, <2>1, GoesTo DEF RunOK, Phase, Kept, Judged, Early, Judging, Recorded
  <2>3. Vetted(r)' /\ Filed(r)'
    BY <1>1, <1>3, <2>1, GoesTo DEF RunOK, Vetted, Filed, Unchecked, Early, Late
  <2> QED  BY <1>1, <1>3, <2>1, <2>2, <2>3, GoOn DEF Late, RunOK
<1> QED  BY <1>2, <1>3 DEF CheckMemoryProposal, Fails

LEMMA SomeWritten ==
  ASSUME NEW r \in Runs, run[r].result \in Results \cup {NoResult}, NEW n \in 0..Len(FilesOf(r))
  PROVE  Written(r, n) \subseteq All(r) /\ Written(r, n) \subseteq FileNames
<1>1. FilesOf(r) \in Seq(FileNames) /\ Len(FilesOf(r)) \in Nat
  BY FilesOfRun
<1>2. \A i \in 1..n : i \in 1..Len(FilesOf(r)) /\ FilesOf(r)[i] \in FileNames
  BY <1>1
<1> QED  BY <1>2 DEF Written, All

LEMMA WroteStep ==
  ASSUME RunnerIInv, NEW r \in Runs, run[r].pc = "write", UNCHANGED <<tree, row, rows, dirty, prune>>,
         NEW pc \in {"rows", "failed"}, GoTo(r, pc),
         NEW n \in 0..Len(FilesOf(r)), files' = [files EXCEPT ![r] = Written(r, n)],
         pc = "rows" => n = Len(FilesOf(r))
  PROVE  RunnerIInv'
<1>1. RunOK(r) /\ run[r].result \in Results \cup {NoResult}
  BY DEF RunnerIInv, Shape, RunRecord
<1>2. rows[r] = {} /\ run[r].next = 1 /\ row[r] = run[r].status
  BY <1>1 DEF RunOK, Filed, Phase, Recorded, Late
<1>3. 1 \in 1..Len(FilesOf(r)) /\ 1..1 - 1 = {}
  <2>1. PICK m \in 2..6 : m = Len(FilesOf(r))
    BY <1>1, FilesOfRun
  <2>2. 1 \in 1..m /\ 1..1 - 1 = {}
    OBVIOUS
  <2> QED  BY <2>1, <2>2
<1>4. pc \in Pcs /\ pc \in Late
  BY DEF Pcs, Late
<1>5. files'[r] = Written(r, n) /\ Written(r, n) \subseteq All(r) /\ Written(r, n) \in SUBSET FileNames
  BY <1>1, SomeWritten DEF RunnerIInv, Shape
<1>6. pc = "rows" => files'[r] = All(r)
  BY <1>5 DEF All
<1>7. Phase(r)' /\ Kept(r)' /\ Judged(r)' /\ Vetted(r)'
  BY <1>1, <1>4, GoesTo
  DEF RunOK, Phase, Kept, Judged, Vetted, Early, Judging, Recorded, Unchecked
<1>8. Filed(r)'
  <2>1. FilesOf(r)' = FilesOf(r) /\ All(r)' = All(r) /\ run'[r].pc = pc /\ run'[r].next = 1
    BY <1>2, <1>4, GoesTo
  <2>2. rows'[r] = {}
    BY <1>2
  <2> QED  BY <1>3, <1>4, <1>5, <1>6, <2>1, <2>2 DEF Filed
<1> DEFINE rec == [run[r] EXCEPT !.pc = pc]
<1>9. rec \in RunRecord /\ rec.pc \in Late /\ run' = [run EXCEPT ![r] = rec]
  BY <1>4, GoesTo
<1>10. /\ tree' = [tree EXCEPT ![r] = tree[r]] /\ row' = [row EXCEPT ![r] = row[r]]
       /\ rows' = [rows EXCEPT ![r] = rows[r]] /\ tree[r] \in {"none", "present", "removed"}
       /\ row[r] \in Statuses /\ rows[r] \in SUBSET FileNames /\ dirty' \in BOOLEAN
  BY DEF RunnerIInv, Shape
<1>11. RunOK(r)' /\ run[r].pc \notin Late
  BY <1>7, <1>8 DEF RunOK, Late
<1> HIDE DEF rec
<1> QED  BY <1>5, <1>9, <1>10, <1>11, OneRunSteps

LEMMA WriteStep == ASSUME RunnerIInv, NEW r \in Runs, WriteArtifacts(r) PROVE RunnerIInv'
<1>1. run[r].pc = "write" /\ UNCHANGED <<tree, row, rows, dirty, prune>>
  BY DEF WriteArtifacts, At, store, world
<1>2. Len(FilesOf(r)) \in 2..6
  BY FilesOfRun DEF RunnerIInv, Shape, RunRecord
<1>3. CASE files' = [files EXCEPT ![r] = Written(r, Len(FilesOf(r)))] /\ GoTo(r, "rows")
  <2>1. Len(FilesOf(r)) \in 0..Len(FilesOf(r))
    BY <1>2
  <2> QED  BY <1>1, <1>3, <2>1, WroteStep
<1>4. ASSUME NEW n \in 0..Len(FilesOf(r)) - 1, files' = [files EXCEPT ![r] = Written(r, n)],
             GoTo(r, "failed")
      PROVE  RunnerIInv'
  <2>1. n \in 0..Len(FilesOf(r))
    BY <1>2
  <2> QED  BY <1>1, <1>4, <2>1, WroteStep
<1> QED  BY <1>3, <1>4 DEF WriteArtifacts, Fails

LEMMA SaveArtifactStep == ASSUME RunnerIInv, NEW r \in Runs, SaveArtifact(r) PROVE RunnerIInv'
<1>1. /\ RunOK(r) /\ run[r].pc = "rows" /\ run[r].result \in Results \cup {NoResult}
      /\ run[r] \in RunRecord /\ run \in [Runs -> RunRecord] /\ rows \in [Runs -> SUBSET FileNames]
      /\ UNCHANGED <<tree, row, files, dirty, prune>>
  BY DEF RunnerIInv, Shape, RunRecord, SaveArtifact, At, store, world
<1>2. CASE GoTo(r, "failed") /\ UNCHANGED rows
  BY <1>1, <1>2, EndStep
<1> DEFINE n == run[r].next
           pc == IF n = Len(FilesOf(r)) THEN "done" ELSE "rows"
           rec == [run[r] EXCEPT !.next = n + 1, !.pc = pc]
           name == FilesOf(r)[n]
<1>3. CASE Become(r, rec) /\ rows' = [rows EXCEPT ![r] = rows[r] \cup {name}]
  <2>1. n \in 1..Len(FilesOf(r)) /\ Len(FilesOf(r)) \in 2..6 /\ name \in FileNames /\ name \in All(r)
    <3>1. Len(FilesOf(r)) \in 2..6 /\ FilesOf(r) \in Seq(FileNames)
      BY <1>1, FilesOfRun
    <3>2. n \in 1..Len(FilesOf(r))
      BY <1>1 DEF RunOK, Filed
    <3> QED  BY <3>1, <3>2 DEF All, Written
  <2>2. n + 1 \in 1..7 /\ pc \in Pcs /\ pc \in Late /\ pc \in Recorded
    BY <2>1 DEF Pcs, Late, Recorded
  <2>3. n = Len(FilesOf(r)) => pc = "done"
    OBVIOUS
  <2>4. n # Len(FilesOf(r)) => pc = "rows" /\ n + 1 \in 1..Len(FilesOf(r))
    BY <2>1
  <2> HIDE DEF n, pc
  <2>5. /\ rec \in RunRecord /\ rec.pc = pc /\ rec.next = n + 1 /\ rec.status = run[r].status
        /\ rec.check = run[r].check /\ rec.result = run[r].result /\ rec.task = run[r].task
    BY <1>1, <2>2 DEF RunRecord
  <2> HIDE DEF rec
  <2>6. run' = [run EXCEPT ![r] = rec] /\ run'[r] = rec
    BY <1>1, <1>3 DEF Become
  <2>7. rows'[r] = rows[r] \cup {name}
    BY <1>1, <1>3
  <2>8. FilesOf(r)' = FilesOf(r) /\ All(r)' = All(r) /\ Emitted(r)' = Emitted(r) /\ Seen(r)' = Seen(r)
    BY <2>5, <2>6, SameFiles
  <2>9. Phase(r)' /\ Kept(r)' /\ Judged(r)' /\ Vetted(r)'
    BY <1>1, <2>2, <2>5, <2>6, <2>8
    DEF RunOK, Phase, Kept, Judged, Vetted, Early, Judging, Recorded, Late, Pcs, Unchecked
  <2>10. Filed(r)'
    <3>1. row[r] # "succeeded" => files[r] = All(r)
      BY <1>1 DEF RunOK, Filed
    <3>2. \A i \in 1..n : FilesOf(r)[i] \in files[r] => FilesOf(r)[i] \in rows'[r]
      <4> TAKE i \in 1..n
      <4>1. CASE i = n
        BY <4>1, <2>7 DEF name
      <4>2. CASE i # n
        <5>1. i \in 1..n - 1
          BY <2>1, <4>2
        <5> QED  BY <1>1, <2>7, <5>1 DEF RunOK, Filed, n
      <4> QED  BY <4>1, <4>2
    <3>3. n + 1 - 1 = n
      BY <2>1
    <3> HIDE DEF name
    <3> QED  BY <1>1, <2>1, <2>2, <2>3, <2>4, <2>5, <2>6, <2>7, <2>8, <3>1, <3>2, <3>3 DEF RunOK, Filed
  <2>11. /\ tree' = [tree EXCEPT ![r] = tree[r]] /\ row' = [row EXCEPT ![r] = row[r]]
         /\ files' = [files EXCEPT ![r] = files[r]] /\ tree[r] \in {"none", "present", "removed"}
         /\ row[r] \in Statuses /\ files[r] \in SUBSET FileNames /\ dirty' \in BOOLEAN
    BY <1>1 DEF RunnerIInv, Shape
  <2>12. rows[r] \cup {name} \in SUBSET FileNames
    BY <1>1, <2>1
  <2> HIDE DEF name
  <2> QED  BY <1>1, <1>3, <2>2, <2>5, <2>6, <2>9, <2>10, <2>11, <2>12, OneRunSteps DEF RunOK
<1>4. run[r].pc = "rows"
  BY <1>1
<1> QED  BY <1>1, <1>2, <1>3 DEF SaveArtifact, Fails

LEMMA KillStep == ASSUME RunnerIInv, NEW r \in Runs, Kill(r) PROVE RunnerIInv'
BY EndStep DEF Kill, store, world

-----------------------------------------------------------------------------
\* A prune touches only files and rows of runs that succeeded and have come to their rows.
LEMMA PruneKeeps ==
  ASSUME RunnerIInv, UNCHANGED <<run, tree, row, dirty>>,
         files' \in [Runs -> SUBSET FileNames], rows' \in [Runs -> SUBSET FileNames],
         \A r \in Runs : files'[r] \subseteq files[r] /\ rows'[r] \subseteq rows[r],
         \A r \in Runs : row[r] # "succeeded" => files'[r] = files[r] /\ rows'[r] = rows[r],
         \A r \in Runs : \A f \in rows[r] : f \in files'[r] => f \in rows'[r],
         prune' \in [pc: {"idle", "remove"}, todo: SUBSET (Runs \X FileNames), gone: SUBSET (Runs \X FileNames)],
         PruneOK'
  PROVE  RunnerIInv'
<1>1. Shape'
  BY DEF RunnerIInv, Shape
<1>2. ASSUME NEW r \in Runs PROVE RunOK(r)'
  <2>1. RunOK(r) /\ run'[r] = run[r] /\ tree'[r] = tree[r] /\ row'[r] = row[r]
    BY DEF RunnerIInv
  <2>2. FilesOf(r)' = FilesOf(r) /\ All(r)' = All(r) /\ Emitted(r)' = Emitted(r) /\ Seen(r)' = Seen(r)
    BY SameFiles
  <2>3. Phase(r)' /\ Kept(r)'
    BY <2>1 DEF RunOK, Phase, Kept
  <2>4. Judged(r)' /\ Vetted(r)'
    BY <2>1, <2>2 DEF RunOK, Judged, Vetted
  <2>5. Filed(r)'
    BY <2>1, <2>2 DEF RunOK, Filed
  <2> QED  BY <2>3, <2>4, <2>5 DEF RunOK
<1> QED  BY <1>1, <1>2 DEF RunnerIInv

LEMMA PruneStartStep == ASSUME RunnerIInv, PruneStart PROVE RunnerIInv'
<1>1. PICK old \in SUBSET Runs : prune' = [pc |-> "remove", todo |-> Candidates(old), gone |-> {}]
  BY DEF PruneStart
<1>2. UNCHANGED <<run, tree, row, files, rows, dirty>>
  BY DEF PruneStart
<1>3. ASSUME NEW c \in Candidates(old)
      PROVE  c \in Runs \X FileNames /\ row[c[1]] = "succeeded" /\ run[c[1]].pc \in Late
  <2>1. PICK r \in old : row[r] = "succeeded" /\ c \in {r} \X rows[r]
    BY DEF Candidates
  <2>2. c[1] = r /\ c[2] \in rows[r] /\ c = <<c[1], c[2]>>
    BY <2>1
  <2>3. r \in Runs /\ rows[r] \subseteq FileNames /\ RunOK(r)
    BY DEF RunnerIInv, Shape
  <2>4. run[r].pc \in Late
    BY <2>2, <2>3 DEF RunOK, Filed
  <2> QED  BY <2>1, <2>2, <2>3, <2>4
<1>4. PruneOK'
  BY <1>1, <1>2, <1>3 DEF PruneOK
<1>5. prune' \in [pc: {"idle", "remove"}, todo: SUBSET (Runs \X FileNames), gone: SUBSET (Runs \X FileNames)]
  BY <1>1, <1>3
<1>6. Shape
  BY DEF RunnerIInv
<1> QED  BY <1>2, <1>4, <1>5, <1>6, PruneKeeps DEF Shape

LEMMA PruneRemoveStep == ASSUME RunnerIInv, PruneRemove PROVE RunnerIInv'
<1>1. PICK c \in prune.todo :
        /\ files' = [files EXCEPT ![c[1]] = @ \ {c[2]}]
        /\ prune' = [prune EXCEPT !.todo = @ \ {c}, !.gone = @ \cup {c}]
  BY DEF PruneRemove
<1>2. UNCHANGED <<run, tree, row, rows, dirty>>
  BY DEF PruneRemove
<1>3. Shape /\ PruneOK /\ c \in Runs \X FileNames /\ c[1] \in Runs /\ row[c[1]] = "succeeded"
  BY DEF RunnerIInv, Shape, PruneOK
<1>4. /\ prune' \in [pc: {"idle", "remove"}, todo: SUBSET (Runs \X FileNames), gone: SUBSET (Runs \X FileNames)]
      /\ prune'.todo \cup prune'.gone \subseteq prune.todo \cup prune.gone
      /\ prune'.gone = prune.gone \cup {c}
  BY <1>1, <1>3 DEF Shape
<1>5. /\ files' \in [Runs -> SUBSET FileNames]
      /\ \A r \in Runs : files'[r] = IF r = c[1] THEN files[r] \ {c[2]} ELSE files[r]
  BY <1>1, <1>3 DEF Shape
<1>6. PruneOK'
  <2>1. ASSUME NEW d \in prune'.todo \cup prune'.gone
        PROVE  row'[d[1]] = "succeeded" /\ run'[d[1]].pc \in Late
    BY <1>2, <1>3, <1>4 DEF PruneOK
  <2>2. ASSUME NEW d \in prune'.gone PROVE d[2] \notin files'[d[1]]
    <3>1. d[1] \in Runs
      BY <1>3, <1>4 DEF Shape
    <3> QED  BY <1>3, <1>4, <1>5, <3>1 DEF PruneOK
  <2> QED  BY <2>1, <2>2 DEF PruneOK
<1> QED  BY <1>2, <1>3, <1>4, <1>5, <1>6, PruneKeeps DEF Shape

LEMMA NoPrune ==
  ASSUME prune' = [pc |-> "idle", todo |-> {}, gone |-> {}]
  PROVE  /\ PruneOK'
         /\ prune' \in [pc: {"idle", "remove"}, todo: SUBSET (Runs \X FileNames), gone: SUBSET (Runs \X FileNames)]
BY DEF PruneOK

LEMMA PruneDeleteStep == ASSUME RunnerIInv, PruneDelete PROVE RunnerIInv'
<1> DEFINE lost(r) == {c[2] : c \in {d \in prune.gone : d[1] = r}}
<1>1. /\ rows' = [r \in Runs |-> rows[r] \ lost(r)] /\ UNCHANGED <<run, tree, row, files, dirty>>
      /\ prune' = [pc |-> "idle", todo |-> {}, gone |-> {}]
  BY DEF PruneDelete
<1>2. Shape /\ PruneOK
  BY DEF RunnerIInv
<1>3. ASSUME NEW r \in Runs, NEW f \in lost(r) PROVE f \notin files[r] /\ row[r] = "succeeded"
  BY <1>2 DEF PruneOK
<1> HIDE DEF lost
<1>4. /\ rows' \in [Runs -> SUBSET FileNames] /\ files' \in [Runs -> SUBSET FileNames]
      /\ \A r \in Runs : rows'[r] = rows[r] \ lost(r)
  BY <1>1, <1>2 DEF Shape
<1>5. \A r \in Runs : row[r] # "succeeded" => rows'[r] = rows[r]
  BY <1>3, <1>4
<1> QED  BY <1>1, <1>3, <1>4, <1>5, NoPrune, PruneKeeps

LEMMA PruneBreaksStep == ASSUME RunnerIInv, PruneBreaks PROVE RunnerIInv'
<1>1. UNCHANGED <<run, tree, row, files, rows, dirty>> /\ prune' = [pc |-> "idle", todo |-> {}, gone |-> {}]
  BY DEF PruneBreaks
<1>2. Shape
  BY DEF RunnerIInv
<1> QED  BY <1>1, <1>2, NoPrune, PruneKeeps DEF Shape

\* A step of nothing but the workspace, the clockwork or no one.
LEMMA StillStep ==
  ASSUME RunnerIInv, UNCHANGED <<run, tree, row, files, rows, prune>>, dirty' \in BOOLEAN
  PROVE  RunnerIInv'
<1>1. Shape' /\ PruneOK'
  BY DEF RunnerIInv, Shape, PruneOK
<1>2. ASSUME NEW r \in Runs PROVE RunOK(r)'
  BY OtherRun DEF RunnerIInv
<1> QED  BY <1>1, <1>2 DEF RunnerIInv

LEMMA RunnerNext == RunnerIInv /\ [Next]_vars => RunnerIInv'
<1> SUFFICES ASSUME RunnerIInv, [Next]_vars PROVE RunnerIInv'
  OBVIOUS
<1>1. ASSUME NEW r \in Runs, RunStep(r) PROVE RunnerIInv'
  BY <1>1, BeginStep, BaselineStep, PrepareStep, RecordStep, WorkStep, CheckStep, ValidateStep,
     DiffStep, SnapshotStep, FinishStep, SaveFinalStep, MemoryStep, WriteStep, SaveArtifactStep
  DEF RunStep
<1>2. ASSUME NEW r \in Runs, Kill(r) PROVE RunnerIInv'
  BY <1>2, KillStep
<1>3. CASE PruneStart \/ PruneRemove \/ PruneDelete \/ PruneBreaks
  BY <1>3, PruneStartStep, PruneRemoveStep, PruneDeleteStep, PruneBreaksStep
<1>4. CASE Edit
  BY <1>4, StillStep DEF Edit, store
<1>5. CASE UNCHANGED vars
  <2>1. dirty \in BOOLEAN
    BY DEF RunnerIInv, Shape
  <2> QED  BY <1>5, <2>1, StillStep DEF vars
<1> QED  BY <1>1, <1>2, <1>3, <1>4, <1>5 DEF Next

-----------------------------------------------------------------------------
\* The invariant, for every run: what the theorems below follow from.
THEOREM RunnerInvariant == Spec => []RunnerIInv
BY RunnerInit, RunnerNext, PTL DEF Spec

LEMMA IInvTyped == RunnerIInv => RunnerTypeOK
<1> SUFFICES ASSUME RunnerIInv PROVE RunnerTypeOK
  OBVIOUS
<1>1. ASSUME NEW r \in Runs
      PROVE  /\ run[r].task \in Tasks \cup {NoTask} /\ run[r].result \in Results \cup {NoResult}
             /\ run[r].paths \subseteq Paths /\ run[r].diff \subseteq Paths /\ run[r].next \in 1..7
  BY DEF RunnerIInv, Shape, RunRecord
<1>2. prune.pc \in {"idle", "remove"} /\ prune.todo \cup prune.gone \subseteq Runs \X FileNames
  BY DEF RunnerIInv, Shape
<1> QED  BY <1>1, <1>2 DEF RunnerIInv, Shape, RunnerTypeOK

\* Everything the run, the store and a prune hold has its type.
THEOREM RunnerTypeCorrect == Spec => []RunnerTypeOK
BY RunnerInvariant, IInvTyped, PTL

LEMMA IInvPolicy == RunnerIInv => PolicyHolds
<1> SUFFICES ASSUME RunnerIInv, NEW r \in Runs, row[r] = "succeeded" PROVE Seen(r) \subseteq run[r].task.allowed
  BY DEF PolicyHolds, Seen
<1> QED  BY DEF RunnerIInv, RunOK, Kept, Judged

\* A run recorded as succeeded kept to its paths as far as git showed them: the status that was
\* stored is the one the path policy was asked for, on all the paths git shows or after an error.
THEOREM PolicyHoldsAlways == Spec => []PolicyHolds
BY RunnerInvariant, IInvPolicy, PTL

LEMMA IInvWork == RunnerIInv => WorkKept
<1> SUFFICES ASSUME RunnerIInv, NEW r \in Runs
             PROVE  /\ row[r] \in {"failed", "policy_failed"} => tree[r] = "present"
                    /\ tree[r] = "removed" => run[r].status = "succeeded" /\ row[r] \in {"running", "succeeded"}
  BY DEF WorkKept
<1>1. tree[r] \in {"none", "present", "removed"} /\ Kept(r)
  BY DEF RunnerIInv, Shape, RunOK
<1> QED  BY <1>1 DEF Kept

\* The worktree of a run that did not succeed is never removed, wherever the run stopped.
THEOREM WorkKeptAlways == Spec => []WorkKept
BY RunnerInvariant, IInvWork, PTL

LEMMA IInvRows == RunnerIInv => RowsMatchFiles
<1> SUFFICES ASSUME RunnerIInv, NEW r \in Runs
             PROVE  /\ row[r] # "succeeded" => rows[r] \subseteq files[r]
                    /\ run[r].pc = "done" => files[r] \subseteq rows[r]
  BY DEF RowsMatchFiles, At
<1>1. Filed(r) /\ run[r].result \in Results \cup {NoResult}
  BY DEF RunnerIInv, RunOK, Shape, RunRecord
<1>2. ASSUME run[r].pc = "done", NEW f \in files[r] PROVE f \in rows[r]
  <2>1. PICK m \in 2..6 : m = Len(FilesOf(r))
    BY <1>1, FilesOfRun
  <2>2. run[r].next = m + 1 /\ m + 1 - 1 = m
    BY <1>1, <1>2, <2>1 DEF Filed
  <2>3. PICK i \in 1..m : f = FilesOf(r)[i]
    BY <1>1, <2>1 DEF Filed, All, Written
  <2> QED  BY <1>1, <1>2, <2>2, <2>3 DEF Filed
<1> QED  BY <1>1, <1>2 DEF Filed

\* The rows and the files of a run agree, whatever a prune does meanwhile and wherever it breaks off.
THEOREM RowsMatchFilesAlways == Spec => []RowsMatchFiles
BY RunnerInvariant, IInvRows, PTL

LEMMA IInvReady == RunnerIInv => ReadyMeansPreflighted
<1> SUFFICES ASSUME RunnerIInv, NEW r \in Runs, ReadyForApproval(r)
             PROVE  /\ run[r].check.status = "preflight_passed" /\ run[r].result.says = "ok"
                    /\ "approval" \notin Emitted(r)
  BY DEF ReadyMeansPreflighted
<1>1. run[r].check.preflight = "passed" \/ run[r].check.status = "preflight_passed"
  BY DEF ReadyForApproval, ProposalStatus
<1> QED  BY <1>1 DEF RunnerIInv, RunOK, Vetted

\* A proposal called ready has passed the run's own check and came with no approval, whichever
\* of its rows and files are left.
THEOREM ReadyMeansPreflightedAlways == Spec => []ReadyMeansPreflighted
BY RunnerInvariant, IInvReady, PTL
=============================================================================
