--------------------------- MODULE ProactiveProofs ---------------------------
(***************************************************************************)
(* Proofs about Proactive, for any schedules and any number of faults.     *)
(* Whatever overlaps: the types, and that an enqueued wakeup has its work  *)
(* item.  The saves that overwrite a row with a copy are harmless only     *)
(* because no copy names a work item that does not exist; the invariant    *)
(* says so of every copy a process holds.  One command at a time: that     *)
(* work exists exactly for the enqueued wakeups, and that a due window is  *)
(* served once; the second invariant says what a process, or a doctor,     *)
(* knows of the rows it has read.                                          *)
(***************************************************************************)
EXTENDS Proactive, TLAPS

Steps == {"idle", "list", "save", "agent", "mark", "beat", "work", "enqueue", "advance"}
Processing == {"agent", "mark", "beat", "work", "enqueue", "advance"}

\* A wakeup's row, ws being the wakeups whose work exists.
RowOK(o, row, ws) ==
  /\ row \in WakeupRow
  /\ row.at # NoTime <=> row.status \in Started
  /\ row.linked \/ row.status = "enqueued" => o \in ws

\* A process: the wakeup it has claimed is there, it knows the schedule of it once it is
\* past the kind, and its copy of the wakeup does not name work that does not exist.
ProcessOK(p, ws) ==
  /\ p \in Process
  /\ p.pc \in Processing => p.of \in Occurrences
  /\ p.pc \in {"beat", "enqueue", "advance"} => p.sched[p.of[1]].status # "absent"
  /\ p.linked \/ p.pc = "enqueue" => p.of \in ws

WakeupsOK ==
  /\ wakeup \in [Occurrences -> WakeupRow]
  /\ \A o \in Occurrences : RowOK(o, wakeup[o], works)
ProcessesOK ==
  /\ daemon \in [Daemons -> Process]
  /\ \A d \in Daemons : ProcessOK(daemon[d], works)
DoctorOK ==
  /\ doctor \subseteq [of : Occurrences, linked : BOOLEAN]
  /\ \A x \in doctor : x.linked => x.of \in works
OthersOK ==
  /\ clock \in Times /\ faults \in 0..MaxFaults
  /\ schedule \in [Schedules -> ScheduleRow]
  /\ works \subseteq Occurrences

ProactiveIInv == WakeupsOK /\ ProcessesOK /\ DoctorOK /\ OthersOK

-----------------------------------------------------------------------------
(* Due times. *)

\* The beginning of the period that t is in.
LEMMA GridNat ==
  ASSUME NEW s \in Schedules, NEW t \in Nat
  PROVE  Grid(s, t) \in Nat
<1> DEFINE e == Config[s].every
<1>1. e \in Nat \ {0}
  BY ProactiveAssumption
<1>2. t \div e \in Nat
  BY <1>1
<1>3. ASSUME NEW a \in Nat, NEW b \in Nat PROVE a * b \in Nat
  OBVIOUS
<1>4. (t \div e) * e \in Nat
  BY <1>1, <1>2, <1>3
<1> QED
  BY <1>4 DEF Grid

\* A due time is a time, or none.
LEMMA NextDueType ==
  ASSUME NEW s \in Schedules, NEW t \in Nat
  PROVE  ComputeNextDueAt(s, t) \in Nat \cup {NoTime}
<1>1. /\ Config[s].kind \in Kinds /\ Config[s].every \in Nat \ {0} /\ Config[s].at \in Nat
      /\ Grid(s, t) \in Nat
  BY ProactiveAssumption, GridNat
<1> QED
  BY <1>1 DEF ComputeNextDueAt, Kinds, NoTime

LEMMA AfterRunType ==
  ASSUME NEW s \in Schedules, NEW t \in Nat
  PROVE  ComputeNextDueAfterRun(s, t) \in Nat
  BY GridNat, ProactiveAssumption DEF ComputeNextDueAfterRun

\* What is materialized are queued or skipped wakeups of the schedule.
LEMMA MaterializeType ==
  ASSUME NEW s \in Schedules, NEW row, NEW now \in Times, NEW rows
  PROVE  Materialize(s, row, now, rows) \subseteq
           [of : Occurrences, status : {"queued", "skipped"}]
<1> DEFINE new == {t \in DueTimesForMaterialize(s, row, now) : rows[<<s, t>>].status = "absent"}
           kept == IF Config[s].policy = "coalesce" THEN {t \in new : \A u \in new : u <= t}
                   ELSE new
           skip == Config[s].policy = "skip" /\ HasActiveForSchedule(s, rows)
<1>1. kept \subseteq Times
  <2>1. DueTimesForMaterialize(s, row, now) \subseteq Times
    BY ProactiveAssumption DEF DueTimesForMaterialize, Times
  <2> QED
    BY <2>1
<1>2. \A t \in kept : [of |-> <<s, t>>, status |-> IF skip THEN "skipped" ELSE "queued"]
                        \in [of : Occurrences, status : {"queued", "skipped"}]
  BY <1>1 DEF Occurrences
<1>3. Materialize(s, row, now, rows)
        = {[of |-> <<s, t>>, status |-> IF skip THEN "skipped" ELSE "queued"] : t \in kept}
  BY DEF Materialize
<1> HIDE DEF kept, skip
<1> QED
  BY <1>2, <1>3

-----------------------------------------------------------------------------
(* Rows and processes. *)

\* A row saved is in order if what is put there is.
LEMMA PutOK ==
  ASSUME WakeupsOK, NEW o \in Occurrences, NEW status, NEW linked, NEW at,
         Put(o, status, linked, at), works \subseteq works',
         RowOK(o, [status |-> status, linked |-> linked, at |-> at], works')
  PROVE  WakeupsOK'
  BY DEF WakeupsOK, RowOK, Put

\* Rows that are not touched stay in order when work is created.
LEMMA KeptRows ==
  ASSUME WakeupsOK, UNCHANGED wakeup, works \subseteq works'
  PROVE  WakeupsOK'
  BY DEF WakeupsOK, RowOK

LEMMA KeptProcess ==
  ASSUME NEW p, NEW ws, NEW more, ws \subseteq more, ProcessOK(p, ws)
  PROVE  ProcessOK(p, more)
  BY DEF ProcessOK

LEMMA KeptProcesses ==
  ASSUME ProcessesOK, UNCHANGED daemon, works \subseteq works'
  PROVE  ProcessesOK'
  BY KeptProcess DEF ProcessesOK

LEMMA KeptDoctor ==
  ASSUME DoctorOK, UNCHANGED doctor, works \subseteq works'
  PROVE  DoctorOK'
  BY DEF DoctorOK

\* A step of one process leaves the others as they are.
LEMMA StepProcesses ==
  ASSUME ProcessesOK, NEW d \in Daemons, NEW p, daemon' = [daemon EXCEPT ![d] = p],
         works \subseteq works', ProcessOK(p, works')
  PROVE  ProcessesOK'
<1>1. p \in Process
  BY DEF ProcessOK
<1>2. daemon' \in [Daemons -> Process]
  BY <1>1 DEF ProcessesOK
<1>3. \A q \in Daemons : ProcessOK(daemon'[q], works')
  BY KeptProcess DEF ProcessesOK
<1> QED
  BY <1>2, <1>3 DEF ProcessesOK

LEMMA IdleOK == ASSUME NEW ws PROVE ProcessOK(Idle, ws)
  BY ProactiveAssumption DEF ProcessOK, Idle, Process, Processing, Unsynced, ScheduleRow, NoOccurrence,
       NoTime, Times

\* Going on with the same copies.
LEMMA GotoOK ==
  ASSUME NEW p, NEW ws, ProcessOK(p, ws), NEW pc \in Steps,
         pc \in Processing => p.pc \in Processing,
         pc \in {"beat", "enqueue", "advance"} => p.sched[p.of[1]].status # "absent",
         pc = "enqueue" => p.of \in ws
  PROVE  ProcessOK([p EXCEPT !.pc = pc], ws)
  BY DEF ProcessOK, Process, Processing, Steps

LEMMA ReturnOK ==
  ASSUME ProcessesOK, NEW d \in Daemons, Return(d), works \subseteq works'
  PROVE  ProcessesOK'
  BY StepProcesses, IdleOK DEF Return

LEMMA GotoProcesses ==
  ASSUME ProcessesOK, NEW d \in Daemons, NEW pc \in Steps, Goto(d, pc), works \subseteq works',
         pc \in Processing => daemon[d].pc \in Processing,
         pc \in {"beat", "enqueue", "advance"} => Listed(d),
         pc = "enqueue" => daemon[d].of \in works'
  PROVE  ProcessesOK'
<1> DEFINE p == [daemon[d] EXCEPT !.pc = pc]
<1>1. ProcessOK(daemon[d], works')
  BY KeptProcess DEF ProcessesOK
<1>2. ProcessOK(p, works')
  BY <1>1, GotoOK DEF Listed
<1>3. daemon' = [daemon EXCEPT ![d] = p]
  BY DEF Goto
<1> HIDE DEF p
<1> QED
  BY <1>2, <1>3, StepProcesses

\* The copy of a claimed wakeup may be saved again.
LEMMA PutCopyOK ==
  ASSUME WakeupsOK, ProcessesOK, NEW d \in Daemons, daemon[d].pc \in Processing,
         NEW status \in {"running"} \cup (Finished \ {"enqueued"}),
         NEW at \in Times \cup {NoTime}, at # NoTime <=> status = "running",
         PutCopy(d, status, at), UNCHANGED works
  PROVE  WakeupsOK'
<1> DEFINE o == daemon[d].of
           linked == daemon[d].linked
<1>1. o \in Occurrences /\ linked \in BOOLEAN /\ (linked => o \in works)
  BY DEF ProcessesOK, ProcessOK, Process
<1>2. RowOK(o, [status |-> status, linked |-> linked, at |-> at], works')
  BY <1>1 DEF RowOK, WakeupRow, Started, Finished
<1>3. Put(o, status, linked, at)
  BY DEF PutCopy
<1> HIDE DEF o, linked
<1> QED
  BY <1>1, <1>2, <1>3, PutOK

-----------------------------------------------------------------------------
(* The invariant. *)

LEMMA ProactiveInitInv == ProactiveInit => ProactiveIInv
<1> SUFFICES ASSUME ProactiveInit PROVE ProactiveIInv
  OBVIOUS
<1>1. WakeupsOK
  BY DEF ProactiveInit, WakeupsOK, RowOK, NoWakeup, WakeupRow, Started, NoTime
<1>2. ProcessesOK
  <2>1. ProcessOK(Idle, works)
    BY IdleOK
  <2>2. Idle \in Process
    BY <2>1 DEF ProcessOK
  <2> QED
    BY <2>1, <2>2 DEF ProactiveInit, ProcessesOK
<1>3. DoctorOK
  BY DEF ProactiveInit, DoctorOK
<1>4. OthersOK
  BY ProactiveAssumption DEF ProactiveInit, OthersOK, Unsynced, ScheduleRow, Times, NoTime
<1> QED
  BY <1>1, <1>2, <1>3, <1>4 DEF ProactiveIInv

\* The steps of a run that only look.
LEMMA ReadingStepInv ==
  ASSUME ProactiveIInv, NEW d \in Daemons,
         \/ ListSchedules(d) \/ ListWakeups(d) \/ ScheduleFails(d) \/ NothingDue(d)
         \/ AlreadyMaterialized(d) \/ Stop(d)
  PROVE  ProactiveIInv'
<1>1. /\ WakeupsOK /\ ProcessesOK /\ DoctorOK /\ OthersOK
      /\ daemon[d] \in Process /\ ProcessOK(daemon[d], works)
  BY DEF ProactiveIInv, ProcessesOK
<1>2. UNCHANGED <<clock, schedule, wakeup, works, doctor>> /\ faults' \in 0..MaxFaults
  BY <1>1, ProactiveAssumption DEF OthersOK, ListSchedules, ListWakeups, ScheduleFails, NothingDue,
       AlreadyMaterialized, Stop, Fault
<1>3. WakeupsOK' /\ DoctorOK' /\ OthersOK'
  BY <1>1, <1>2, KeptRows, KeptDoctor DEF OthersOK
<1>4. ProcessesOK'
  <2>1. CASE ListSchedules(d)
    <3> DEFINE p == [Idle EXCEPT !.pc = "list", !.now = clock, !.sched = schedule]
    <3>1. p.pc = "list" /\ p.linked = FALSE /\ p \in Process
      BY <1>1, ProactiveAssumption DEF OthersOK, Idle, Process, NoOccurrence, Times, NoTime
    <3>2. ProcessOK(p, works')
      BY <3>1 DEF ProcessOK, Processing
    <3>3. daemon' = [daemon EXCEPT ![d] = p]
      BY <2>1 DEF ListSchedules
    <3> HIDE DEF p
    <3> QED
      BY <1>1, <1>2, <3>2, <3>3, StepProcesses
  <2>2. CASE ListWakeups(d)
    <3> DEFINE reached == {s \in Schedules : \A b \in Broken(d) : s < b}
               saves == UNION {Materialize(s, daemon[d].sched[s], daemon[d].now, wakeup) :
                                 s \in reached}
               p == [daemon[d] EXCEPT !.pc = "save", !.saves = saves]
    <3>1. saves \subseteq [of : Occurrences, status : {"queued", "skipped"}]
      BY <1>1, MaterializeType DEF Process
    <3>2. daemon' = [daemon EXCEPT ![d] = p]
      BY <2>2 DEF ListWakeups
    <3> HIDE DEF saves
    <3>3. ProcessOK(p, works')
      BY <1>1, <1>2, <2>2, <3>1 DEF ProcessOK, Process, Processing, ListWakeups, At
    <3> HIDE DEF p
    <3> QED
      BY <1>1, <1>2, <3>2, <3>3, StepProcesses
  <2>3. CASE ScheduleFails(d) \/ NothingDue(d) \/ Stop(d)
    BY <1>1, <1>2, <2>3, ReturnOK DEF ScheduleFails, NothingDue, Stop
  <2>4. CASE AlreadyMaterialized(d)
    <3>1. daemon[d].of \in works'
      BY <1>1, <1>2, <2>4
         DEF AlreadyMaterialized, At, ProcessOK, Processing, WakeupsOK, RowOK
    <3> QED
      BY <1>1, <1>2, <2>4, <3>1, GotoProcesses DEF AlreadyMaterialized, At, Steps, Processing
  <2> QED
    BY <2>1, <2>2, <2>3, <2>4
<1> QED
  BY <1>3, <1>4 DEF ProactiveIInv

\* A wakeup that is thought to be new is saved without a link to any work.
LEMMA SaveWakeupInv ==
  ASSUME ProactiveIInv, NEW d \in Daemons, SaveWakeup(d)
  PROVE  ProactiveIInv'
<1>1. /\ WakeupsOK /\ ProcessesOK /\ DoctorOK /\ OthersOK
      /\ daemon[d] \in Process /\ ProcessOK(daemon[d], works)
  BY DEF ProactiveIInv, ProcessesOK
<1>2. UNCHANGED <<clock, schedule, works, doctor, faults>>
  BY DEF SaveWakeup
<1>3. DoctorOK' /\ OthersOK'
  BY <1>1, <1>2, KeptDoctor DEF OthersOK
<1>4. PICK x \in daemon[d].saves :
        /\ Put(x.of, x.status, FALSE, NoTime)
        /\ daemon' = [daemon EXCEPT ![d].saves = @ \ {x}]
  BY DEF SaveWakeup
<1>5. x.of \in Occurrences /\ x.status \in {"queued", "skipped"}
  BY <1>1 DEF Process
<1>6. RowOK(x.of, [status |-> x.status, linked |-> FALSE, at |-> NoTime], works')
  BY <1>5 DEF RowOK, WakeupRow, Started, Finished
<1>7. WakeupsOK'
  BY <1>1, <1>2, <1>4, <1>5, <1>6, PutOK
<1>8. ProcessesOK'
  <2> DEFINE p == [daemon[d] EXCEPT !.saves = daemon[d].saves \ {x}]
  <2>1. daemon' = [daemon EXCEPT ![d] = p]
    BY <1>4
  <2>2. ProcessOK(p, works')
    BY <1>1, <1>2 DEF ProcessOK, Process, Processing
  <2> HIDE DEF p
  <2> QED
    BY <1>1, <1>2, <2>1, <2>2, StepProcesses
<1> QED
  BY <1>3, <1>7, <1>8 DEF ProactiveIInv

\* The claim copies the link of the row it claims.
LEMMA ClaimInv ==
  ASSUME ProactiveIInv, NEW d \in Daemons, ClaimNextDueWakeup(d)
  PROVE  ProactiveIInv'
<1>1. /\ WakeupsOK /\ ProcessesOK /\ DoctorOK /\ OthersOK
      /\ daemon[d] \in Process /\ ProcessOK(daemon[d], works)
  BY DEF ProactiveIInv, ProcessesOK
<1>2. UNCHANGED <<clock, schedule, works, doctor, faults>>
  BY DEF ClaimNextDueWakeup
<1>3. DoctorOK' /\ OthersOK'
  BY <1>1, <1>2, KeptDoctor DEF OthersOK
<1>4. PICK o \in Occurrences : TakeClaim(d, o)
  BY DEF ClaimNextDueWakeup, Due
<1>5. /\ wakeup[o].linked \in BOOLEAN /\ (wakeup[o].linked => o \in works)
      /\ daemon[d].now \in Times
  BY <1>1 DEF WakeupsOK, RowOK, WakeupRow, Process
<1>6. RowOK(o, [status |-> "claimed", linked |-> wakeup[o].linked, at |-> daemon[d].now], works')
  BY <1>2, <1>5 DEF RowOK, WakeupRow, Started, Finished, Times, NoTime
<1>7. WakeupsOK'
  BY <1>1, <1>2, <1>4, <1>6, PutOK DEF TakeClaim
<1>8. ProcessesOK'
  <2> DEFINE copy == [s \in Schedules |-> IF s = o[1] THEN daemon[d].sched[s] ELSE Unsynced]
             p == [daemon[d] EXCEPT !.pc = "agent", !.of = o, !.linked = wakeup[o].linked,
                                    !.sched = copy]
  <2>1. daemon' = [daemon EXCEPT ![d] = p]
    BY <1>4 DEF TakeClaim
  <2>2. copy \in [Schedules -> ScheduleRow]
    BY <1>1 DEF Process, Unsynced, ScheduleRow
  <2> HIDE DEF copy
  <2>3. ProcessOK(p, works')
    BY <1>1, <1>2, <1>5, <2>2 DEF ProcessOK, Process, Processing
  <2> HIDE DEF p
  <2> QED
    BY <1>1, <1>2, <2>1, <2>3, StepProcesses
<1> QED
  BY <1>3, <1>7, <1>8 DEF ProactiveIInv

\* Saves of the copy of the claimed wakeup, and the advance of its schedule.
LEMMA FinishingStepInv ==
  ASSUME ProactiveIInv, NEW d \in Daemons,
         \/ GetAgent(d) \/ MarkRunning(d) \/ Heartbeat(d) \/ MaterializeFails(d)
  PROVE  ProactiveIInv'
<1>1. /\ WakeupsOK /\ ProcessesOK /\ DoctorOK /\ OthersOK
      /\ daemon[d] \in Process /\ ProcessOK(daemon[d], works)
  BY DEF ProactiveIInv, ProcessesOK
<1>2. UNCHANGED <<clock, schedule, works, doctor>> /\ faults' \in 0..MaxFaults
  BY <1>1, ProactiveAssumption
     DEF OthersOK, GetAgent, MarkRunning, Heartbeat, MaterializeFails, Fault
<1>3. DoctorOK' /\ OthersOK'
  BY <1>1, <1>2, KeptDoctor DEF OthersOK
<1>4. daemon[d].pc \in Processing
  BY DEF GetAgent, MarkRunning, Heartbeat, MaterializeFails, At, Processing
<1>5. daemon[d].now \in Times /\ daemon[d].now # NoTime
  BY <1>1, ProactiveAssumption DEF Process, Times, NoTime
<1>6. WakeupsOK'
  <2>1. CASE GetAgent(d)
    BY <1>1, <1>2, <1>4, <2>1, PutCopyOK, KeptRows DEF GetAgent, Finished
  <2>2. CASE MarkRunning(d)
    BY <1>1, <1>2, <1>4, <1>5, <2>2, PutCopyOK DEF MarkRunning
  <2>3. CASE Heartbeat(d)
    BY <1>1, <1>2, <1>4, <2>3, PutCopyOK, KeptRows DEF Heartbeat, Finished
  <2>4. CASE MaterializeFails(d)
    BY <1>1, <1>2, <1>4, <2>4, PutCopyOK DEF MaterializeFails, Finished
  <2> QED
    BY <2>1, <2>2, <2>3, <2>4
<1>7. ProcessesOK'
  <2>1. CASE GetAgent(d)
    BY <1>1, <1>2, <1>4, <2>1, GotoProcesses, ReturnOK DEF GetAgent, Steps
  <2>2. CASE MarkRunning(d)
    <3>1. PICK pc \in {"beat", "work"} : Goto(d, pc) /\ (pc = "beat" => Listed(d))
      BY <2>2 DEF MarkRunning
    <3> QED
      BY <1>1, <1>2, <1>4, <3>1, GotoProcesses DEF Steps
  <2>3. CASE Heartbeat(d)
    <3>1. Listed(d)
      BY <1>1, <2>3 DEF Heartbeat, At, ProcessOK, Listed
    <3>2. Return(d) \/ Goto(d, "advance")
      BY <2>3 DEF Heartbeat
    <3> QED
      BY <1>1, <1>2, <1>4, <3>1, <3>2, GotoProcesses, ReturnOK DEF Steps
  <2>4. CASE MaterializeFails(d)
    BY <1>1, <1>2, <2>4, ReturnOK DEF MaterializeFails
  <2> QED
    BY <2>1, <2>2, <2>3, <2>4
<1> QED
  BY <1>3, <1>6, <1>7 DEF ProactiveIInv

\* The transaction makes the work before, and together with, the link to it; the save that
\* follows it links again.
LEMMA EnqueueInv ==
  ASSUME ProactiveIInv, NEW d \in Daemons, MaterializeWorkFromWakeup(d) \/ SaveEnqueued(d)
  PROVE  ProactiveIInv'
<1> DEFINE o == daemon[d].of
<1>1. /\ WakeupsOK /\ ProcessesOK /\ DoctorOK /\ OthersOK
      /\ daemon[d] \in Process /\ ProcessOK(daemon[d], works)
  BY DEF ProactiveIInv, ProcessesOK
<1>2. /\ UNCHANGED <<clock, schedule, doctor, faults>>
      /\ Put(o, "enqueued", TRUE, NoTime)
  BY DEF MaterializeWorkFromWakeup, SaveEnqueued
<1>3. daemon[d].pc \in Processing /\ o \in Occurrences
  BY <1>1 DEF MaterializeWorkFromWakeup, SaveEnqueued, At, Processing, ProcessOK
<1>4. o \in works' /\ works \subseteq works' /\ works' \subseteq Occurrences
  BY <1>1, <1>3 DEF MaterializeWorkFromWakeup, SaveEnqueued, At, ProcessOK, OthersOK
<1>5. DoctorOK' /\ OthersOK'
  BY <1>1, <1>2, <1>4, KeptDoctor DEF OthersOK
<1>6. RowOK(o, [status |-> "enqueued", linked |-> TRUE, at |-> NoTime], works')
  BY <1>4 DEF RowOK, WakeupRow, Started, Finished
<1>7. WakeupsOK'
  BY <1>1, <1>2, <1>3, <1>4, <1>6, PutOK
<1>8. ProcessesOK'
  <2>1. Listed(d)
    BY <1>1 DEF MaterializeWorkFromWakeup, SaveEnqueued, At, ProcessOK, Listed
  <2>2. Goto(d, "enqueue") \/ Goto(d, "advance")
    BY DEF MaterializeWorkFromWakeup, SaveEnqueued
  <2> QED
    BY <1>1, <1>3, <1>4, <2>1, <2>2, GotoProcesses DEF Steps
<1> QED
  BY <1>5, <1>7, <1>8 DEF ProactiveIInv

LEMMA AdvanceInv ==
  ASSUME ProactiveIInv, NEW d \in Daemons, AdvanceScheduleAfterRun(d)
  PROVE  ProactiveIInv'
<1> DEFINE s == daemon[d].of[1]
           row == daemon[d].sched[s]
           advanced == IF Config[s].kind = "at" THEN [row EXCEPT !.status = "cancelled"]
                       ELSE [row EXCEPT !.due = ComputeNextDueAfterRun(s, daemon[d].now)]
<1>1. /\ WakeupsOK /\ ProcessesOK /\ DoctorOK /\ OthersOK
      /\ daemon[d] \in Process /\ ProcessOK(daemon[d], works)
  BY DEF ProactiveIInv, ProcessesOK
<1>2. UNCHANGED <<clock, wakeup, works, doctor>> /\ Return(d) /\ faults' \in 0..MaxFaults
  BY <1>1, ProactiveAssumption DEF AdvanceScheduleAfterRun, OthersOK, Fault
<1>3. s \in Schedules
  BY <1>1 DEF AdvanceScheduleAfterRun, At, ProcessOK, Processing, Occurrences
<1>4. advanced \in ScheduleRow
  <2>1. row \in ScheduleRow
    <3>1. daemon[d].sched \in [Schedules -> ScheduleRow]
      BY <1>1 DEF Process
    <3> HIDE DEF s
    <3> QED
      BY <1>3, <3>1
  <2>3. daemon[d].now \in Nat
    BY <1>1, ProactiveAssumption DEF Process, Times
  <2>2. ComputeNextDueAfterRun(s, daemon[d].now) \in Nat
    BY <1>3, <2>3, AfterRunType
  <2> QED
    BY <2>1, <2>2 DEF ScheduleRow
<1>5. schedule' = [schedule EXCEPT ![s] = advanced] \/ UNCHANGED schedule
  BY DEF AdvanceScheduleAfterRun
<1>6. schedule' \in [Schedules -> ScheduleRow]
  <2> HIDE DEF s, advanced
  <2> QED
    BY <1>1, <1>4, <1>5 DEF OthersOK
<1>7. WakeupsOK' /\ ProcessesOK' /\ DoctorOK' /\ OthersOK'
  BY <1>1, <1>2, <1>6, KeptRows, KeptDoctor, ReturnOK DEF OthersOK
<1> QED
  BY <1>7 DEF ProactiveIInv

\* The doctor's copies, a sync and the clock.
LEMMA OtherCommandInv ==
  ASSUME ProactiveIInv,
         \/ DoctorList \/ RecoverStaleClaims \/ DoctorStops \/ Tick
         \/ \E s \in Schedules, status \in {"active", "paused"} : SyncSchedule(s, status)
  PROVE  ProactiveIInv'
<1>1. WakeupsOK /\ ProcessesOK /\ DoctorOK /\ OthersOK
  BY DEF ProactiveIInv
<1>2. UNCHANGED <<works, daemon>>
  BY DEF DoctorList, RecoverStaleClaims, DoctorStops, Tick, SyncSchedule
<1>3. ProcessesOK'
  BY <1>1, <1>2, KeptProcesses
<1>4. CASE DoctorList
  <2>1. UNCHANGED <<clock, schedule, wakeup, works, daemon, faults>>
    BY <1>4 DEF DoctorList
  <2>2. DoctorOK'
    BY <1>1, <1>2, <1>4 DEF DoctorList, DoctorOK, WakeupsOK, RowOK, WakeupRow, Stale
  <2> QED
    BY <1>1, <1>3, <2>1, <2>2, KeptRows DEF ProactiveIInv, OthersOK
<1>5. CASE RecoverStaleClaims
  <2>1. UNCHANGED <<clock, schedule, works, daemon, faults>>
    BY <1>5 DEF RecoverStaleClaims
  <2>2. PICK x \in doctor : Put(x.of, "lost", x.linked, NoTime) /\ doctor' = doctor \ {x}
    BY <1>5 DEF RecoverStaleClaims
  <2>3. x.of \in Occurrences /\ x.linked \in BOOLEAN /\ (x.linked => x.of \in works)
    BY <1>1 DEF DoctorOK
  <2>4. RowOK(x.of, [status |-> "lost", linked |-> x.linked, at |-> NoTime], works')
    BY <2>1, <2>3 DEF RowOK, WakeupRow, Started, Finished
  <2>5. WakeupsOK'
    BY <1>1, <2>1, <2>2, <2>3, <2>4, PutOK
  <2>6. DoctorOK'
    BY <1>1, <2>1, <2>2 DEF DoctorOK
  <2> QED
    BY <1>1, <1>3, <2>1, <2>5, <2>6 DEF ProactiveIInv, OthersOK
<1>6. CASE DoctorStops
  <2>1. /\ UNCHANGED <<clock, schedule, wakeup, works, daemon>>
        /\ doctor' = {} /\ faults' \in 0..MaxFaults
    BY <1>1, <1>6, ProactiveAssumption DEF DoctorStops, Fault, OthersOK
  <2> QED
    BY <1>1, <1>3, <2>1, KeptRows DEF ProactiveIInv, OthersOK, DoctorOK
<1>7. CASE Tick
  <2>1. /\ UNCHANGED <<schedule, wakeup, works, daemon, doctor, faults>> /\ clock' \in Times
    BY <1>1, <1>7, ProactiveAssumption DEF Tick, OthersOK, Times
  <2> QED
    BY <1>1, <1>3, <2>1, KeptRows, KeptDoctor DEF ProactiveIInv, OthersOK
<1>8. ASSUME NEW s \in Schedules, NEW status \in {"active", "paused"}, SyncSchedule(s, status)
      PROVE  ProactiveIInv'
  <2> DEFINE row == [status |-> status, due |-> ComputeNextDueAt(s, clock)]
  <2>1. /\ UNCHANGED <<clock, wakeup, works, daemon, doctor, faults>>
        /\ schedule' = [schedule EXCEPT ![s] = row]
    BY <1>8 DEF SyncSchedule
  <2>2. clock \in Nat
    BY <1>1, ProactiveAssumption DEF OthersOK, Times
  <2>3. row \in ScheduleRow
    BY <2>2, NextDueType DEF ScheduleRow
  <2> HIDE DEF row
  <2>4. schedule' \in [Schedules -> ScheduleRow]
    BY <1>1, <2>1, <2>3 DEF OthersOK
  <2> QED
    BY <1>1, <1>3, <2>1, <2>4, KeptRows, KeptDoctor DEF ProactiveIInv, OthersOK
<1> QED
  BY <1>4, <1>5, <1>6, <1>7, <1>8

LEMMA ProactiveNextInv == ProactiveIInv /\ [ProactiveNext]_proactiveVars => ProactiveIInv'
<1> SUFFICES ASSUME ProactiveIInv, [ProactiveNext]_proactiveVars PROVE ProactiveIInv'
  OBVIOUS
<1>1. ASSUME NEW d \in Daemons, RunOnce(d) \/ Stop(d) PROVE ProactiveIInv'
  BY <1>1, ReadingStepInv, SaveWakeupInv, ClaimInv, FinishingStepInv, EnqueueInv, AdvanceInv
     DEF RunOnce
<1>2. CASE UNCHANGED proactiveVars
  BY <1>2, KeptRows, KeptProcesses, KeptDoctor DEF ProactiveIInv, proactiveVars, OthersOK
<1> QED
  BY <1>1, <1>2, OtherCommandInv DEF ProactiveNext

-----------------------------------------------------------------------------
(* Theorems. *)

\* The invariant holds of every behaviour, whatever overlaps.
THEOREM ProactiveInvariant == ProactiveSpec => []ProactiveIInv
  BY ProactiveInitInv, ProactiveNextInv, PTL DEF ProactiveSpec

\* Every table, process and claim keeps its type; a claim has its time while the doctor may
\* have to give it up.
THEOREM ProactiveTypeCorrect == ProactiveSpec => []ProactiveTypeOK
<1>1. ProactiveIInv => ProactiveTypeOK
  BY DEF ProactiveIInv, WakeupsOK, RowOK, ProcessesOK, DoctorOK, OthersOK, ProactiveTypeOK
<1> QED
  BY <1>1, ProactiveInvariant, PTL

\* Whatever overlaps and dies: a wakeup that says it is enqueued, or names a work item, has it.
THEOREM EnqueuedHasWorkHolds == ProactiveSpec => []EnqueuedHasWork
<1>1. ProactiveIInv => EnqueuedHasWork
  BY DEF ProactiveIInv, WakeupsOK, RowOK, EnqueuedHasWork
<1> QED
  BY <1>1, ProactiveInvariant, PTL

-----------------------------------------------------------------------------
(* One command at a time.  Then the wakeup a process works on is as it left it, and only   *)
(* one of them holds anything.                                                             *)

EnqueuedRow == [status |-> "enqueued", linked |-> TRUE, at |-> NoTime]

\* What a process knows of the wakeups: none it is about to save exists, the one it has
\* claimed is started and names no work, until the transaction has enqueued it.
KnowsRows(p, rows) ==
  /\ p.pc = "save" => /\ \A x \in p.saves : rows[x.of].status = "absent"
                      /\ \A x, y \in p.saves : x.of = y.of => x = y
  /\ p.pc \in {"agent", "mark", "beat", "work"} => rows[p.of].status \in Started /\ ~p.linked
  /\ p.pc = "enqueue" => rows[p.of] = EnqueuedRow

Exclusive ==
  /\ \A d, e \in Daemons : ~At(d, "idle") /\ ~At(e, "idle") => d = e
  /\ doctor # {} => \A d \in Daemons : At(d, "idle")
Known == \A d \in Daemons : KnowsRows(daemon[d], wakeup)
DoctorKnows == \A x \in doctor : wakeup[x.of].status \in Started /\ ~x.linked

AloneIInv == ProactiveIInv /\ Exclusive /\ Known /\ DoctorKnows /\ WorkIffEnqueued

\* What a step may make of a row.
RowStep(old, new) ==
  /\ old.status \in Started \cup Finished => new.status # "queued"
  /\ old.status \in Finished => new = old
RowsStep == \A o \in Occurrences : RowStep(wakeup[o], wakeup'[o])

\* The process that takes a step is the only command at work.
LEMMA OthersIdle ==
  ASSUME ~Overlap, Exclusive, NEW d \in Daemons, ~At(d, "idle") \/ MayStart
  PROVE  doctor = {} /\ \A e \in Daemons \ {d} : At(e, "idle")
  BY DEF Exclusive, MayStart

\* So it may change any row it knows of.
LEMMA AloneProcess ==
  ASSUME ProactiveIInv, doctor = {}, NEW d \in Daemons, \A e \in Daemons \ {d} : At(e, "idle"),
         NEW p, daemon' = [daemon EXCEPT ![d] = p], UNCHANGED doctor, KnowsRows(p, wakeup')
  PROVE  Exclusive' /\ Known' /\ DoctorKnows'
<1>1. daemon'[d] = p /\ \A e \in Daemons \ {d} : daemon'[e] = daemon[e]
  BY DEF ProactiveIInv, ProcessesOK
<1>2. \A e \in Daemons \ {d} : daemon'[e].pc = "idle"
  BY <1>1 DEF At
<1>3. Exclusive'
  BY <1>2 DEF Exclusive, At
<1>4. Known'
  BY <1>1, <1>2 DEF Known, KnowsRows
<1> QED
  BY <1>3, <1>4 DEF DoctorKnows

\* A row that is put: the others stay as they are.
LEMMA AloneRow ==
  ASSUME ProactiveIInv, WorkIffEnqueued, NEW o \in Occurrences, NEW status, NEW linked, NEW at,
         Put(o, status, linked, at),
         RowStep(wakeup[o], [status |-> status, linked |-> linked, at |-> at]),
         \A u \in Occurrences \ {o} : u \in works' <=> u \in works,
         o \in works' <=> status = "enqueued"
  PROVE  WorkIffEnqueued' /\ RowsStep
<1>1. /\ wakeup'[o] = [status |-> status, linked |-> linked, at |-> at]
      /\ \A u \in Occurrences \ {o} : wakeup'[u] = wakeup[u]
  BY DEF Put, ProactiveIInv, WakeupsOK
<1>2. \A u \in Occurrences \ {o} : RowStep(wakeup[u], wakeup'[u])
  BY <1>1 DEF RowStep, Started, Finished
<1> QED
  BY <1>1, <1>2 DEF WorkIffEnqueued, RowsStep

LEMMA SameRows ==
  ASSUME WorkIffEnqueued, UNCHANGED <<wakeup, works>>
  PROVE  WorkIffEnqueued' /\ RowsStep
  BY DEF WorkIffEnqueued, RowsStep, RowStep, Started, Finished

\* No two of the saves that have been settled are of one wakeup, and none is of a wakeup
\* that exists.
LEMMA SavesAreNew ==
  ASSUME NEW sched, NEW now, NEW R
  PROVE  LET saves == UNION {Materialize(s, sched[s], now, wakeup) : s \in R} IN
           /\ \A x \in saves : wakeup[x.of].status = "absent"
           /\ \A x, y \in saves : x.of = y.of => x = y
<1> DEFINE skip(s) == Config[s].policy = "skip" /\ HasActiveForSchedule(s, wakeup)
           saves == UNION {Materialize(s, sched[s], now, wakeup) : s \in R}
<1>1. ASSUME NEW s, NEW x \in Materialize(s, sched[s], now, wakeup)
      PROVE  /\ \E t : x = [of |-> <<s, t>>, status |-> IF skip(s) THEN "skipped" ELSE "queued"]
             /\ wakeup[x.of].status = "absent"
  <2> DEFINE new == {t \in DueTimesForMaterialize(s, sched[s], now) :
                       wakeup[<<s, t>>].status = "absent"}
             kept == IF Config[s].policy = "coalesce" THEN {t \in new : \A u \in new : u <= t}
                     ELSE new
  <2>1. Materialize(s, sched[s], now, wakeup)
          = {[of |-> <<s, t>>, status |-> IF skip(s) THEN "skipped" ELSE "queued"] : t \in kept}
    BY DEF Materialize
  <2>2. \A t \in kept : wakeup[<<s, t>>].status = "absent"
    OBVIOUS
  <2> HIDE DEF kept, skip
  <2>3. PICK t \in kept : x = [of |-> <<s, t>>, status |-> IF skip(s) THEN "skipped" ELSE "queued"]
    BY <1>1, <2>1
  <2> QED
    BY <2>2, <2>3
<1>2. ASSUME NEW x \in saves, NEW y \in saves, x.of = y.of
      PROVE  x = y
  <2>1. PICK s \in R : x \in Materialize(s, sched[s], now, wakeup)
    OBVIOUS
  <2>2. PICK r \in R : y \in Materialize(r, sched[r], now, wakeup)
    OBVIOUS
  <2>3. PICK t : x = [of |-> <<s, t>>, status |-> IF skip(s) THEN "skipped" ELSE "queued"]
    BY <1>1, <2>1
  <2>4. PICK u : y = [of |-> <<r, u>>, status |-> IF skip(r) THEN "skipped" ELSE "queued"]
    BY <1>1, <2>2
  <2>5. <<s, t>> = <<r, u>>
    BY <1>2, <2>3, <2>4
  <2>6. s = r /\ t = u
    BY <2>5
  <2> QED
    BY <2>3, <2>4, <2>6
<1>3. \A x \in saves : wakeup[x.of].status = "absent"
  BY <1>1
<1> QED
  BY <1>2, <1>3

\* The lists a run begins with: what is to be saved is not there.
LEMMA ListStepAlone ==
  ASSUME ~Overlap, AloneIInv, NEW d \in Daemons, ListSchedules(d) \/ ListWakeups(d)
  PROVE  (Exclusive /\ Known /\ DoctorKnows /\ WorkIffEnqueued)' /\ RowsStep
<1>1. /\ ProactiveIInv /\ Exclusive /\ WorkIffEnqueued
      /\ UNCHANGED <<wakeup, works, doctor>>
  BY DEF AloneIInv, ListSchedules, ListWakeups
<1>2. doctor = {} /\ \A e \in Daemons \ {d} : At(e, "idle")
  BY <1>1, OthersIdle DEF ListSchedules, ListWakeups, At
<1>3. CASE ListSchedules(d)
  <2> DEFINE p == [Idle EXCEPT !.pc = "list", !.now = clock, !.sched = schedule]
  <2>1. daemon' = [daemon EXCEPT ![d] = p]
    BY <1>3 DEF ListSchedules
  <2>2. KnowsRows(p, wakeup')
    BY DEF KnowsRows, Idle
  <2> HIDE DEF p
  <2> QED
    BY <1>1, <1>2, <2>1, <2>2, AloneProcess, SameRows
<1>4. CASE ListWakeups(d)
  <2> DEFINE reached == {s \in Schedules : \A b \in Broken(d) : s < b}
             saves == UNION {Materialize(s, daemon[d].sched[s], daemon[d].now, wakeup) :
                               s \in reached}
             p == [daemon[d] EXCEPT !.pc = "save", !.saves = saves]
  <2>1. daemon' = [daemon EXCEPT ![d] = p]
    BY <1>4 DEF ListWakeups
  <2>2. /\ \A x \in saves : wakeup[x.of].status = "absent"
        /\ \A x, y \in saves : x.of = y.of => x = y
    <3> DEFINE sched == daemon[d].sched
               now == daemon[d].now
    <3> HIDE DEF reached, sched, now
    <3>1. LET new == UNION {Materialize(s, sched[s], now, wakeup) : s \in reached} IN
            /\ \A x \in new : wakeup[x.of].status = "absent"
            /\ \A x, y \in new : x.of = y.of => x = y
      BY SavesAreNew
    <3> QED
      BY <3>1 DEF sched, now
  <2> HIDE DEF saves
  <2>3. daemon[d] \in Process
    BY <1>1 DEF ProactiveIInv, ProcessesOK
  <2>4. p.pc = "save" /\ p.saves = saves
    BY <2>3 DEF Process
  <2> HIDE DEF p
  <2>5. KnowsRows(p, wakeup')
    BY <1>1, <2>2, <2>4 DEF KnowsRows
  <2> QED
    BY <1>1, <1>2, <2>1, <2>5, AloneProcess, SameRows
<1> QED
  BY <1>3, <1>4

\* What is left to save is still not there.
LEMMA SaveStepAlone ==
  ASSUME ~Overlap, AloneIInv, NEW d \in Daemons, SaveWakeup(d)
  PROVE  (Exclusive /\ Known /\ DoctorKnows /\ WorkIffEnqueued)' /\ RowsStep
<1>1. /\ ProactiveIInv /\ Exclusive /\ Known /\ WorkIffEnqueued
      /\ UNCHANGED <<works, doctor>> /\ daemon[d] \in Process
  BY DEF AloneIInv, SaveWakeup, ProactiveIInv, ProcessesOK
<1>2. doctor = {} /\ \A e \in Daemons \ {d} : At(e, "idle")
  BY <1>1, OthersIdle DEF SaveWakeup, At
<1>3. PICK x \in daemon[d].saves :
        /\ Put(x.of, x.status, FALSE, NoTime)
        /\ daemon' = [daemon EXCEPT ![d].saves = @ \ {x}]
  BY DEF SaveWakeup
<1>4. /\ \A y \in daemon[d].saves : wakeup[y.of].status = "absent"
      /\ \A y, z \in daemon[d].saves : y.of = z.of => y = z
  BY <1>1 DEF SaveWakeup, At, Known, KnowsRows
<1>5. x.of \in Occurrences /\ x.status \in {"queued", "skipped"}
  BY <1>1 DEF Process
<1> DEFINE p == [daemon[d] EXCEPT !.saves = daemon[d].saves \ {x}]
<1>6. daemon' = [daemon EXCEPT ![d] = p]
  BY <1>3
<1>7. p.pc = "save" /\ p.saves = daemon[d].saves \ {x}
  BY <1>1 DEF SaveWakeup, At, Process
<1>8. \A y \in p.saves : wakeup'[y.of] = wakeup[y.of]
  BY <1>1, <1>3, <1>4, <1>7 DEF Put, ProactiveIInv, WakeupsOK, Process
<1> HIDE DEF p
<1>9. KnowsRows(p, wakeup')
  BY <1>4, <1>7, <1>8 DEF KnowsRows
<1>10. Exclusive' /\ Known' /\ DoctorKnows'
  BY <1>1, <1>2, <1>6, <1>9, AloneProcess
<1>11. WorkIffEnqueued' /\ RowsStep
  <2>1. wakeup[x.of].status = "absent" /\ x.of \notin works
    BY <1>1, <1>4, <1>5 DEF WorkIffEnqueued
  <2>2. RowStep(wakeup[x.of], [status |-> x.status, linked |-> FALSE, at |-> NoTime])
    BY <2>1 DEF RowStep, Started, Finished
  <2> QED
    BY <1>1, <1>3, <1>5, <2>1, <2>2, AloneRow
<1> QED
  BY <1>10, <1>11

\* A queued wakeup names no work, so neither does the copy its claim takes.
LEMMA ClaimAlone ==
  ASSUME ~Overlap, AloneIInv, NEW d \in Daemons, ClaimNextDueWakeup(d)
  PROVE  (Exclusive /\ Known /\ DoctorKnows /\ WorkIffEnqueued)' /\ RowsStep
<1>1. /\ ProactiveIInv /\ Exclusive /\ Known /\ WorkIffEnqueued
      /\ UNCHANGED <<works, doctor>> /\ daemon[d] \in Process
  BY DEF AloneIInv, ClaimNextDueWakeup, ProactiveIInv, ProcessesOK
<1>2. doctor = {} /\ \A e \in Daemons \ {d} : At(e, "idle")
  BY <1>1, OthersIdle DEF ClaimNextDueWakeup, Saved, At
<1>3. PICK o \in Occurrences : TakeClaim(d, o) /\ wakeup[o].status = "queued"
  BY DEF ClaimNextDueWakeup, Due
<1>4. o \notin works /\ ~wakeup[o].linked
  BY <1>1, <1>3 DEF WorkIffEnqueued, ProactiveIInv, WakeupsOK, RowOK
<1> DEFINE copy == [s \in Schedules |-> IF s = o[1] THEN daemon[d].sched[s] ELSE Unsynced]
           p == [daemon[d] EXCEPT !.pc = "agent", !.of = o, !.linked = wakeup[o].linked,
                                  !.sched = copy]
<1>5. /\ Put(o, "claimed", wakeup[o].linked, daemon[d].now)
      /\ daemon' = [daemon EXCEPT ![d] = p]
  BY <1>3 DEF TakeClaim
<1>6. p.pc = "agent" /\ p.of = o /\ p.linked = wakeup[o].linked
  BY <1>1 DEF Process
<1> HIDE DEF p
<1>7. wakeup'[o].status = "claimed"
  BY <1>1, <1>5 DEF Put, ProactiveIInv, WakeupsOK
<1>8. KnowsRows(p, wakeup')
  BY <1>4, <1>6, <1>7 DEF KnowsRows, Started
<1>9. Exclusive' /\ Known' /\ DoctorKnows'
  BY <1>1, <1>2, <1>5, <1>8, AloneProcess
<1>10. RowStep(wakeup[o], [status |-> "claimed", linked |-> wakeup[o].linked,
                           at |-> daemon[d].now])
  BY <1>3 DEF RowStep, Started, Finished
<1>11. WorkIffEnqueued' /\ RowsStep
  BY <1>1, <1>4, <1>5, <1>10, AloneRow
<1> QED
  BY <1>9, <1>11

\* A process that returns knows nothing.
LEMMA ReturnAlone ==
  ASSUME ProactiveIInv, doctor = {}, NEW d \in Daemons, \A e \in Daemons \ {d} : At(e, "idle"),
         Return(d), UNCHANGED doctor
  PROVE  Exclusive' /\ Known' /\ DoctorKnows'
<1>1. KnowsRows(Idle, wakeup')
  BY DEF KnowsRows, Idle
<1> QED
  BY <1>1, AloneProcess DEF Return

\* A process that goes on keeps the wakeup it works on and its copy of the link.
LEMMA GotoAlone ==
  ASSUME ProactiveIInv, doctor = {}, NEW d \in Daemons, \A e \in Daemons \ {d} : At(e, "idle"),
         NEW pc, pc # "save", Goto(d, pc), UNCHANGED doctor,
         pc \in {"agent", "mark", "beat", "work"} =>
           wakeup'[daemon[d].of].status \in Started /\ ~daemon[d].linked,
         pc = "enqueue" => wakeup'[daemon[d].of] = EnqueuedRow
  PROVE  Exclusive' /\ Known' /\ DoctorKnows'
<1> DEFINE p == [daemon[d] EXCEPT !.pc = pc]
<1>1. daemon' = [daemon EXCEPT ![d] = p]
  BY DEF Goto
<1>2. p.pc = pc /\ p.of = daemon[d].of /\ p.linked = daemon[d].linked
  BY DEF ProactiveIInv, ProcessesOK, Process
<1> HIDE DEF p
<1>3. KnowsRows(p, wakeup')
  BY <1>2 DEF KnowsRows
<1> QED
  BY <1>1, <1>3, AloneProcess

\* Saves of the copy of the claimed wakeup: it is as the process left it.
LEMMA FinishingStepAlone ==
  ASSUME ~Overlap, AloneIInv, NEW d \in Daemons,
         \/ GetAgent(d) \/ MarkRunning(d) \/ Heartbeat(d) \/ MaterializeFails(d)
  PROVE  (Exclusive /\ Known /\ DoctorKnows /\ WorkIffEnqueued)' /\ RowsStep
<1> DEFINE o == daemon[d].of
<1>1. /\ ProactiveIInv /\ Exclusive /\ Known /\ WorkIffEnqueued
      /\ UNCHANGED <<works, doctor>>
      /\ daemon[d].pc \in {"agent", "mark", "beat", "work"}
  BY DEF AloneIInv, GetAgent, MarkRunning, Heartbeat, MaterializeFails, At
<1>2. doctor = {} /\ \A e \in Daemons \ {d} : At(e, "idle")
  BY <1>1, OthersIdle DEF At
<1>3. o \in Occurrences /\ wakeup[o].status \in Started /\ ~daemon[d].linked /\ o \notin works
  BY <1>1 DEF Known, KnowsRows, ProactiveIInv, ProcessesOK, ProcessOK, Processing,
              WorkIffEnqueued, Started
<1>4. ASSUME NEW status \in {"running"} \cup (Finished \ {"enqueued"}), NEW at,
             PutCopy(d, status, at)
      PROVE  WorkIffEnqueued' /\ RowsStep /\ wakeup'[o].status = status
  <2>1. Put(o, status, daemon[d].linked, at)
    BY <1>4 DEF PutCopy
  <2>2. RowStep(wakeup[o], [status |-> status, linked |-> daemon[d].linked, at |-> at])
    BY <1>3 DEF RowStep, Started, Finished
  <2>3. wakeup'[o].status = status
    BY <1>1, <1>3, <2>1 DEF Put, ProactiveIInv, WakeupsOK
  <2> HIDE DEF o
  <2> QED
    BY <1>1, <1>3, <2>1, <2>2, <2>3, AloneRow
<1>5. CASE GetAgent(d)
  <2>1. CASE Goto(d, "mark") /\ UNCHANGED wakeup
    BY <1>1, <1>2, <1>3, <2>1, GotoAlone, SameRows
  <2>2. CASE Return(d) /\ PutCopy(d, "skipped", NoTime)
    BY <1>1, <1>2, <1>4, <2>2, ReturnAlone DEF Finished
  <2> QED
    BY <1>5, <2>1, <2>2 DEF GetAgent
<1>6. CASE MarkRunning(d)
  <2>1. PutCopy(d, "running", daemon[d].now)
    BY <1>6 DEF MarkRunning
  <2>2. PICK pc \in {"beat", "work"} : Goto(d, pc)
    BY <1>6 DEF MarkRunning
  <2>3. WorkIffEnqueued' /\ RowsStep /\ wakeup'[o].status \in Started
    BY <1>4, <2>1 DEF Started
  <2> QED
    BY <1>1, <1>2, <1>3, <2>2, <2>3, GotoAlone
<1>7. CASE Heartbeat(d)
  <2>1. WorkIffEnqueued' /\ RowsStep
    BY <1>1, <1>4, <1>7, SameRows DEF Heartbeat, Finished
  <2>2. Return(d) \/ Goto(d, "advance")
    BY <1>7 DEF Heartbeat
  <2> QED
    BY <1>1, <1>2, <2>1, <2>2, GotoAlone, ReturnAlone
<1>8. CASE MaterializeFails(d)
  BY <1>1, <1>2, <1>4, <1>8, ReturnAlone DEF MaterializeFails, Finished
<1> QED
  BY <1>5, <1>6, <1>7, <1>8

\* The transaction finds no link, makes the work and the link together; the save that
\* follows changes nothing.
LEMMA EnqueueAlone ==
  ASSUME ~Overlap, AloneIInv, NEW d \in Daemons,
         MaterializeWorkFromWakeup(d) \/ AlreadyMaterialized(d) \/ SaveEnqueued(d)
  PROVE  (Exclusive /\ Known /\ DoctorKnows /\ WorkIffEnqueued)' /\ RowsStep
<1> DEFINE o == daemon[d].of
<1>1. /\ ProactiveIInv /\ Exclusive /\ Known /\ WorkIffEnqueued
      /\ UNCHANGED doctor /\ daemon[d].pc \in {"work", "enqueue"}
  BY DEF AloneIInv, MaterializeWorkFromWakeup, AlreadyMaterialized, SaveEnqueued, At
<1>2. doctor = {} /\ \A e \in Daemons \ {d} : At(e, "idle")
  BY <1>1, OthersIdle DEF At
<1>3. o \in Occurrences
  BY <1>1 DEF ProactiveIInv, ProcessesOK, ProcessOK, Processing
<1>4. daemon[d].pc = "work" => wakeup[o].status \in Started /\ o \notin works
  BY <1>1, <1>3 DEF Known, KnowsRows, WorkIffEnqueued, Started
<1>5. ~AlreadyMaterialized(d)
  BY <1>1, <1>3, <1>4 DEF AlreadyMaterialized, At, ProactiveIInv, WakeupsOK, RowOK
<1>6. Put(o, "enqueued", TRUE, NoTime) /\ works' = works \cup {o}
  <2>1. CASE MaterializeWorkFromWakeup(d)
    BY <2>1 DEF MaterializeWorkFromWakeup
  <2>2. CASE SaveEnqueued(d)
    <3>1. o \in works
      BY <1>1, <2>2 DEF SaveEnqueued, At, ProactiveIInv, ProcessesOK, ProcessOK
    <3> QED
      BY <2>2, <3>1 DEF SaveEnqueued
  <2> QED
    BY <1>5, <2>1, <2>2
<1>7. RowStep(wakeup[o], [status |-> "enqueued", linked |-> TRUE, at |-> NoTime])
  <2>1. CASE daemon[d].pc = "work"
    BY <1>4, <2>1 DEF RowStep, Started, Finished
  <2>2. CASE daemon[d].pc = "enqueue"
    BY <1>1, <2>2 DEF Known, KnowsRows, RowStep, EnqueuedRow
  <2> QED
    BY <1>1, <2>1, <2>2
<1>8. wakeup'[o] = EnqueuedRow
  BY <1>1, <1>3, <1>6 DEF Put, EnqueuedRow, ProactiveIInv, WakeupsOK
<1>9. WorkIffEnqueued' /\ RowsStep
  <2> HIDE DEF o
  <2> QED
    BY <1>1, <1>3, <1>6, <1>7, AloneRow
<1>10. Goto(d, "enqueue") \/ Goto(d, "advance")
  BY <1>5 DEF MaterializeWorkFromWakeup, SaveEnqueued
<1> QED
  BY <1>1, <1>2, <1>8, <1>9, <1>10, GotoAlone

\* The end of a run, in order or not.
LEMMA ReturnStepAlone ==
  ASSUME ~Overlap, AloneIInv, NEW d \in Daemons,
         ScheduleFails(d) \/ NothingDue(d) \/ AdvanceScheduleAfterRun(d) \/ Stop(d)
  PROVE  (Exclusive /\ Known /\ DoctorKnows /\ WorkIffEnqueued)' /\ RowsStep
<1>1. /\ ProactiveIInv /\ Exclusive /\ WorkIffEnqueued /\ Return(d)
      /\ UNCHANGED <<wakeup, works, doctor>>
  BY DEF AloneIInv, ScheduleFails, NothingDue, AdvanceScheduleAfterRun, Stop
<1>2. doctor = {} /\ \A e \in Daemons \ {d} : At(e, "idle")
  BY <1>1, OthersIdle DEF ScheduleFails, NothingDue, AdvanceScheduleAfterRun, Stop, Saved, At
<1> QED
  BY <1>1, <1>2, ReturnAlone, SameRows

\* The doctor's copies are of wakeups that nobody works on any more.
LEMMA DoctorStepAlone ==
  ASSUME ~Overlap, AloneIInv, DoctorList \/ RecoverStaleClaims \/ DoctorStops
  PROVE  (Exclusive /\ Known /\ DoctorKnows /\ WorkIffEnqueued)' /\ RowsStep
<1>1. /\ ProactiveIInv /\ Exclusive /\ Known /\ DoctorKnows /\ WorkIffEnqueued
      /\ UNCHANGED <<works, daemon>>
  BY DEF AloneIInv, DoctorList, RecoverStaleClaims, DoctorStops
<1>2. \A d \in Daemons : At(d, "idle")
  BY <1>1 DEF DoctorList, RecoverStaleClaims, DoctorStops, MayStart, Exclusive
<1>3. Exclusive' /\ Known'
  BY <1>1, <1>2 DEF Exclusive, Known, KnowsRows, At
<1>4. CASE DoctorList
  <2>1. \A o \in Stale : wakeup[o].status \in Started /\ ~wakeup[o].linked
    BY <1>1 DEF Stale, ProactiveIInv, WakeupsOK, RowOK, WorkIffEnqueued, Started
  <2>2. DoctorKnows'
    BY <1>4, <2>1 DEF DoctorList, DoctorKnows
  <2> QED
    BY <1>1, <1>3, <1>4, <2>2, SameRows DEF DoctorList
<1>5. CASE RecoverStaleClaims
  <2>1. PICK x \in doctor : Put(x.of, "lost", x.linked, NoTime) /\ doctor' = doctor \ {x}
    BY <1>5 DEF RecoverStaleClaims
  <2>2. x.of \in Occurrences /\ wakeup[x.of].status \in Started /\ ~x.linked
    BY <1>1 DEF DoctorKnows, ProactiveIInv, DoctorOK
  <2>3. x.of \notin works
    BY <1>1, <2>2 DEF WorkIffEnqueued, Started
  <2>4. RowStep(wakeup[x.of], [status |-> "lost", linked |-> x.linked, at |-> NoTime])
    BY <2>2 DEF RowStep, Started, Finished
  <2>5. WorkIffEnqueued' /\ RowsStep
    BY <1>1, <2>1, <2>2, <2>3, <2>4, AloneRow
  <2>6. ASSUME NEW y \in doctor' PROVE wakeup'[y.of].status \in Started /\ ~y.linked
    <3>1. y \in doctor /\ y # x
      BY <2>1, <2>6
    <3>2. ~y.linked /\ wakeup[y.of].status \in Started /\ y.of \in Occurrences
      BY <1>1, <3>1 DEF DoctorKnows, ProactiveIInv, DoctorOK
    <3>3. y.of # x.of
      BY <1>1, <2>2, <3>1, <3>2 DEF ProactiveIInv, DoctorOK
    <3> QED
      BY <1>1, <2>1, <3>2, <3>3 DEF Put, ProactiveIInv, WakeupsOK
  <2> QED
    BY <1>3, <2>5, <2>6 DEF DoctorKnows
<1>6. CASE DoctorStops
  BY <1>1, <1>3, <1>6, SameRows DEF DoctorStops, DoctorKnows
<1> QED
  BY <1>4, <1>5, <1>6

LEMMA AloneStep ==
  ~Overlap => (AloneIInv /\ [ProactiveNext]_proactiveVars => AloneIInv' /\ RowsStep)
<1> SUFFICES ASSUME ~Overlap, AloneIInv, [ProactiveNext]_proactiveVars
             PROVE  AloneIInv' /\ RowsStep
  OBVIOUS
<1>1. ProactiveIInv'
  BY ProactiveNextInv DEF AloneIInv
<1>2. ASSUME NEW d \in Daemons, RunOnce(d) \/ Stop(d)
      PROVE  (Exclusive /\ Known /\ DoctorKnows /\ WorkIffEnqueued)' /\ RowsStep
  BY <1>2, ListStepAlone, SaveStepAlone, ClaimAlone, FinishingStepAlone, EnqueueAlone,
     ReturnStepAlone DEF RunOnce
<1>3. ASSUME UNCHANGED <<wakeup, works, daemon, doctor>>
      PROVE  (Exclusive /\ Known /\ DoctorKnows /\ WorkIffEnqueued)' /\ RowsStep
  BY <1>3, SameRows DEF AloneIInv, Exclusive, Known, DoctorKnows, At
<1>4. (Exclusive /\ Known /\ DoctorKnows /\ WorkIffEnqueued)' /\ RowsStep
  BY <1>2, <1>3, DoctorStepAlone DEF ProactiveNext, proactiveVars, Tick, SyncSchedule
<1> QED
  BY <1>1, <1>4 DEF AloneIInv

LEMMA AloneInit == ProactiveInit => AloneIInv
<1> SUFFICES ASSUME ProactiveInit PROVE AloneIInv
  OBVIOUS
<1>1. \A d \in Daemons : daemon[d].pc = "idle"
  BY DEF ProactiveInit, Idle
<1>2. Exclusive /\ Known /\ DoctorKnows
  BY <1>1 DEF ProactiveInit, Exclusive, Known, KnowsRows, DoctorKnows, At
<1>3. WorkIffEnqueued
  BY DEF ProactiveInit, WorkIffEnqueued, NoWakeup
<1> QED
  BY <1>2, <1>3, ProactiveInitInv DEF AloneIInv

\* One command at a time, whichever of them die: a work item exists exactly for the wakeups
\* that are enqueued.  With commands that overlap it is not so.
THEOREM WorkIffEnqueuedHolds ==
  ASSUME ~Overlap
  PROVE  ProactiveSpec => []WorkIffEnqueued
<1>1. AloneIInv => WorkIffEnqueued
  BY DEF AloneIInv
<1> QED
  BY <1>1, AloneInit, AloneStep, PTL DEF ProactiveSpec

\* At most once per due window, one command at a time: a wakeup that has been started is not
\* queued again, and one that is over stays as it is.
THEOREM OncePerWindowHolds ==
  ASSUME ~Overlap
  PROVE  ProactiveSpec => OncePerWindow
<1> DEFINE Once == \A o \in Occurrences :
                     /\ wakeup[o].status \in Started \cup Finished => wakeup'[o].status # "queued"
                     /\ wakeup[o].status \in Finished => wakeup'[o] = wakeup[o]
<1>1. RowsStep => Once
  BY DEF RowsStep, RowStep
<1>2. AloneIInv /\ [ProactiveNext]_proactiveVars => AloneIInv' /\ [Once]_proactiveVars
  BY <1>1, AloneStep
<1> QED
  BY <1>2, AloneInit, PTL DEF ProactiveSpec, OncePerWindow
=============================================================================
