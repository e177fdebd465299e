----------------------------- MODULE Proactive -----------------------------
(***************************************************************************)
(* The proactive runtime: internal/schedule, internal/wakeup, and the      *)
(* `deonctl daemon run-once` and `daemon doctor` processes of              *)
(* internal/daemon.                                                        *)
(*                                                                         *)
(* Every row is saved whole, with no guard on what it replaces, from a     *)
(* copy read earlier; only the claim and the creation of work items are    *)
(* transactions that look at the row again.  Time is a clock of ticks; a   *)
(* cron schedule is due at the multiples of its period, as a heartbeat is. *)
(* The agent's status and the heartbeat configuration are read once each,  *)
(* so their answer is a free choice.                                       *)
(***************************************************************************)
EXTENDS Integers, FiniteSets

CONSTANTS
  Schedules,  \* schedules, numbers in the order of their ids
  Config,     \* Config[s]: what the configuration file says of schedule s
  Daemons,    \* daemon run-once processes at work at one moment
  TTL,        \* age in ticks after which the doctor gives a claim up
  MaxTime,    \* bound: the clock stops here
  MaxFaults,  \* bound: store calls that fail and processes that die
  Overlap     \* may a command start while another is under way

Times == 0..MaxTime
NoTime == -1
Kinds == {"at", "every", "cron", "heartbeat", "webhook"}

ASSUME ProactiveAssumption ==
  /\ Schedules \subseteq Nat \ {0}
  /\ TTL \in Nat /\ MaxTime \in Nat /\ MaxFaults \in Nat /\ Overlap \in BOOLEAN
  /\ \A s \in Schedules :
       /\ Config[s].kind \in Kinds            \* kind; hook is as webhook
       /\ Config[s].every \in Nat \ {0}       \* every, or the period of cron
       /\ Config[s].at \in Nat                \* at
       /\ Config[s].catchUpAll \in BOOLEAN    \* catch_up_policy: all or next_only
       /\ Config[s].policy \in {"allow", "skip", "coalesce"}  \* concurrency_policy
       /\ Config[s].lateness \in Nat          \* max_lateness_seconds, 0 for none
       /\ Config[s].hours \subseteq Nat       \* active_hours

VARIABLES
  clock,     \* the time of day
  schedule,  \* schedules: status and next_due_at
  wakeup,    \* wakeups, by schedule and due time
  works,     \* wakeups whose work item, inbox item and task snapshot exist
  daemon,    \* the run-once processes
  doctor,    \* the rows a doctor has still to save
  faults     \* faults so far

proactiveVars == <<clock, schedule, wakeup, works, daemon, doctor, faults>>

Occurrences == Schedules \X Times
NoOccurrence == <<0, NoTime>>
Started == {"claimed", "running"}
Finished == {"succeeded", "failed", "skipped", "lost", "enqueued"}

ScheduleRow == [status : {"absent", "active", "paused", "cancelled"}, due : Nat \cup {NoTime}]
Unsynced == [status |-> "absent", due |-> NoTime]

\* at is claimed_at, kept here while it can be read: by the doctor.
WakeupRow == [status : {"absent", "queued"} \cup Started \cup Finished, linked : BOOLEAN,
              at : Times \cup {NoTime}]
NoWakeup == [status |-> "absent", linked |-> FALSE, at |-> NoTime]

Process == [pc : {"idle", "list", "save", "agent", "mark", "beat", "work", "enqueue", "advance"},
            now : Times, sched : [Schedules -> ScheduleRow],
            saves : SUBSET [of : Occurrences, status : {"queued", "skipped"}],
            of : Occurrences \cup {NoOccurrence}, linked : BOOLEAN]
Idle == [pc |-> "idle", now |-> 0, sched |-> [s \in Schedules |-> Unsynced], saves |-> {},
         of |-> NoOccurrence, linked |-> FALSE]

\* A claim has its time exactly while the doctor may have to give it up.
ProactiveTypeOK ==
  /\ clock \in Times
  /\ schedule \in [Schedules -> ScheduleRow]
  /\ wakeup \in [Occurrences -> WakeupRow]
  /\ \A o \in Occurrences : wakeup[o].at # NoTime <=> wakeup[o].status \in Started
  /\ works \subseteq Occurrences
  /\ daemon \in [Daemons -> Process]
  /\ doctor \subseteq [of : Occurrences, linked : BOOLEAN]
  /\ faults \in 0..MaxFaults

ProactiveInit ==
  /\ clock = 0
  /\ schedule = [s \in Schedules |-> Unsynced]
  /\ wakeup = [o \in Occurrences |-> NoWakeup]
  /\ works = {}
  /\ daemon = [d \in Daemons |-> Idle]
  /\ doctor = {}
  /\ faults = 0

-----------------------------------------------------------------------------
(* Due times and what is made of them. *)

Grid(s, t) == (t \div Config[s].every) * Config[s].every

ComputeNextDueAt(s, t) ==
  CASE Config[s].kind = "at" -> IF Config[s].at >= t THEN Config[s].at ELSE NoTime
    [] Config[s].kind = "every" -> t + Config[s].every
    [] Config[s].kind = "cron" -> Grid(s, t) + Config[s].every
    [] Config[s].kind = "heartbeat" -> Grid(s, t)
    [] Config[s].kind = "webhook" -> NoTime

ComputeNextDueAfterRun(s, t) ==
  IF Config[s].kind = "every" THEN t + Config[s].every ELSE Grid(s, t) + Config[s].every

ResolveNextDueAt(s, row, t) == IF row.due # NoTime THEN row.due ELSE ComputeNextDueAt(s, t)

\* Is t an occurrence after first, each computed from the one before.
Follows(s, first, t) ==
  /\ Config[s].catchUpAll /\ Config[s].kind # "at" /\ t > first
  /\ IF Config[s].kind = "every" THEN (t - first) % Config[s].every = 0 ELSE t = Grid(s, t)

Considered(s, row, now) == row.status = "active" /\ now \in Config[s].hours

DueTimesForMaterialize(s, row, now) ==
  LET first == ResolveNextDueAt(s, row, now) IN
  {t \in 0..now :
     /\ Considered(s, row, now) /\ first # NoTime
     /\ t = first \/ Follows(s, first, t)
     /\ Config[s].lateness = 0 \/ now - t <= Config[s].lateness}

HasActiveForSchedule(s, rows) == \E t \in Times : rows[<<s, t>>].status \in Started

\* Mutation: the wakeups that exist are not looked at.
MaterializeAnew(s, row, now, rows) ==
  {[of |-> <<s, t>>, status |-> "queued"] : t \in DueTimesForMaterialize(s, row, now)}

\* MaterializeWakeups and ApplyConcurrencyPolicy.
Materialize(s, row, now, rows) ==
  LET new == {t \in DueTimesForMaterialize(s, row, now) : rows[<<s, t>>].status = "absent"}
      kept == IF Config[s].policy = "coalesce" THEN {t \in new : \A u \in new : u <= t} ELSE new
      skip == Config[s].policy = "skip" /\ HasActiveForSchedule(s, rows)
  IN {[of |-> <<s, t>>, status |-> IF skip THEN "skipped" ELSE "queued"] : t \in kept}

\* No due time can be computed for these: they end the run with an error, before it claims.
Undue(rows, now) == {s \in Schedules : Config[s].kind = "webhook" /\ Considered(s, rows[s], now)}
Broken(d) == Undue(daemon[d].sched, daemon[d].now)

-----------------------------------------------------------------------------
(* daemon run-once: one action per store call. *)

At(d, pc) == daemon[d].pc = pc
Goto(d, pc) == daemon' = [daemon EXCEPT ![d].pc = pc]
Return(d) == daemon' = [daemon EXCEPT ![d] = Idle]
Put(o, status, linked, at) ==
  wakeup' = [wakeup EXCEPT ![o] = [status |-> status, linked |-> linked, at |-> at]]
\* The wakeup as it was claimed, with a new status.
PutCopy(d, status, at) == Put(daemon[d].of, status, daemon[d].linked, at)
Fault == faults < MaxFaults /\ faults' = faults + 1

MayStart == Overlap \/ (doctor = {} /\ \A d \in Daemons : At(d, "idle"))

ListSchedules(d) ==
  /\ At(d, "idle") /\ MayStart
  /\ daemon' = [daemon EXCEPT ![d] = [Idle EXCEPT !.pc = "list", !.now = clock, !.sched = schedule]]
  /\ UNCHANGED <<clock, schedule, wakeup, works, doctor, faults>>

\* What will be saved is settled here; schedules from the first broken one on are not reached.
ListWakeups(d) ==
  /\ At(d, "list")
  /\ LET reached == {s \in Schedules : \A b \in Broken(d) : s < b}
         saves == UNION {Materialize(s, daemon[d].sched[s], daemon[d].now, wakeup) : s \in reached}
     IN daemon' = [daemon EXCEPT ![d] = [@ EXCEPT !.pc = "save", !.saves = saves]]
  /\ UNCHANGED <<clock, schedule, wakeup, works, doctor, faults>>

Before(o, p) == o[1] < p[1] \/ (o[1] = p[1] /\ o[2] <= p[2])

SaveWakeup(d) ==
  /\ At(d, "save")
  /\ \E x \in daemon[d].saves :
       /\ \A y \in daemon[d].saves : Before(x.of, y.of)
       /\ Put(x.of, x.status, FALSE, NoTime)
       /\ daemon' = [daemon EXCEPT ![d].saves = @ \ {x}]
  /\ UNCHANGED <<clock, schedule, works, doctor, faults>>

Due(d) == {o \in Occurrences : wakeup[o].status = "queued" /\ o[2] <= daemon[d].now}
Saved(d) == At(d, "save") /\ daemon[d].saves = {}

ScheduleFails(d) ==
  /\ Saved(d) /\ Broken(d) # {}
  /\ Return(d)
  /\ UNCHANGED <<clock, schedule, wakeup, works, doctor, faults>>

NothingDue(d) ==
  /\ Saved(d) /\ Broken(d) = {} /\ Due(d) = {}
  /\ Return(d)
  /\ UNCHANGED <<clock, schedule, wakeup, works, doctor, faults>>

\* The copy of the schedule is kept for the end of the run.
TakeClaim(d, o) ==
  /\ Put(o, "claimed", wakeup[o].linked, daemon[d].now)
  /\ daemon' = [daemon EXCEPT ![d] = [@ EXCEPT
                  !.pc = "agent", !.of = o, !.linked = wakeup[o].linked,
                  !.sched = [s \in Schedules |-> IF s = o[1] THEN daemon[d].sched[s] ELSE Unsynced]]]

\* Mutation: only wakeups of active schedules are claimed.
ClaimOfActive(d) ==
  /\ Saved(d) /\ Broken(d) = {}
  /\ \E o \in Due(d) : /\ \A p \in Due(d) : o[2] <= p[2]
                       /\ daemon[d].sched[o[1]].status = "active"
                       /\ TakeClaim(d, o)
  /\ UNCHANGED <<clock, schedule, works, doctor, faults>>

\* The earliest; among those due at one time, their ids are hashes.
ClaimNextDueWakeup(d) ==
  /\ Saved(d) /\ Broken(d) = {}
  /\ \E o \in Due(d) : (\A p \in Due(d) : o[2] <= p[2]) /\ TakeClaim(d, o)
  /\ UNCHANGED <<clock, schedule, works, doctor, faults>>

\* The agent is missing, or may not start runs: skipped, and the schedule stays as it is.
GetAgent(d) ==
  /\ At(d, "agent")
  /\ \/ Goto(d, "mark") /\ UNCHANGED wakeup
     \/ Return(d) /\ PutCopy(d, "skipped", NoTime)
  /\ UNCHANGED <<clock, schedule, works, doctor, faults>>

\* A schedule synced since the list was read is not known to the process: no kind, no template.
Listed(d) == daemon[d].sched[daemon[d].of[1]].status # "absent"

\* Mutation: the time of the claim is not saved.
MarkRunningTimeless(d) ==
  /\ At(d, "mark")
  /\ PutCopy(d, "running", NoTime)
  /\ Goto(d, IF Listed(d) /\ Config[daemon[d].of[1]].kind = "heartbeat" THEN "beat" ELSE "work")
  /\ UNCHANGED <<clock, schedule, works, doctor, faults>>

MarkRunning(d) ==
  /\ At(d, "mark")
  /\ PutCopy(d, "running", daemon[d].now)
  /\ Goto(d, IF Listed(d) /\ Config[daemon[d].of[1]].kind = "heartbeat" THEN "beat" ELSE "work")
  /\ UNCHANGED <<clock, schedule, works, doctor, faults>>

\* No policy, a plan that would not run, or a beat.  The save's error is ignored.
Heartbeat(d) ==
  /\ At(d, "beat")
  /\ \E status \in {"failed", "skipped", "succeeded"} :
       /\ \/ PutCopy(d, status, NoTime) /\ UNCHANGED faults
          \/ Fault /\ UNCHANGED wakeup
       /\ IF status = "succeeded" THEN Goto(d, "advance") ELSE Return(d)
  /\ UNCHANGED <<clock, schedule, works, doctor>>

\* Mutation: the wakeup is enqueued before the work item is saved.
MaterializeWorkLate(d) ==
  /\ At(d, "work") /\ Listed(d) /\ ~wakeup[daemon[d].of].linked
  /\ Put(daemon[d].of, "enqueued", TRUE, NoTime)
  /\ Goto(d, "enqueue")
  /\ UNCHANGED <<clock, schedule, works, doctor, faults>>

\* Mutation: the transaction leaves the wakeup to be saved afterwards.
MaterializeWorkUnlinked(d) ==
  /\ At(d, "work") /\ Listed(d) /\ ~wakeup[daemon[d].of].linked /\ daemon[d].of \notin works
  /\ works' = works \cup {daemon[d].of}
  /\ Goto(d, "enqueue")
  /\ UNCHANGED <<clock, schedule, wakeup, doctor, faults>>

\* One transaction: the wakeup is read again; the task snapshot of a work item is inserted,
\* so a second one for the same wakeup clashes.
MaterializeWorkFromWakeup(d) ==
  LET o == daemon[d].of IN
  /\ At(d, "work") /\ Listed(d) /\ ~wakeup[o].linked /\ o \notin works
  /\ works' = works \cup {o}
  /\ Put(o, "enqueued", TRUE, NoTime)
  /\ Goto(d, "enqueue")
  /\ UNCHANGED <<clock, schedule, doctor, faults>>

AlreadyMaterialized(d) ==
  /\ At(d, "work") /\ Listed(d) /\ wakeup[daemon[d].of].linked
  /\ Goto(d, "enqueue")
  /\ UNCHANGED <<clock, schedule, wakeup, works, doctor, faults>>

\* The clash, no schedule, no template, no task file, or any other error: failed, schedule as it is.
MaterializeFails(d) ==
  /\ At(d, "work")
  /\ PutCopy(d, "failed", NoTime)
  /\ Return(d)
  /\ UNCHANGED <<clock, schedule, works, doctor, faults>>

SaveEnqueued(d) ==
  /\ At(d, "enqueue")
  /\ Put(daemon[d].of, "enqueued", TRUE, NoTime)
  /\ Goto(d, "advance")
  /\ UNCHANGED <<clock, schedule, works, doctor, faults>>

\* The copy of the schedule, its status included; errors are ignored.
AdvanceScheduleAfterRun(d) ==
  LET s == daemon[d].of[1]
      row == daemon[d].sched[s]
      advanced == IF Config[s].kind = "at" THEN [row EXCEPT !.status = "cancelled"]
                  ELSE [row EXCEPT !.due = ComputeNextDueAfterRun(s, daemon[d].now)]
  IN
  /\ At(d, "advance")
  /\ \/ schedule' = [schedule EXCEPT ![s] = advanced] /\ UNCHANGED faults
     \/ Fault /\ UNCHANGED schedule
  /\ Return(d)
  /\ UNCHANGED <<clock, wakeup, works, doctor>>

\* The process dies, or a store call fails and it returns.
Stop(d) ==
  /\ ~At(d, "idle") /\ Fault
  /\ Return(d)
  /\ UNCHANGED <<clock, schedule, wakeup, works, doctor>>

-----------------------------------------------------------------------------
(* daemon doctor, schedules sync and time. *)

Stale == {o \in Occurrences : wakeup[o].status \in Started /\ clock - wakeup[o].at > TTL}

DoctorList ==
  /\ doctor = {} /\ MayStart /\ Stale # {}
  /\ doctor' = {[of |-> o, linked |-> wakeup[o].linked] : o \in Stale}
  /\ UNCHANGED <<clock, schedule, wakeup, works, daemon, faults>>

RecoverStaleClaims ==
  /\ \E x \in doctor : /\ \A y \in doctor : x.of[2] <= y.of[2]
                       /\ Put(x.of, "lost", x.linked, NoTime)
                       /\ doctor' = doctor \ {x}
  /\ UNCHANGED <<clock, schedule, works, daemon, faults>>

DoctorStops ==
  /\ doctor # {} /\ Fault
  /\ doctor' = {}
  /\ UNCHANGED <<clock, schedule, wakeup, works, daemon>>

\* One row of the configuration file, which may have changed: a save of its own, that
\* starts the schedule again from now.
SyncSchedule(s, status) ==
  /\ MayStart
  /\ schedule' = [schedule EXCEPT ![s] = [status |-> status, due |-> ComputeNextDueAt(s, clock)]]
  /\ UNCHANGED <<clock, wakeup, works, daemon, doctor, faults>>

Tick ==
  /\ clock < MaxTime
  /\ clock' = clock + 1
  /\ UNCHANGED <<schedule, wakeup, works, daemon, doctor, faults>>

RunOnce(d) ==
  \/ ListSchedules(d) \/ ListWakeups(d) \/ SaveWakeup(d) \/ ScheduleFails(d) \/ NothingDue(d)
  \/ ClaimNextDueWakeup(d) \/ GetAgent(d) \/ MarkRunning(d) \/ Heartbeat(d)
  \/ MaterializeWorkFromWakeup(d) \/ AlreadyMaterialized(d) \/ MaterializeFails(d)
  \/ SaveEnqueued(d) \/ AdvanceScheduleAfterRun(d)

ProactiveNext ==
  \/ \E d \in Daemons : RunOnce(d) \/ Stop(d)
  \/ DoctorList \/ RecoverStaleClaims \/ DoctorStops
  \/ \E s \in Schedules, status \in {"active", "paused"} : SyncSchedule(s, status)
  \/ Tick

ProactiveSpec == ProactiveInit /\ [][ProactiveNext]_proactiveVars

\* Something runs daemon run-once again and again, and a doctor that has begun goes on.
ProactiveFairSpec ==
  /\ ProactiveSpec
  /\ WF_proactiveVars(\E d \in Daemons : RunOnce(d))
  /\ WF_proactiveVars(RecoverStaleClaims)

-----------------------------------------------------------------------------
(* Properties. *)

\* Whatever overlaps: a wakeup that says it is enqueued, or names a work item, has it.
EnqueuedHasWork ==
  \A o \in Occurrences : wakeup[o].linked \/ wakeup[o].status = "enqueued" => o \in works

\* One command at a time, any of which may die: a work item exists exactly for the wakeups
\* that are enqueued, never for one that was lost, failed or is still to be done.
WorkIffEnqueued == \A o \in Occurrences : o \in works <=> wakeup[o].status = "enqueued"

\* docs/PROACTIVE_RUNTIME.md: at most once per due window, after a restart, a crash or a
\* double scheduler tick.  What has been started is not queued again, and what is over
\* stays as it is.
OncePerWindow ==
  [][\A o \in Occurrences :
       /\ wakeup[o].status \in Started \cup Finished => wakeup'[o].status # "queued"
       /\ wakeup[o].status \in Finished => wakeup'[o] = wakeup[o]]_proactiveVars

\* From some moment on, every schedule that is active in its hours has a due time.
EventuallyDue == <>[](Undue(schedule, clock) = {})

\* A wakeup does not stay queued, whatever became of its schedule, unless an active webhook
\* or hook schedule ends every run with an error before the claim (processor.go, 152-153):
\* when there is none any more, what was queued meanwhile is served too.
QueuedIsServed ==
  \A o \in Occurrences :
    EventuallyDue => (wakeup[o].status = "queued" ~> wakeup[o].status # "queued")

(* A claim of the repository that the code does not meet. *)

\* docs/PROACTIVE_RUNTIME.md has `webhook` among the types of schedules: wakeups are served
\* whichever schedules are active.
ServedWithAnySchedule ==
  \A o \in Occurrences : wakeup[o].status = "queued" ~> wakeup[o].status # "queued"
=============================================================================
