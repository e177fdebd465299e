------------------------------ MODULE Dispatch ------------------------------
(***************************************************************************)
(* deonctl work dispatch-once: internal/dispatch composed with the work    *)
(* queue and the budget tables.                                            *)
(*                                                                         *)
(* A dispatch is a process that works through a list of steps, one store   *)
(* call each, holding copies of the rows it has read.  todo is the part of *)
(* the list it has not taken; an error replaces it by the list of          *)
(* failDispatch or of the budget_blocked return.  Between two steps the    *)
(* process may die.  Only fake mode exists in the code: real mode is       *)
(* refused before the first store call.                                    *)
(*                                                                         *)
(* One budget policy and one month: see Budget for several.                *)
(***************************************************************************)
EXTENDS WorkQueue, Sequences

CONSTANTS
  Runs,          \* dispatch-once processes, each with a run id of its own
  HardLimit,     \* hard_limit_microusd of the month's window
  Estimate,      \* default_estimate_microusd
  Actuals,       \* costs to charge: the priced usage, or the estimate when it comes to 0
  MaxSingleRun,  \* max_single_run_microusd
  OnExhausted,   \* on_exhausted
  Funded,        \* work items that name a budget policy, or whose agent does
  NoLease,       \* dispatch-once without --lease
  NoCost,        \* a run without usage event
  GiveLease,     \* may dispatch-once be called with --lease
  Faulty         \* may store calls fail and processes die

ASSUME DispatchAssumption ==
  /\ HardLimit \in Nat \ {0} /\ Estimate \in Nat \ {0}
  /\ MaxSingleRun \in Nat \ {0} /\ Estimate <= MaxSingleRun
  /\ Actuals \subseteq Nat \ {0} /\ NoCost \notin Nat
  /\ OnExhausted \in {"pause_agent", "block_work"}
  /\ Funded \subseteq Works /\ NoLease \notin Leases
  /\ GiveLease \in BOOLEAN /\ Faulty \in BOOLEAN

VARIABLES
  window,       \* budget_windows
  reservation,  \* budget_reservations
  usage,        \* usage_events
  runRow,       \* runs.status
  run           \* the dispatch processes

budgetRows == <<window, reservation, usage>>
dispatchVars == <<queueVars, budgetRows, runRow, run>>

B == INSTANCE Budget WITH
       LastMonth <- 1, HardLimits <- {HardLimit}, Estimates <- {Estimate}, WarnAt <- 0,
       hardLimit <- HardLimit, month <- 1, call <- <<>>, exhausted <- {}, saves <- {}

\* Mutation: the worker starts before the reservation.
DispatchOnceUnpaid == <<"agent", "acquire", "preflight", "create", "bind", "mark", "worker",
                        "reserve", "commit", "finish", "settle", "release">>

DispatchOnce == <<"agent", "acquire", "preflight", "reserve", "create", "bind", "mark",
                  "worker", "commit", "finish", "settle", "release">>

\* Mutation: a failed dispatch forgets its reservation.
FailDispatchUnrefunded == <<"requeue", "failrun", "fail">>

FailDispatch == <<"refund", "requeue", "failrun", "fail">>
Blocked(pause) == <<"requeue", "block">> \o (IF pause THEN <<"pause">> ELSE <<>>)

NotBegun == [todo |-> <<"begin">>, work |-> NoWork, lease |-> NoLease, left |-> Floor,
             status |-> "absent", attempt |-> 0, reported |-> "none"]

DispatchInit ==
  /\ QueueInit
  /\ window = [m \in B!Months |-> [status |-> "none", hard |-> 0, reserved |-> 0, committed |-> 0]]
  /\ reservation = [r \in Runs |-> B!NoReservation]
  /\ usage = [r \in Runs |-> NoCost]
  /\ runRow = [r \in Runs |-> "none"]
  /\ run = [r \in Runs |-> NotBegun]

-----------------------------------------------------------------------------
(* The steps of a dispatch. *)

At(r, step) == run[r].todo # <<>> /\ Head(run[r].todo) = step
Ended(r) == run[r].todo = <<>>

Goto(r, todo) == run' = [run EXCEPT ![r].todo = todo]
Proceed(r) == Goto(r, Tail(run[r].todo))
Return(r, result) == run' = [run EXCEPT ![r].todo = <<>>, ![r].reported = result]
\* The last step of a list returns.
ProceedOrReturn(r, result) ==
  IF Len(run[r].todo) = 1 THEN Return(r, result) ELSE Proceed(r)

\* The item is read; it may be leased already, for --lease.
LoadWorkItem(r, w, l) ==
  /\ At(r, "begin")
  /\ l # NoLease => GiveLease
  /\ item[w].status \in {"queued", "leased"}
  /\ run' = [run EXCEPT ![r] = [NotBegun EXCEPT
               !.todo = DispatchOnce, !.work = w, !.lease = l,
               !.status = item[w].status, !.attempt = item[w].attempt]]
  /\ UNCHANGED <<queueVars, budgetRows, runRow>>

\* The agent is read; it may start runs while it is draining.
LoadAgent(r) ==
  /\ At(r, "agent")
  /\ IF CanStartRun(AgentOf[run[r].work]) THEN Proceed(r) ELSE Return(r, "error")
  /\ UNCHANGED <<queueVars, budgetRows, runRow>>

\* A lease given by --lease has to be active; its expiry is not looked at.
AcquireGiven(r) ==
  LET l == run[r].lease IN
  /\ At(r, "acquire") /\ l # NoLease
  /\ IF Active(l) /\ lease[l].work = run[r].work
     THEN run' = [run EXCEPT ![r].todo = Tail(@), ![r].left = lease[l].left]
     ELSE Return(r, "error")
  /\ UNCHANGED <<queueVars, budgetRows, runRow>>

\* Otherwise the item is claimed, if it was queued when it was read.
AcquireClaim(r, l, lag) ==
  /\ At(r, "acquire") /\ run[r].lease = NoLease /\ run[r].status = "queued"
  /\ Claim(run[r].work, l, lag)
  /\ run' = [run EXCEPT ![r].todo = Tail(@), ![r].lease = l, ![r].left = TTL - lag]
  /\ UNCHANGED <<budgetRows, runRow>>

NotStarted(r) ==
  /\ At(r, "acquire") /\ run[r].lease = NoLease
  /\ \/ Faulty \/ run[r].status # "queued"
     \/ ~ValidateClaim(run[r].work) \/ ActiveLeases(run[r].work) # {}
  /\ Return(r, "not_started")
  /\ UNCHANGED <<queueVars, budgetRows, runRow>>

\* No policy, or an error before the preflight: the lease is returned, and that is all.
NoPolicy(r) ==
  /\ At(r, "preflight")
  /\ Faulty \/ run[r].work \notin Funded
  /\ Goto(r, <<"requeue">>)
  /\ UNCHANGED <<queueVars, budgetRows, runRow>>

BudgetPreflight(r) ==
  /\ At(r, "preflight") /\ run[r].work \in Funded
  /\ LET win == B!OpenWindow(1, HardLimit) IN
       /\ window' = [window EXCEPT ![1] = win]
       /\ IF B!CanReserve(win, Estimate) THEN Proceed(r)
          ELSE Goto(r, Blocked(OnExhausted = "pause_agent"))
  /\ UNCHANGED <<queueVars, reservation, usage, runRow>>

Reserve(r) ==
  /\ At(r, "reserve")
  /\ B!ReserveTx(r, 1, Estimate)
  /\ Proceed(r)
  /\ UNCHANGED <<queueVars, usage, runRow>>

\* Another run took the money since the preflight: blocked, and no agent is paused.
ReserveRefused(r) ==
  /\ At(r, "reserve")
  /\ Faulty \/ window[1].committed + window[1].reserved + Estimate > window[1].hard
  /\ Goto(r, Blocked(FALSE))
  /\ UNCHANGED <<queueVars, budgetRows, runRow>>

\* Skills, task and run row.  An error before the run exists has no run to mark failed.
CreateRun(r) ==
  /\ At(r, "create")
  /\ \/ Proceed(r) /\ runRow' = [runRow EXCEPT ![r] = "running"]
     \/ Goto(r, FailDispatch) /\ UNCHANGED runRow
     \/ Goto(r, <<"refund", "requeue", "fail">>) /\ UNCHANGED runRow
  /\ UNCHANGED <<queueVars, budgetRows>>

\* A store call that fails in the middle of the dispatch.
StepFails(r) ==
  /\ Faulty
  /\ \E step \in {"bind", "mark", "commit"} : At(r, step)
  /\ Goto(r, FailDispatch)
  /\ UNCHANGED <<queueVars, budgetRows, runRow>>

\* The unique index on active leases refuses the row.
Clashes(r) == \E l \in Leases : Active(l) /\ lease[l].work = run[r].work /\ l # run[r].lease

\* SaveLease writes the copy back, active and with the expiry it was read with; the copy's
\* expiry is not used again.
BindLease(r) ==
  /\ At(r, "bind")
  /\ IF Clashes(r) THEN Goto(r, FailDispatch) /\ UNCHANGED lease
     ELSE /\ lease' = [lease EXCEPT ![run[r].lease] =
                         [work |-> run[r].work, status |-> "active", left |-> run[r].left]]
          /\ run' = [run EXCEPT ![r].todo = Tail(@), ![r].left = Floor]
  /\ UNCHANGED <<item, inbox, events, agent, commands, budgetRows, runRow>>

\* SaveWorkItem writes the whole copy, its attempt included.
SaveItem(r, status) ==
  /\ item' = [item EXCEPT ![run[r].work] = [status |-> status, attempt |-> run[r].attempt]]
  /\ UNCHANGED <<inbox, lease, events, agent, commands>>

MarkRunning(r) ==
  /\ At(r, "mark")
  /\ SaveItem(r, "running")
  /\ Proceed(r)
  /\ UNCHANGED <<budgetRows, runRow>>

\* The worker has been executing since the last step; it ends, or fails.
RunWorker(r) ==
  /\ At(r, "worker")
  /\ Proceed(r) \/ Goto(r, FailDispatch)
  /\ UNCHANGED <<queueVars, budgetRows, runRow>>

\* A charge that exhausts the window is followed by the agent's pause.
CommitBudget(r, actual) ==
  /\ At(r, "commit")
  /\ B!CommitTx(r, actual)
  /\ Goto(r, (IF window'[1].status = "exhausted" THEN <<"reread">> ELSE <<>>)
             \o Tail(run[r].todo))
  /\ UNCHANGED <<queueVars, runRow>>

RereadAgent(r) ==
  /\ At(r, "reread")
  /\ LET pause == OnExhausted = "pause_agent"
                  /\ agent[AgentOf[run[r].work]] \in {"active", "draining"} IN
       Goto(r, (IF pause THEN <<"pause">> ELSE <<>>) \o Tail(run[r].todo))
  /\ UNCHANGED <<queueVars, budgetRows, runRow>>

\* The agent's row as it was read, with status paused; errors are ignored.
PauseAgent(r) ==
  /\ At(r, "pause")
  /\ \/ agent' = [agent EXCEPT ![AgentOf[run[r].work]] = "paused"]
     \/ Faulty /\ UNCHANGED agent
  /\ ProceedOrReturn(r, "blocked")
  /\ UNCHANGED <<item, inbox, lease, events, commands, budgetRows, runRow>>

\* The run is saved; when that fails the dispatch returns at once.
FinishRun(r) ==
  /\ At(r, "finish")
  /\ \/ Proceed(r) /\ runRow' = [runRow EXCEPT ![r] = "succeeded"]
     \/ Faulty /\ Return(r, "error") /\ UNCHANGED runRow
  /\ UNCHANGED <<queueVars, budgetRows>>

SettleItem(r) ==
  /\ At(r, "settle")
  /\ SaveItem(r, "succeeded") \/ (Faulty /\ UNCHANGED queueVars)
  /\ Proceed(r)
  /\ UNCHANGED <<budgetRows, runRow>>

\* ReleaseActiveLease: its error is ignored.
Releasable(l) == Active(l) /\ <<"released", l>> \notin events
ReleaseActiveLease(l, requeue) ==
  \/ ReleaseLease(l, requeue)
  \/ (Faulty \/ ~Releasable(l)) /\ UNCHANGED queueVars

\* The learning steps that follow only add rows of their own.
FinishLease(r) ==
  /\ At(r, "release")
  /\ ReleaseActiveLease(run[r].lease, FALSE)
  /\ Return(r, "ok")
  /\ UNCHANGED <<budgetRows, runRow>>

RequeueLease(r) ==
  /\ At(r, "requeue")
  /\ ReleaseActiveLease(run[r].lease, TRUE)
  /\ ProceedOrReturn(r, "blocked")
  /\ UNCHANGED <<budgetRows, runRow>>

BlockItem(r) ==
  /\ At(r, "block")
  /\ SaveItem(r, "blocked") \/ (Faulty /\ UNCHANGED queueVars)
  /\ ProceedOrReturn(r, "blocked")
  /\ UNCHANGED <<budgetRows, runRow>>

\* failDispatch: whether the worker has run makes no difference.
Refund(r) ==
  /\ At(r, "refund")
  /\ B!ReleaseTx(r) \/ (Faulty /\ UNCHANGED <<window, reservation>>)
  /\ Proceed(r)
  /\ UNCHANGED <<queueVars, usage, runRow>>

FailRun(r) ==
  /\ At(r, "failrun")
  /\ runRow' = [runRow EXCEPT ![r] = "failed"] \/ (Faulty /\ UNCHANGED runRow)
  /\ Proceed(r)
  /\ UNCHANGED <<queueVars, budgetRows>>

FailItem(r) ==
  /\ At(r, "fail")
  /\ SaveItem(r, "failed") \/ (Faulty /\ UNCHANGED queueVars)
  /\ Return(r, "failed")
  /\ UNCHANGED <<budgetRows, runRow>>

Crash(r) ==
  /\ Faulty /\ ~Ended(r) /\ ~At(r, "begin")
  /\ Goto(r, <<>>)
  /\ UNCHANGED <<queueVars, budgetRows, runRow>>

-----------------------------------------------------------------------------

DispatchStep(r) ==
  \/ \E w \in Works, l \in Leases \cup {NoLease} : LoadWorkItem(r, w, l)
  \/ LoadAgent(r) \/ AcquireGiven(r) \/ NotStarted(r)
  \/ \E l \in Leases, lag \in Lags : AcquireClaim(r, l, lag)
  \/ NoPolicy(r) \/ BudgetPreflight(r) \/ Reserve(r) \/ ReserveRefused(r)
  \/ CreateRun(r) \/ StepFails(r) \/ BindLease(r) \/ MarkRunning(r) \/ RunWorker(r)
  \/ \E actual \in Actuals : CommitBudget(r, actual)
  \/ RereadAgent(r) \/ PauseAgent(r) \/ FinishRun(r) \/ SettleItem(r) \/ FinishLease(r)
  \/ RequeueLease(r) \/ BlockItem(r) \/ Refund(r) \/ FailRun(r) \/ FailItem(r)

Schedule == /\ \E w \in Works : MaterializeWork(w)
            /\ UNCHANGED <<budgetRows, runRow, run>>

\* Other commands on the same tables, and time: the copies a dispatch holds age too.
QueueCommand ==
  /\ \/ \E w \in Works, l \in Leases, lag \in Lags : Claim(w, l, lag)
     \/ \E l \in Leases, lag \in Lags : RenewLease(l, lag)
     \/ \E l \in Leases, requeue \in BOOLEAN : ReleaseLease(l, requeue)
     \/ \E lag \in Lags : RecoverWorkQueue(lag)
  /\ UNCHANGED <<budgetRows, runRow, run>>

Time ==
  /\ Tick
  /\ run' = [r \in Runs |-> [run[r] EXCEPT !.left = IF @ > Floor THEN @ - 1 ELSE @]]
  /\ UNCHANGED <<budgetRows, runRow>>

DispatchNext == \/ Schedule \/ QueueCommand \/ Time
                \/ \E r \in Runs : DispatchStep(r) \/ Crash(r)
DispatchSpec == DispatchInit /\ [][DispatchNext]_dispatchVars

\* Dispatches that are alone with the scheduler: nobody claims, renews, releases or
\* recovers a lease from outside, and no lease runs out.
AloneNext == Schedule \/ \E r \in Runs : DispatchStep(r)
AloneSpec == DispatchInit /\ [][AloneNext]_dispatchVars

-----------------------------------------------------------------------------
(* Safety, whatever happens around a dispatch. *)

\* The reservations of dispatches that fail, die or race for the last of the budget keep
\* the window's counters exact and its limit unbroken.
DispatchAccounts == B!WindowAccounts /\ B!HardLimitHolds

(* Safety of dispatches that are alone. *)

\* docs/ADR_BUDGETED_DISPATCH_ORDERING.md: no worker starts before its reservation, and
\* (docs/BUDGETED_DISPATCH.md) never before its lease: both are in force while it runs.
WorkerIsCovered ==
  \A r \in Runs : At(r, "worker") =>
    /\ reservation[r].status = "reserved"
    /\ Active(run[r].lease) /\ lease[run[r].lease].work = run[r].work

\* docs/BUDGETS_AND_COSTS.md: prevent duplicate execution with atomic leases.  No item has
\* two workers at once, nor is it done twice, one after the other.
DoneOnce ==
  \A q, r \in Runs : q # r /\ run[q].work = run[r].work =>
    /\ ~(At(q, "worker") /\ At(r, "worker"))
    /\ ~(runRow[q] = "succeeded" /\ runRow[r] = "succeeded")

\* When all dispatches have returned, whatever they were refused and whatever their workers
\* did, no lease and no money is held.  (When a store call fails, the call that would give
\* them back may be one that fails: there DispatchAccounts says what stays true.)
NothingHeld ==
  (\A r \in Runs : Ended(r) \/ At(r, "begin")) =>
    /\ \A l \in Leases : ~Active(l)
    /\ window[1].reserved = 0

(* A claim of the repository that the code does not meet. *)

\* internal/dispatch/service.go reports work_status succeeded for a dispatch that is ok:
\* the item then has it in the database too.
SuccessIsStored ==
  \A r \in Runs : run[r].reported = "ok" => item[run[r].work].status = "succeeded"
=============================================================================
