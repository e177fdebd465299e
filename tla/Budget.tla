------------------------------- MODULE Budget -------------------------------
(***************************************************************************)
(* Budget windows and reservations: internal/budget and the budget methods *)
(* of internal/store.                                                      *)
(*                                                                         *)
(* ReserveBudget is three store calls (policy, window, the transaction     *)
(* that reserves), so it is three actions, with what it has read kept in   *)
(* call.  A commit is one transaction, and then, when it finds the window  *)
(* used up, a read and a blind save of the agent.  A call that fails or    *)
(* dies is abandoned where it is.                                          *)
(*                                                                         *)
(* One policy; its windows are months.  Amounts are micro-USD in the code, *)
(* small numbers here.                                                     *)
(***************************************************************************)
EXTENDS Sums

CONSTANTS
  Runs,          \* dispatch runs: each has its own idempotency key
  LastMonth,     \* bound on the calendar
  HardLimits,    \* values a synced policy may give hard_limit_microusd
  Estimates,     \* amounts a run may ask for
  Actuals,       \* costs a usage event may report
  MaxSingleRun,  \* max_single_run_microusd
  WarnAt,        \* highest warning threshold, in basis points
  OnExhausted,   \* on_exhausted of the policy
  NoCost         \* a run without usage event

ASSUME BudgetAssumption ==
  /\ LastMonth \in Nat \ {0}
  /\ HardLimits \subseteq Nat \ {0} /\ HardLimits # {}
  /\ Estimates \subseteq Nat
  /\ Actuals \subseteq Nat /\ NoCost \notin Nat
  /\ MaxSingleRun \in Nat \ {0} /\ WarnAt \in Nat
  /\ OnExhausted \in {"pause_agent", "block_work"}

VARIABLES
  hardLimit,    \* hard_limit_microusd of the policy as last synced
  month,        \* the present
  window,       \* budget_windows, by month
  reservation,  \* budget_reservations, by idempotency key
  usage,        \* usage_events: the cost of each run's event
  call,         \* ReserveBudget calls under way
  exhausted,    \* commits that still have to apply on_exhausted
  agent,        \* agents.status of the agent that spends
  saves         \* agent rows about to be saved by applied commits

budgetVars == <<hardLimit, month, window, reservation, usage, call, exhausted, agent, saves>>

Months == 1 .. LastMonth
AgentStatus == {"active", "paused", "draining", "terminated", "quarantined"}

NoReservation == [status |-> "none", month |-> 0, estimated |-> 0, committed |-> 0]
NoCall == [stage |-> "idle", month |-> 0, limit |-> 0, estimate |-> 0]

WindowRow == [status : {"none", "open", "active", "warning", "exhausted"},
              hard : HardLimits \cup {0}, reserved : Nat, committed : Nat]
ReservationRow == [status : {"none", "reserved", "committed", "over_budget", "released"},
                   month : Months \cup {0}, estimated : Nat, committed : Nat]
CallRow == [stage : {"idle", "policy", "window", "over"}, month : Months \cup {0},
            limit : HardLimits \cup {0}, estimate : Estimates \cup {0}]

BudgetTypeOK ==
  /\ hardLimit \in HardLimits
  /\ month \in Months
  /\ window \in [Months -> WindowRow]
  /\ reservation \in [Runs -> ReservationRow]
  /\ usage \in [Runs -> Actuals \cup {NoCost}]
  /\ call \in [Runs -> CallRow]
  /\ exhausted \in SUBSET Runs
  /\ agent \in AgentStatus
  /\ saves \in SUBSET AgentStatus

BudgetInit ==
  /\ hardLimit \in HardLimits
  /\ month = 1
  /\ window = [m \in Months |-> [status |-> "none", hard |-> 0, reserved |-> 0, committed |-> 0]]
  /\ reservation = [r \in Runs |-> NoReservation]
  /\ usage = [r \in Runs |-> NoCost]
  /\ call = [r \in Runs |-> NoCall]
  /\ exhausted = {} /\ agent = "active" /\ saves = {}

-----------------------------------------------------------------------------
(* internal/budget *)

CanReserve(win, amount) ==
  /\ 0 < amount /\ amount <= MaxSingleRun
  /\ win.committed + win.reserved + amount <= win.hard

WindowStatusAfterCommit(win) ==
  IF win.committed >= win.hard THEN "exhausted"
  ELSE IF WarnAt > 0 /\ (win.committed * 10000) \div win.hard >= WarnAt THEN "warning"
  ELSE "active"

CommitAmount(row, actual) ==
  [status |-> IF actual > row.estimated THEN "over_budget" ELSE "committed",
   month |-> row.month, estimated |-> row.estimated, committed |-> actual]

\* Mutation: whatever the status of the row, its estimate is given back.
ReleaseAmountAny(row) == row.estimated

ReleaseAmount(row) == IF row.status = "reserved" THEN row.estimated ELSE 0

\* ApplyOnExhausted; a pause of an agent that cannot be paused is an error, nothing is saved.
RowAfterExhausted(status) ==
  IF OnExhausted = "block_work" THEN {status}
  ELSE IF status \in {"active", "draining"} THEN {"paused"} ELSE {}

-----------------------------------------------------------------------------
(* internal/store *)

SyncBudgetPolicies(limit) ==
  /\ hardLimit' = limit
  /\ UNCHANGED <<month, window, reservation, usage, call, exhausted, agent, saves>>

NextMonth ==
  /\ month < LastMonth
  /\ month' = month + 1
  /\ UNCHANGED <<hardLimit, window, reservation, usage, call, exhausted, agent, saves>>

\* The lookup by idempotency key finds nothing, and the policy is read.
ReservePolicy(r, amount) ==
  /\ call[r].stage = "idle" /\ reservation[r].status = "none"
  /\ amount > 0
  /\ call' = [call EXCEPT ![r] = [stage |-> "policy", month |-> month, limit |-> hardLimit,
                                  estimate |-> amount]]
  /\ UNCHANGED <<hardLimit, month, window, reservation, usage, exhausted, agent, saves>>

\* A window is created with the limit of the policy that was read, and kept as it is.
OpenWindow(m, limit) ==
  IF window[m].status # "none" THEN window[m]
  ELSE [status |-> "open", hard |-> limit, reserved |-> 0, committed |-> 0]

ReserveWindow(r) ==
  /\ call[r].stage = "policy"
  /\ LET win == OpenWindow(call[r].month, call[r].limit) IN
       /\ window' = [window EXCEPT ![call[r].month] = win]
       /\ call' = [call EXCEPT ![r].stage = IF CanReserve(win, call[r].estimate)
                                            THEN "window" ELSE "over"]
  /\ UNCHANGED <<hardLimit, month, reservation, usage, exhausted, agent, saves>>

\* Mutation: the preflight is trusted.
ReserveTxUnchecked(r, m, amount) ==
  /\ window' = [window EXCEPT ![m].reserved = @ + amount]
  /\ reservation' = [reservation EXCEPT ![r] = [status |-> "reserved", month |-> m,
                                                estimated |-> amount, committed |-> 0]]

\* The preflight may be stale by now: the UPDATE has the limit in its WHERE clause.  The
\* INSERT would keep a row of the same key (DO NOTHING), but the key names the run, and a
\* run reserves once.
ReserveTx(r, m, amount) ==
  /\ window[m].committed + window[m].reserved + amount <= window[m].hard
  /\ window' = [window EXCEPT ![m].reserved = @ + amount]
  /\ reservation' = [reservation EXCEPT ![r] = [status |-> "reserved", month |-> m,
                                                estimated |-> amount, committed |-> 0]]

ReserveBudget(r) ==
  /\ call[r].stage = "window"
  /\ ReserveTx(r, call[r].month, call[r].estimate)
  /\ call' = [call EXCEPT ![r].stage = "over"]
  /\ UNCHANGED <<hardLimit, month, usage, exhausted, agent, saves>>

\* The call fails (the UPDATE matched no row, the database was busy) or its process dies.
ReserveFails(r) ==
  /\ call[r].stage \in {"policy", "window"}
  /\ call' = [call EXCEPT ![r].stage = "over"]
  /\ UNCHANGED <<hardLimit, month, window, reservation, usage, exhausted, agent, saves>>

\* What a commit does to a reservation and its window.
Charge(r, actual) ==
  LET row == reservation[r]
      win == window[row.month]
      charged == [win EXCEPT !.reserved = @ - row.estimated, !.committed = @ + actual] IN
  /\ reservation' = [reservation EXCEPT ![r] = CommitAmount(row, actual)]
  /\ window' = [window EXCEPT ![row.month] =
                  [charged EXCEPT !.status = WindowStatusAfterCommit(charged)]]

\* Mutation: a commit is not idempotent, and the counter is not checked.
CommitTxUnguarded(r, actual) ==
  /\ reservation[r].status # "none"
  /\ usage' = [usage EXCEPT ![r] = actual]
  /\ Charge(r, actual)

\* Mutation: a commit is not idempotent.
CommitTxAgain(r, actual) ==
  /\ reservation[r].status \in {"reserved", "committed", "over_budget"}
  /\ window[reservation[r].month].reserved >= reservation[r].estimated
  /\ usage' = [usage EXCEPT ![r] = actual]
  /\ Charge(r, actual)

\* A settled reservation is not charged again, but the usage event is saved again.
CommitTx(r, actual) ==
  /\ usage' = [usage EXCEPT ![r] = actual]
  /\ \/ /\ reservation[r].status \in {"committed", "over_budget"}
        /\ UNCHANGED <<window, reservation>>
     \/ /\ reservation[r].status = "reserved"
        /\ window[reservation[r].month].reserved >= reservation[r].estimated
        /\ Charge(r, actual)

CommitReservationWithUsage(r, actual) ==
  /\ CommitTx(r, actual)
  /\ exhausted' = IF window'[reservation[r].month].status = "exhausted"
                     /\ reservation[r].status = "reserved"
                  THEN exhausted \cup {r} ELSE exhausted
  /\ UNCHANGED <<hardLimit, month, call, agent, saves>>

\* After the transaction: read the agent, compute its row, save it blindly.
ExhaustedRead(r) ==
  /\ r \in exhausted
  /\ exhausted' = exhausted \ {r}
  /\ saves' = saves \cup RowAfterExhausted(agent)
  /\ UNCHANGED <<hardLimit, month, window, reservation, usage, call, agent>>

ExhaustedSave(status) ==
  /\ status \in saves
  /\ saves' = saves \ {status}
  /\ agent' = status
  /\ UNCHANGED <<hardLimit, month, window, reservation, usage, call, exhausted>>

\* The process dies between its commit and the agent's row.
ExhaustedLost ==
  /\ \/ /\ exhausted # {} /\ exhausted' = {} /\ UNCHANGED saves
     \/ /\ saves # {} /\ saves' = {} /\ UNCHANGED exhausted
  /\ UNCHANGED <<hardLimit, month, window, reservation, usage, call, agent>>

\* Released and committed rows are left alone, over_budget ones are not.
ReleaseTx(r) ==
  LET row == reservation[r] IN
  /\ row.status \in {"reserved", "over_budget"}
  /\ window' = [window EXCEPT ![row.month].reserved =
                  IF @ >= ReleaseAmount(row) THEN @ - ReleaseAmount(row) ELSE @]
  /\ reservation' = [reservation EXCEPT ![r].status = "released"]

ReleaseReservation(r) ==
  /\ ReleaseTx(r)
  /\ UNCHANGED <<hardLimit, month, usage, call, exhausted, agent, saves>>

-----------------------------------------------------------------------------

BudgetNext ==
  \/ \E limit \in HardLimits : SyncBudgetPolicies(limit)
  \/ NextMonth
  \/ \E r \in Runs :
       \/ \E amount \in Estimates : ReservePolicy(r, amount)
       \/ ReserveWindow(r) \/ ReserveBudget(r) \/ ReserveFails(r)
       \/ \E actual \in Actuals : CommitReservationWithUsage(r, actual)
       \/ ReleaseReservation(r) \/ ExhaustedRead(r)
  \/ \E status \in AgentStatus : ExhaustedSave(status)
  \/ ExhaustedLost

BudgetSpec == BudgetInit /\ [][BudgetNext]_budgetVars

-----------------------------------------------------------------------------
(* Safety. *)

\* What each run counts for in month m: in what is held, in what is spent, and beyond its
\* estimate.
Booked(r, m, amount) == IF reservation[r].month = m THEN amount ELSE 0
Overrun(row) == IF row.committed > row.estimated THEN row.committed - row.estimated ELSE 0

HeldBy(m) == [r \in Runs |->
  Booked(r, m, IF reservation[r].status = "reserved" THEN reservation[r].estimated ELSE 0)]
SpentBy(m) == [r \in Runs |-> Booked(r, m, reservation[r].committed)]
OverrunBy(m) == [r \in Runs |-> Booked(r, m, Overrun(reservation[r]))]

\* The two counters of a window are what its reservations say, whatever was retried,
\* committed, released or abandoned (docs: without double-spending).
WindowAccounts ==
  \A m \in Months : /\ window[m].reserved = Total(HeldBy(m))
                    /\ window[m].committed = Total(SpentBy(m))

\* Concurrent reservations whose preflights all passed cannot overshoot the hard limit:
\* only a run that spent more than it reserved can.
HardLimitHolds ==
  \A m \in Months : window[m].reserved + window[m].committed <=
                      window[m].hard + Total(OverrunBy(m))

\* The status of a window tells whether its money is spent, and a synced policy does not
\* change the limit of a window that is open.
ExhaustedWhenSpent ==
  \A m \in Months : window[m].status = "exhausted" <=>
                      window[m].hard > 0 /\ window[m].committed >= window[m].hard

\* A retried commit never charges twice, and what was charged is never given back.
ChargedOnce ==
  [][\A r \in Runs : reservation[r].status \in {"committed", "over_budget"}
       => reservation'[r].committed = reservation[r].committed
          /\ window'[reservation[r].month].committed >= window[reservation[r].month].committed
     ]_budgetVars

\* A usage event is on record exactly for the runs that were charged, even when the
\* reservation was released before the commit or a charged one is released after it.
UsageOfCharged ==
  \A r \in Runs : usage[r] # NoCost <=>
     \/ reservation[r].status \in {"committed", "over_budget"}
     \/ reservation[r].status = "released" /\ reservation[r].committed > 0

\* What a reservation is in the ledger: a charged row that was released stays spent.
LedgerRow(row) ==
  [state |-> CASE row.status = "reserved" -> "held"
               [] row.status \in {"committed", "over_budget"} \/ row.committed > 0 -> "spent"
               [] row.status = "released" /\ row.committed = 0 -> "returned"
               [] OTHER -> "none",
   window |-> row.month,
   amount |-> IF row.status = "reserved" THEN row.estimated ELSE row.committed]

\* The counters and the two-step reservation implement the ledger that has neither.
Ledger == INSTANCE BudgetLedger WITH
  Windows <- Months,
  NoWindow <- 0,
  Amounts <- HardLimits \cup Estimates \cup Actuals,
  limit <- [m \in Months |-> window[m].hard],
  ledger <- [r \in Runs |-> LedgerRow(reservation[r])]

ImplementsLedger == Ledger!LedgerSpec
=============================================================================
