---------------------------- MODULE BudgetProofs ----------------------------
(***************************************************************************)
(* Proofs about Budget.  A first inductive invariant speaks of each row    *)
(* alone: the types, the status of a window, the charge that is made once  *)
(* and the usage event that goes with it.  A second one, on top of it,     *)
(* adds the rows up: the counters of a window, its hard limit, and that    *)
(* the counters implement the ledger.                                      *)
(***************************************************************************)
EXTENDS Budget, FiniteSetTheorems, TLAPS

\* A window row as the code leaves it.
WindowOK(win) ==
  /\ win \in WindowRow
  /\ win.status = "none" <=> win.hard = 0
  /\ win.status = "none" => win.reserved = 0 /\ win.committed = 0
  /\ win.status = "exhausted" <=> win.hard > 0 /\ win.committed >= win.hard

\* A reservation with the usage event of its run.
ReservationOK(row, cost) ==
  /\ row \in ReservationRow
  /\ row.status # "none" => row.month \in Months /\ row.estimated > 0
  /\ row.status \in {"none", "reserved"} => row.committed = 0
  /\ row.status = "over_budget" => row.committed > 0
  /\ cost \in Actuals \cup {NoCost}
  /\ cost # NoCost <=> \/ row.status \in {"committed", "over_budget"}
                       \/ row.status = "released" /\ row.committed > 0

\* A ReserveBudget call with what it carries.
CallOK(c, row) ==
  /\ c \in CallRow
  /\ c.stage = "policy" => c.limit \in HardLimits
  /\ c.stage \in {"policy", "window"} => c.month \in Months /\ c.estimate \in Nat /\ c.estimate > 0
  /\ row.status # "none" => c.stage = "over"

WindowsOK == window \in [Months -> WindowRow] /\ \A m \in Months : WindowOK(window[m])
ReservationsOK ==
  /\ reservation \in [Runs -> ReservationRow] /\ usage \in [Runs -> Actuals \cup {NoCost}]
  /\ \A r \in Runs : ReservationOK(reservation[r], usage[r])
CallsOK == call \in [Runs -> CallRow] /\ \A r \in Runs : CallOK(call[r], reservation[r])
OthersOK ==
  /\ hardLimit \in HardLimits /\ month \in Months
  /\ exhausted \in SUBSET Runs /\ agent \in AgentStatus /\ saves \in SUBSET AgentStatus

\* The rows of the tables; a module that has only these can use what is said of them.
TablesOK == WindowsOK /\ ReservationsOK
BudgetIInv == TablesOK /\ CallsOK /\ OthersOK

-----------------------------------------------------------------------------
(* Rows. *)

\* GetOrCreateWindow returns an open window in order.
LEMMA OpenWindowOK ==
  ASSUME NEW m \in Months, NEW limit \in HardLimits, WindowOK(window[m])
  PROVE  WindowOK(OpenWindow(m, limit))
  BY BudgetAssumption DEF WindowOK, OpenWindow, WindowRow

\* A window that took a charge has the status its money calls for.
LEMMA ChargedWindowOK ==
  ASSUME NEW win, WindowOK(win), NEW e \in Nat, e > 0, win.reserved >= e, NEW actual \in Nat,
         NEW charged, charged = [win EXCEPT !.reserved = @ - e, !.committed = @ + actual]
  PROVE  WindowOK([charged EXCEPT !.status = WindowStatusAfterCommit(charged)])
<1>1. /\ win \in WindowRow /\ win.hard \in Nat /\ win.hard > 0
      /\ win.reserved \in Nat /\ win.committed \in Nat
  BY BudgetAssumption DEF WindowOK, WindowRow
<1>2. /\ charged \in WindowRow /\ charged.hard = win.hard
      /\ charged.committed = win.committed + actual
  <2>1. win.reserved - e \in Nat /\ win.committed + actual \in Nat
    BY <1>1
  <2>2. charged = [status |-> win.status, hard |-> win.hard,
                   reserved |-> win.reserved - e, committed |-> win.committed + actual]
    BY <1>1 DEF WindowRow
  <2> QED BY <1>1, <2>1, <2>2 DEF WindowRow
<1>3. /\ WindowStatusAfterCommit(charged) \in {"open", "active", "warning", "exhausted"}
      /\ WindowStatusAfterCommit(charged) = "exhausted" <=> charged.committed >= charged.hard
  BY <1>2 DEF WindowStatusAfterCommit
<1> DEFINE new == [charged EXCEPT !.status = WindowStatusAfterCommit(charged)]
<1>4. /\ new \in WindowRow /\ new.hard = charged.hard /\ new.committed = charged.committed
      /\ new.status = WindowStatusAfterCommit(charged)
  BY <1>2, <1>3 DEF WindowRow
<1> QED BY <1>1, <1>2, <1>3, <1>4 DEF WindowOK

\* CommitAmount charges a reserved row with what was spent.
LEMMA CommitAmountOK ==
  ASSUME NEW row, NEW cost, ReservationOK(row, cost), row.status = "reserved",
         NEW actual \in Actuals
  PROVE  /\ ReservationOK(CommitAmount(row, actual), actual)
         /\ CommitAmount(row, actual).status \in {"committed", "over_budget"}
         /\ CommitAmount(row, actual).committed = actual
<1>1. row \in ReservationRow /\ actual \in Nat /\ actual # NoCost /\ row.estimated \in Nat
  BY BudgetAssumption DEF ReservationOK, ReservationRow
<1>2. CommitAmount(row, actual) \in ReservationRow
  BY <1>1 DEF CommitAmount, ReservationRow
<1> QED BY <1>1, <1>2 DEF ReservationOK, ReservationRow, CommitAmount

-----------------------------------------------------------------------------
(* The transactions, on rows that are in order. *)

LEMMA OpenKeepsTables ==
  ASSUME TablesOK, NEW m \in Months, NEW limit \in HardLimits,
         window' = [window EXCEPT ![m] = OpenWindow(m, limit)], UNCHANGED <<reservation, usage>>
  PROVE  TablesOK'
<1>1. WindowOK(OpenWindow(m, limit))
  BY OpenWindowOK DEF TablesOK, WindowsOK
<1> QED BY <1>1 DEF TablesOK, WindowsOK, WindowOK, ReservationsOK

LEMMA ReserveKeepsTables ==
  ASSUME TablesOK, NEW r \in Runs, NEW m \in Months, NEW amount \in Nat, amount > 0,
         ReserveTx(r, m, amount), UNCHANGED usage, reservation[r].status = "none"
  PROVE  TablesOK'
<1> DEFINE win == [window[m] EXCEPT !.reserved = @ + amount]
           row == [status |-> "reserved", month |-> m, estimated |-> amount, committed |-> 0]
<1>1. /\ WindowOK(window[m])
      /\ window[m].committed + window[m].reserved + amount <= window[m].hard
  BY DEF TablesOK, WindowsOK, ReserveTx
<1>2. WindowOK(win)
  BY <1>1, BudgetAssumption DEF WindowOK, WindowRow
<1>3. WindowsOK'
  BY <1>2 DEF TablesOK, ReserveTx, WindowsOK, WindowOK
<1>4. ReservationOK(row, usage[r])
  BY DEF TablesOK, ReservationsOK, ReservationOK, ReservationRow
<1>5. ReservationsOK'
  BY <1>4 DEF TablesOK, ReserveTx, ReservationsOK, ReservationOK
<1> QED BY <1>3, <1>5 DEF TablesOK

LEMMA CommitKeepsTables ==
  ASSUME TablesOK, NEW r \in Runs, NEW actual \in Actuals, CommitTx(r, actual)
  PROVE  TablesOK'
<1> USE DEF TablesOK
<1>1. CASE reservation[r].status \in {"committed", "over_budget"}
  <2>1. UNCHANGED <<window, reservation>> /\ usage' = [usage EXCEPT ![r] = actual]
    BY <1>1 DEF CommitTx
  <2>2. ReservationOK(reservation[r], actual)
    BY <1>1, BudgetAssumption DEF ReservationsOK, ReservationOK
  <2>3. ReservationsOK'
    BY <2>1, <2>2 DEF ReservationsOK, ReservationOK
  <2> QED BY <2>1, <2>3 DEF WindowsOK
<1>2. CASE reservation[r].status = "reserved"
  <2> DEFINE old == reservation[r]
             row == CommitAmount(old, actual)
             m == old.month
             charged == [window[m] EXCEPT !.reserved = @ - old.estimated,
                                          !.committed = @ + actual]
             win == [charged EXCEPT !.status = WindowStatusAfterCommit(charged)]
  <2>1. /\ usage' = [usage EXCEPT ![r] = actual]
        /\ reservation' = [reservation EXCEPT ![r] = row]
        /\ window' = [window EXCEPT ![m] = win]
        /\ window[m].reserved >= old.estimated
    BY <1>2 DEF CommitTx, Charge
  <2>2. /\ m \in Months /\ old.estimated \in Nat /\ old.estimated > 0 /\ actual \in Nat
        /\ ReservationOK(old, usage[r]) /\ WindowOK(window[m])
    BY <1>2, BudgetAssumption DEF ReservationsOK, ReservationOK, ReservationRow, WindowsOK
  <2>3. ReservationOK(row, actual)
    BY <1>2, <2>2, CommitAmountOK
  <2>4. ReservationsOK'
    BY <2>1, <2>3 DEF ReservationsOK, ReservationOK
  <2>5. WindowOK(win)
    BY <2>1, <2>2, ChargedWindowOK
  <2>6. WindowsOK'
    BY <2>1, <2>2, <2>5 DEF WindowsOK, WindowOK
  <2> QED BY <2>4, <2>6
<1> QED BY <1>1, <1>2 DEF CommitTx

LEMMA ReleaseKeepsTables ==
  ASSUME TablesOK, NEW r \in Runs, ReleaseTx(r), UNCHANGED usage
  PROVE  TablesOK'
<1> USE DEF TablesOK
<1> DEFINE old == reservation[r]
           row == [old EXCEPT !.status = "released"]
           m == old.month
           n == ReleaseAmount(old)
           win == [window[m] EXCEPT !.reserved = IF @ >= n THEN @ - n ELSE @]
<1>1. /\ old.status \in {"reserved", "over_budget"} /\ m \in Months /\ n \in Nat
      /\ old \in ReservationRow /\ ReservationOK(old, usage[r]) /\ WindowOK(window[m])
      /\ reservation' = [reservation EXCEPT ![r] = row]
  BY DEF ReleaseTx, ReservationsOK, ReservationOK, ReservationRow, WindowsOK, ReleaseAmount
<1>2. window' = [window EXCEPT ![m] = win]
  BY DEF ReleaseTx
<1>3. WindowOK(win)
  BY <1>1 DEF WindowOK, WindowRow
<1>4. WindowsOK'
  BY <1>1, <1>2, <1>3 DEF WindowsOK, WindowOK
<1>5. row \in ReservationRow /\ row.month = m /\ row.estimated = old.estimated
      /\ row.committed = old.committed /\ row.status = "released"
  BY <1>1 DEF ReservationRow
<1>6. ReservationOK(row, usage[r])
  BY <1>1, <1>5 DEF ReservationOK, ReservationRow
<1>7. ReservationsOK'
  BY <1>1, <1>6 DEF ReservationsOK, ReservationOK
<1> QED BY <1>4, <1>7

-----------------------------------------------------------------------------
(* The invariant. *)

LEMMA BudgetIInvInit == BudgetInit => BudgetIInv
  BY BudgetAssumption DEF BudgetInit, BudgetIInv, TablesOK, WindowsOK, ReservationsOK, CallsOK, OthersOK,
     WindowOK, ReservationOK, CallOK, WindowRow, ReservationRow, CallRow, NoReservation, NoCall,
     Months, AgentStatus

LEMMA BudgetIInvStep == BudgetIInv /\ [BudgetNext]_budgetVars => BudgetIInv'
<1> SUFFICES ASSUME BudgetIInv, [BudgetNext]_budgetVars PROVE BudgetIInv'
  OBVIOUS
<1> USE DEF BudgetIInv
<1>0. ASSUME UNCHANGED <<window, reservation, usage>> PROVE TablesOK'
  BY <1>0 DEF TablesOK, WindowsOK, ReservationsOK
<1>1. ASSUME NEW limit \in HardLimits, SyncBudgetPolicies(limit) PROVE BudgetIInv'
  BY <1>0, <1>1 DEF SyncBudgetPolicies, CallsOK, OthersOK
<1>2. CASE NextMonth
  BY <1>0, <1>2, BudgetAssumption DEF NextMonth, CallsOK, OthersOK, Months
<1>3. ASSUME NEW r \in Runs, NEW amount \in Estimates, ReservePolicy(r, amount)
      PROVE  BudgetIInv'
  <2> DEFINE c == [stage |-> "policy", month |-> month, limit |-> hardLimit, estimate |-> amount]
  <2>1. call' = [call EXCEPT ![r] = c] /\ reservation[r].status = "none"
    BY <1>3 DEF ReservePolicy
  <2>2. CallOK(c, reservation[r]) /\ c \in CallRow
    BY <1>3, <2>1, BudgetAssumption DEF ReservePolicy, CallOK, CallRow, OthersOK
  <2>3. CallsOK'
    BY <2>1, <2>2, <1>3 DEF CallsOK, ReservePolicy
  <2> QED BY <1>0, <1>3, <2>3 DEF ReservePolicy, OthersOK
<1>4. ASSUME NEW r \in Runs, ReserveWindow(r) PROVE BudgetIInv'
  <2>1. PICK m \in Months, limit \in HardLimits : m = call[r].month /\ limit = call[r].limit
    BY <1>4 DEF ReserveWindow, CallsOK, CallOK
  <2>2. TablesOK'
    BY <1>4, <2>1, OpenKeepsTables DEF ReserveWindow
  <2>3. call[r] \in CallRow /\ CallOK(call[r], reservation[r])
    BY DEF CallsOK
  <2>4. PICK stage \in {"window", "over"} : call' = [call EXCEPT ![r].stage = stage]
    BY <1>4 DEF ReserveWindow
  <2> DEFINE c == [call[r] EXCEPT !.stage = stage]
  <2>5. CallOK(c, reservation[r]) /\ c \in CallRow
    BY <1>4, <2>3 DEF ReserveWindow, CallOK, CallRow
  <2>6. CallsOK'
    BY <1>4, <2>4, <2>5 DEF CallsOK, ReserveWindow
  <2> QED BY <1>4, <2>2, <2>6 DEF ReserveWindow, OthersOK
<1>5. ASSUME NEW r \in Runs, ReserveBudget(r) PROVE BudgetIInv'
  <2> DEFINE c == [call[r] EXCEPT !.stage = "over"]
  <2>1. PICK m \in Months, amount \in Nat :
          /\ amount > 0 /\ ReserveTx(r, m, amount) /\ reservation[r].status = "none"
    BY <1>5 DEF ReserveBudget, CallsOK, CallOK
  <2>2. TablesOK'
    BY <1>5, <2>1, ReserveKeepsTables DEF ReserveBudget
  <2>3. call[r] \in CallRow
    BY DEF CallsOK
  <2>4. \A row : CallOK(c, row) /\ c \in CallRow
    BY <2>3 DEF CallOK, CallRow
  <2>5. \A q \in Runs \ {r} : reservation'[q] = reservation[q]
    BY <2>1 DEF ReserveTx, TablesOK, ReservationsOK
  <2>6. CallsOK'
    BY <1>5, <2>4, <2>5 DEF ReserveBudget, CallsOK
  <2> QED BY <1>5, <2>2, <2>6 DEF ReserveBudget, OthersOK
<1>6. ASSUME NEW r \in Runs, ReserveFails(r) PROVE BudgetIInv'
  <2> DEFINE c == [call[r] EXCEPT !.stage = "over"]
  <2>1. CallOK(c, reservation[r]) /\ c \in CallRow
    BY DEF CallsOK, CallOK, CallRow
  <2>2. CallsOK'
    BY <1>6, <2>1 DEF CallsOK, ReserveFails
  <2> QED BY <1>0, <1>6, <2>2 DEF ReserveFails, OthersOK
<1>7. ASSUME NEW r \in Runs, NEW actual \in Actuals, CommitReservationWithUsage(r, actual)
      PROVE  BudgetIInv'
  <2>1. TablesOK'
    BY <1>7, CommitKeepsTables DEF CommitReservationWithUsage
  <2>2. \A q \in Runs : reservation'[q].status # "none" => reservation[q].status # "none"
    BY <1>7 DEF CommitReservationWithUsage, CommitTx, Charge, TablesOK, ReservationsOK
  <2>3. CallsOK'
    BY <1>7, <2>2 DEF CommitReservationWithUsage, CallsOK, CallOK
  <2> QED BY <1>7, <2>1, <2>3 DEF CommitReservationWithUsage, OthersOK
<1>8. ASSUME NEW r \in Runs, ReleaseReservation(r) PROVE BudgetIInv'
  <2>1. TablesOK'
    BY <1>8, ReleaseKeepsTables DEF ReleaseReservation
  <2>2. \A q \in Runs : reservation'[q].status # "none" => reservation[q].status # "none"
    BY <1>8 DEF ReleaseReservation, ReleaseTx, TablesOK, ReservationsOK
  <2>3. CallsOK'
    BY <1>8, <2>2 DEF ReleaseReservation, CallsOK, CallOK
  <2> QED BY <1>8, <2>1, <2>3 DEF ReleaseReservation, OthersOK
<1>9. ASSUME NEW r \in Runs, ExhaustedRead(r) PROVE BudgetIInv'
  <2>1. RowAfterExhausted(agent) \in SUBSET AgentStatus
    BY DEF RowAfterExhausted, OthersOK, AgentStatus
  <2> QED BY <1>0, <1>9, <2>1 DEF ExhaustedRead, CallsOK, OthersOK
<1>10. ASSUME NEW status \in AgentStatus, ExhaustedSave(status) PROVE BudgetIInv'
  BY <1>0, <1>10 DEF ExhaustedSave, CallsOK, OthersOK
<1>11. CASE ExhaustedLost
  BY <1>0, <1>11 DEF ExhaustedLost, CallsOK, OthersOK
<1>12. CASE UNCHANGED budgetVars
  BY <1>0, <1>12 DEF budgetVars, CallsOK, OthersOK
<1> QED BY <1>1, <1>2, <1>3, <1>4, <1>5, <1>6, <1>7, <1>8, <1>9, <1>10, <1>11, <1>12
        DEF BudgetNext

LEMMA BudgetInvariant == BudgetSpec => []BudgetIInv
<1>1. BudgetInit => BudgetIInv
  BY BudgetIInvInit
<1>2. BudgetIInv /\ [BudgetNext]_budgetVars => BudgetIInv'
  BY BudgetIInvStep
<1> QED BY <1>1, <1>2, PTL DEF BudgetSpec

-----------------------------------------------------------------------------
(* What follows from it. *)

\* Every row of the budget tables stays of its type; no counter goes below zero.
THEOREM BudgetTypeCorrect == BudgetSpec => []BudgetTypeOK
<1>1. BudgetIInv => BudgetTypeOK
  BY DEF BudgetIInv, TablesOK, WindowsOK, ReservationsOK, CallsOK, OthersOK, BudgetTypeOK
<1> QED BY <1>1, BudgetInvariant, PTL

\* The status of a window tells whether its money is spent, after any order of
\* reservations, commits, releases and policy syncs.
THEOREM ExhaustedWhenSpentHolds == BudgetSpec => []ExhaustedWhenSpent
<1>1. BudgetIInv => ExhaustedWhenSpent
  BY DEF BudgetIInv, TablesOK, WindowsOK, WindowOK, ExhaustedWhenSpent
<1> QED BY <1>1, BudgetInvariant, PTL

\* No commit leaves a charge without its usage event or a usage event without its charge.
THEOREM UsageOfChargedHolds == BudgetSpec => []UsageOfCharged
<1>1. BudgetIInv => UsageOfCharged
  BY DEF BudgetIInv, TablesOK, ReservationsOK, ReservationOK, ReservationRow, UsageOfCharged
<1> QED BY <1>1, BudgetInvariant, PTL

\* A retried commit never charges a window twice and nothing charged is given back.
THEOREM ChargedOnceHolds == BudgetSpec => ChargedOnce
<1>1. BudgetIInv /\ [BudgetNext]_budgetVars =>
        [\A r \in Runs : reservation[r].status \in {"committed", "over_budget"}
           => reservation'[r].committed = reservation[r].committed
              /\ window'[reservation[r].month].committed
                   >= window[reservation[r].month].committed]_budgetVars
  <2> SUFFICES ASSUME BudgetIInv, BudgetNext,
                      NEW r \in Runs, reservation[r].status \in {"committed", "over_budget"}
               PROVE  /\ reservation'[r].committed = reservation[r].committed
                      /\ window'[reservation[r].month].committed
                           >= window[reservation[r].month].committed
    OBVIOUS
  <2> DEFINE n == reservation[r].month
  <2>1. /\ n \in Months /\ window[n] \in WindowRow /\ window[n].committed \in Nat
        /\ reservation[r] \in ReservationRow /\ call[r].stage = "over"
    BY DEF BudgetIInv, TablesOK, WindowsOK, ReservationsOK, ReservationOK, CallsOK, CallOK, WindowRow
  <2>2. ASSUME UNCHANGED <<window, reservation>>
        PROVE  reservation'[r].committed = reservation[r].committed
               /\ window'[n].committed >= window[n].committed
    BY <2>1, <2>2
  <2>3. ASSUME NEW q \in Runs, ReserveWindow(q)
        PROVE  reservation'[r].committed = reservation[r].committed
               /\ window'[n].committed >= window[n].committed
    <3>1. \A m \in Months : OpenWindow(m, call[q].limit).committed = window[m].committed
      BY DEF OpenWindow, BudgetIInv, TablesOK, WindowsOK, WindowOK
    <3> QED BY <2>1, <2>3, <3>1 DEF ReserveWindow, BudgetIInv, TablesOK, WindowsOK
  <2>4. ASSUME NEW q \in Runs, ReserveBudget(q)
        PROVE  reservation'[r].committed = reservation[r].committed
               /\ window'[n].committed >= window[n].committed
    BY <2>1, <2>4 DEF ReserveBudget, ReserveTx, BudgetIInv, TablesOK, WindowsOK, WindowRow, ReservationsOK
  <2>5. ASSUME NEW q \in Runs, ReleaseReservation(q)
        PROVE  reservation'[r].committed = reservation[r].committed
               /\ window'[n].committed >= window[n].committed
    BY <2>1, <2>5 DEF ReleaseReservation, ReleaseTx, BudgetIInv, TablesOK, WindowsOK, WindowRow,
       ReservationsOK, ReservationRow
  <2>6. ASSUME NEW q \in Runs, NEW actual \in Actuals, CommitReservationWithUsage(q, actual)
        PROVE  reservation'[r].committed = reservation[r].committed
               /\ window'[n].committed >= window[n].committed
    <3>1. CASE UNCHANGED <<window, reservation>>
      BY <2>2, <3>1
    <3>2. CASE reservation[q].status = "reserved" /\ Charge(q, actual)
      <4>1. reservation'[r] = reservation[r]
        BY <3>2 DEF Charge, BudgetIInv, TablesOK, ReservationsOK
      <4>2. actual \in Nat
        BY BudgetAssumption
      <4>3. window'[n].committed \in {window[n].committed, window[n].committed + actual}
        BY <2>1, <3>2 DEF Charge, BudgetIInv, TablesOK, WindowsOK, WindowRow
      <4> QED BY <2>1, <4>1, <4>2, <4>3
    <3> QED BY <2>6, <3>1, <3>2 DEF CommitReservationWithUsage, CommitTx
  <2> QED
    BY <2>2, <2>3, <2>4, <2>5, <2>6
    DEF BudgetNext, SyncBudgetPolicies, NextMonth, ReservePolicy, ReserveFails, ExhaustedRead,
        ExhaustedSave, ExhaustedLost
<1> QED BY <1>1, BudgetInvariant, PTL DEF BudgetSpec, ChargedOnce
-----------------------------------------------------------------------------
(* Totals. *)

\* Changing one entry of a table changes its total by as much.
LEMMA TotalOfChange ==
  ASSUME NEW S, NEW f \in [S -> Nat], NEW g \in [S -> Nat], NEW x \in S,
         \A y \in S \ {x} : g[y] = f[y], IsFiniteSet(Coins(f))
  PROVE  /\ IsFiniteSet(Coins(g))
         /\ Total(f) \in Nat /\ Total(g) \in Nat
         /\ Total(g) + f[x] = Total(f) + g[x]
<1> DEFINE others == {c \in Coins(f) : c[1] # x}
           own(n) == {x} \X (1 .. n)
<1>1. \A n \in Nat : /\ IsFiniteSet(own(n)) /\ Cardinality(own(n)) = n
  <2> TAKE n \in Nat
  <2>1. IsFiniteSet(1 .. n) /\ Cardinality(1 .. n) = n
    <3>1. 1 \in Int /\ n \in Int /\ (IF 1 > n THEN 0 ELSE n - 1 + 1) = n
      OBVIOUS
    <3> HIDE DEF own
    <3> QED BY <3>1, FS_Interval
  <2>2. IsFiniteSet({x}) /\ Cardinality({x}) = 1
    BY FS_Singleton
  <2>3. IsFiniteSet(own(n)) /\ Cardinality(own(n)) = 1 * n
    BY <2>1, <2>2, FS_Product
  <2> HIDE DEF own
  <2> QED BY <2>3
<1>2. f[x] \in Nat /\ g[x] \in Nat
  OBVIOUS
<1>3. Coins(f) = others \cup own(f[x]) /\ others \cap own(f[x]) = {}
  BY DEF Coins
<1>4. Coins(g) = others \cup own(g[x]) /\ others \cap own(g[x]) = {}
  BY DEF Coins
<1>5. IsFiniteSet(others)
  BY FS_Subset
<1> HIDE DEF others, own
<1>6. Cardinality(others) \in Nat /\ Cardinality({}) = 0
  BY <1>5, FS_EmptySet, FS_CardinalityType
<1>7. ASSUME NEW n \in Nat, others \cap own(n) = {}
      PROVE  /\ IsFiniteSet(others \cup own(n))
             /\ Cardinality(others \cup own(n)) = Cardinality(others) + n
  <2>1. IsFiniteSet(own(n)) /\ Cardinality(own(n)) = n
    BY <1>1
  <2>2. /\ IsFiniteSet(others \cup own(n))
        /\ Cardinality(others \cup own(n))
             = Cardinality(others) + Cardinality(own(n)) - Cardinality(others \cap own(n))
    BY <1>5, <2>1, FS_Union
  <2>3. Cardinality(others \cap own(n)) = 0
    BY <1>6, <1>7
  <2> QED BY <1>6, <2>1, <2>2, <2>3
<1>8. Total(f) = Cardinality(others) + f[x]
  BY <1>2, <1>3, <1>7 DEF Total
<1>9. IsFiniteSet(Coins(g)) /\ Total(g) = Cardinality(others) + g[x]
  BY <1>2, <1>4, <1>7 DEF Total
<1> QED BY <1>2, <1>6, <1>8, <1>9

\* Nothing adds up to nothing.
LEMMA TotalOfNothing ==
  ASSUME NEW f, \A x \in DOMAIN f : f[x] = 0
  PROVE  IsFiniteSet(Coins(f)) /\ Total(f) = 0
<1>1. Coins(f) = {}
  BY DEF Coins
<1> QED BY <1>1, FS_EmptySet DEF Total

-----------------------------------------------------------------------------
(* The books of a month. *)

\* What a run counts for in the ledger.
TakenBy(m) == [r \in Runs |->
  Booked(r, m, IF reservation[r].status = "reserved" THEN reservation[r].estimated
               ELSE reservation[r].committed)]

\* A sum over the runs is a number because only finitely many rows hold money.
Finite(m) ==
  /\ IsFiniteSet(Coins(HeldBy(m))) /\ IsFiniteSet(Coins(SpentBy(m)))
  /\ IsFiniteSet(Coins(OverrunBy(m))) /\ IsFiniteSet(Coins(TakenBy(m)))

Balanced(m) ==
  /\ window[m].reserved = Total(HeldBy(m)) /\ window[m].committed = Total(SpentBy(m))
  /\ window[m].reserved + window[m].committed = Total(TakenBy(m))
  /\ window[m].reserved + window[m].committed <= window[m].hard + Total(OverrunBy(m))

BooksOK == \A m \in Months : Finite(m) /\ Balanced(m)

LEMMA BooksType ==
  ASSUME TablesOK, NEW m
  PROVE  /\ HeldBy(m) \in [Runs -> Nat] /\ SpentBy(m) \in [Runs -> Nat]
         /\ OverrunBy(m) \in [Runs -> Nat] /\ TakenBy(m) \in [Runs -> Nat]
<1>1. \A r \in Runs : /\ reservation[r].estimated \in Nat /\ reservation[r].committed \in Nat
                      /\ Overrun(reservation[r]) \in Nat
  BY DEF TablesOK, ReservationsOK, ReservationRow, Overrun
<1> QED BY <1>1 DEF HeldBy, SpentBy, OverrunBy, TakenBy, Booked

\* A step that changes the row of one run changes each sum by what that run counts for.
LEMMA OneRowChanges ==
  ASSUME TablesOK, TablesOK', NEW r \in Runs, NEW m, Finite(m),
         \A q \in Runs \ {r} : reservation'[q] = reservation[q]
  PROVE  /\ Finite(m)'
         /\ {Total(HeldBy(m)), Total(SpentBy(m)), Total(OverrunBy(m)), Total(TakenBy(m))} \subseteq Nat
         /\ {Total(HeldBy(m)'), Total(SpentBy(m)'), Total(OverrunBy(m)'), Total(TakenBy(m)')} \subseteq Nat
         /\ Total(HeldBy(m)') + HeldBy(m)[r] = Total(HeldBy(m)) + HeldBy(m)'[r]
         /\ Total(SpentBy(m)') + SpentBy(m)[r] = Total(SpentBy(m)) + SpentBy(m)'[r]
         /\ Total(OverrunBy(m)') + OverrunBy(m)[r] = Total(OverrunBy(m)) + OverrunBy(m)'[r]
         /\ Total(TakenBy(m)') + TakenBy(m)[r] = Total(TakenBy(m)) + TakenBy(m)'[r]
<1>1. /\ HeldBy(m) \in [Runs -> Nat] /\ SpentBy(m) \in [Runs -> Nat]
      /\ OverrunBy(m) \in [Runs -> Nat] /\ TakenBy(m) \in [Runs -> Nat]
  BY BooksType
<1>2. /\ HeldBy(m)' \in [Runs -> Nat] /\ SpentBy(m)' \in [Runs -> Nat]
      /\ OverrunBy(m)' \in [Runs -> Nat] /\ TakenBy(m)' \in [Runs -> Nat]
  <2>1. \A q \in Runs : /\ reservation'[q].estimated \in Nat /\ reservation'[q].committed \in Nat
                        /\ Overrun(reservation'[q]) \in Nat
    BY DEF TablesOK, ReservationsOK, ReservationRow, Overrun
  <2> QED BY <2>1 DEF HeldBy, SpentBy, OverrunBy, TakenBy, Booked
<1>3. \A q \in Runs \ {r} : /\ HeldBy(m)'[q] = HeldBy(m)[q] /\ SpentBy(m)'[q] = SpentBy(m)[q]
                            /\ OverrunBy(m)'[q] = OverrunBy(m)[q] /\ TakenBy(m)'[q] = TakenBy(m)[q]
  BY DEF HeldBy, SpentBy, OverrunBy, TakenBy, Booked
<1> DEFINE Changes(f, g) ==
             /\ IsFiniteSet(Coins(g)) /\ Total(f) \in Nat /\ Total(g) \in Nat
             /\ Total(g) + f[r] = Total(f) + g[r]
<1>4. \A f \in [Runs -> Nat], g \in [Runs -> Nat] :
        (\A q \in Runs \ {r} : g[q] = f[q]) /\ IsFiniteSet(Coins(f)) => Changes(f, g)
  BY TotalOfChange
<1> HIDE DEF Changes
<1>5. /\ Changes(HeldBy(m), HeldBy(m)') /\ Changes(SpentBy(m), SpentBy(m)')
      /\ Changes(OverrunBy(m), OverrunBy(m)') /\ Changes(TakenBy(m), TakenBy(m)')
  BY <1>1, <1>2, <1>3, <1>4 DEF Finite
<1> QED BY <1>5 DEF Changes, Finite

\* What the row of a run counts for in each sum of a month, by its status.
Counts(r, m) ==
  LET row == reservation[r] IN
  /\ row.month # m \/ row.status = "none" =>
       HeldBy(m)[r] = 0 /\ SpentBy(m)[r] = 0 /\ OverrunBy(m)[r] = 0 /\ TakenBy(m)[r] = 0
  /\ row.month = m /\ row.status = "reserved" =>
       /\ HeldBy(m)[r] = row.estimated /\ SpentBy(m)[r] = 0
       /\ OverrunBy(m)[r] = 0 /\ TakenBy(m)[r] = row.estimated
  /\ row.month = m /\ row.status \notin {"none", "reserved"} =>
       /\ HeldBy(m)[r] = 0 /\ SpentBy(m)[r] = row.committed
       /\ OverrunBy(m)[r] = Overrun(row) /\ TakenBy(m)[r] = row.committed

LEMMA RowCounts == TablesOK => \A r \in Runs, m \in Months : Counts(r, m)
<1> SUFFICES ASSUME TablesOK, NEW r \in Runs, NEW m \in Months PROVE Counts(r, m)
  OBVIOUS
<1>1. /\ reservation[r] \in ReservationRow
      /\ reservation[r].status \in {"none", "reserved"} => reservation[r].committed = 0
  BY DEF TablesOK, ReservationsOK, ReservationOK
<1>2. reservation[r].committed = 0 => Overrun(reservation[r]) = 0
  BY <1>1 DEF Overrun, ReservationRow
<1> QED BY <1>1, <1>2 DEF Counts, HeldBy, SpentBy, OverrunBy, TakenBy, Booked

LEMMA RowCountsNext == TablesOK' => \A r \in Runs, m \in Months : Counts(r, m)'
<1>1. TablesOK' => (\A r \in Runs, m \in Months : Counts(r, m))'
  BY RowCounts, PTL
<1> QED BY <1>1

LEMMA WindowNumbers ==
  TablesOK => \A m \in Months : /\ window[m] \in WindowRow
                                  /\ window[m].reserved \in Nat /\ window[m].committed \in Nat
                                  /\ window[m].hard \in Nat
<1>1. HardLimits \cup {0} \subseteq Nat
  BY BudgetAssumption
<1> QED BY <1>1 DEF TablesOK, WindowsOK, WindowRow

LEMMA WindowNumbersNext ==
  TablesOK' => \A m \in Months : /\ window'[m] \in WindowRow
                                   /\ window'[m].reserved \in Nat /\ window'[m].committed \in Nat
                                   /\ window'[m].hard \in Nat
<1>1. HardLimits \cup {0} \subseteq Nat
  BY BudgetAssumption
<1> QED BY <1>1 DEF TablesOK, WindowsOK, WindowRow

\* A step that leaves the reservations and what the windows hold leaves the books.
LEMMA SameBooks ==
  ASSUME TablesOK, TablesOK', BooksOK, UNCHANGED reservation,
         \A m \in Months : /\ window'[m].reserved = window[m].reserved
                           /\ window'[m].committed = window[m].committed
                           /\ window'[m].hard >= window[m].hard
  PROVE  BooksOK'
<1> SUFFICES ASSUME NEW m \in Months PROVE Finite(m)' /\ Balanced(m)'
  BY DEF BooksOK
<1>1. /\ HeldBy(m)' = HeldBy(m) /\ SpentBy(m)' = SpentBy(m)
      /\ OverrunBy(m)' = OverrunBy(m) /\ TakenBy(m)' = TakenBy(m)
  BY DEF HeldBy, SpentBy, OverrunBy, TakenBy, Booked
<1>2. Finite(m) /\ Balanced(m)
  BY DEF BooksOK
<1>3. Finite(m)'
  BY <1>1, <1>2 DEF Finite
<1>4. /\ window[m].reserved \in Nat /\ window[m].committed \in Nat
      /\ window[m].hard \in Nat /\ window'[m].hard \in Nat
  BY WindowNumbers, WindowNumbersNext
<1>5. Total(OverrunBy(m)) \in Nat
  BY <1>2, FS_CardinalityType DEF Finite, Total
<1>6. Balanced(m)'
  BY <1>1, <1>2, <1>4, <1>5 DEF Balanced
<1> QED BY <1>3, <1>6

\* The two counters of a row are replaced.
LEMMA ChargedRow ==
  ASSUME NEW win \in WindowRow, NEW a \in Nat, NEW b \in Nat
  PROVE  [win EXCEPT !.reserved = a, !.committed = b]
           = [status |-> win.status, hard |-> win.hard, reserved |-> a, committed |-> b]
<1>1. ASSUME NEW c, c = [win EXCEPT !.reserved = a, !.committed = b]
      PROVE  c = [status |-> win.status, hard |-> win.hard, reserved |-> a, committed |-> b]
  BY <1>1 DEF WindowRow
<1> DEFINE c == [win EXCEPT !.reserved = a, !.committed = b]
<1>2. c = [win EXCEPT !.reserved = a, !.committed = b]
  OBVIOUS
<1> HIDE DEF c
<1>3. c = [status |-> win.status, hard |-> win.hard, reserved |-> a, committed |-> b]
  BY <1>1, <1>2
<1> QED BY <1>3 DEF c

LEMMA OpenKeepsBooks ==
  ASSUME TablesOK, TablesOK', BooksOK, NEW n \in Months, NEW limit \in HardLimits,
         window' = [window EXCEPT ![n] = OpenWindow(n, limit)], UNCHANGED reservation
  PROVE  BooksOK'
<1>0. \A m \in Months : /\ window[m] \in WindowRow /\ window'[m] \in WindowRow
                        /\ window[m].reserved \in Nat /\ window[m].committed \in Nat
                        /\ window[m].hard \in Nat /\ window'[m].hard \in Nat
  BY WindowNumbers, WindowNumbersNext
<1>1. \A m \in Months : LET win == OpenWindow(m, limit) IN
        /\ win.reserved = window[m].reserved /\ win.committed = window[m].committed
        /\ win.hard >= window[m].hard
  BY <1>0, BudgetAssumption DEF OpenWindow, TablesOK, WindowsOK, WindowOK
<1>2. \A m \in Months : /\ window'[m].reserved = window[m].reserved
                        /\ window'[m].committed = window[m].committed
                        /\ window'[m].hard >= window[m].hard
  BY <1>0, <1>1 DEF TablesOK, WindowsOK
<1> QED BY <1>2, SameBooks

LEMMA ReserveKeepsBooks ==
  ASSUME TablesOK, TablesOK', BooksOK, NEW r \in Runs, NEW n \in Months, NEW amount \in Nat,
         ReserveTx(r, n, amount), reservation[r].status = "none"
  PROVE  BooksOK'
<1>0. \A m \in Months : /\ window[m] \in WindowRow /\ window'[m] \in WindowRow
                        /\ window[m].reserved \in Nat /\ window[m].committed \in Nat
                        /\ window[m].hard \in Nat /\ window'[m].hard \in Nat
  BY WindowNumbers, WindowNumbersNext
<1>1. /\ n \in Months /\ amount \in Nat
      /\ reservation[r].status = "none"
      /\ window[n].committed + window[n].reserved + amount <= window[n].hard
      /\ window' = [window EXCEPT ![n].reserved = @ + amount]
      /\ reservation' = [reservation EXCEPT ![r] =
           [status |-> "reserved", month |-> n, estimated |-> amount, committed |-> 0]]
  BY DEF ReserveTx
<1>2. \A q \in Runs \ {r} : reservation'[q] = reservation[q]
  BY <1>1 DEF TablesOK, ReservationsOK
<1>3. /\ reservation'[r].status = "reserved" /\ reservation'[r].month = n
      /\ reservation'[r].estimated = amount
  BY <1>1 DEF TablesOK, ReservationsOK
<1> SUFFICES ASSUME NEW m \in Months PROVE Finite(m)' /\ Balanced(m)'
  BY DEF BooksOK
<1>4. Finite(m) /\ Balanced(m)
  BY DEF BooksOK
<1>5. HeldBy(m)[r] = 0 /\ SpentBy(m)[r] = 0 /\ OverrunBy(m)[r] = 0 /\ TakenBy(m)[r] = 0
  BY <1>1, RowCounts DEF Counts
<1>6. CASE m = n
  <2>1. /\ HeldBy(m)'[r] = amount /\ SpentBy(m)'[r] = 0
        /\ OverrunBy(m)'[r] = 0 /\ TakenBy(m)'[r] = amount
    BY <1>3, <1>6, RowCountsNext DEF Counts
  <2>2. /\ window'[m].reserved = window[m].reserved + amount
        /\ window'[m].committed = window[m].committed /\ window'[m].hard = window[m].hard
    BY <1>0, <1>1, <1>6 DEF TablesOK, WindowsOK, WindowRow
  <2> QED BY <1>0, <1>1, <1>2, <1>4, <1>5, <1>6, <2>1, <2>2, OneRowChanges DEF Balanced
<1>7. CASE m # n
  <2>1. HeldBy(m)'[r] = 0 /\ SpentBy(m)'[r] = 0 /\ OverrunBy(m)'[r] = 0 /\ TakenBy(m)'[r] = 0
    BY <1>3, <1>7, RowCountsNext DEF Counts
  <2>2. /\ window'[m].reserved = window[m].reserved
        /\ window'[m].committed = window[m].committed /\ window'[m].hard = window[m].hard
    BY <1>1, <1>7 DEF TablesOK, WindowsOK
  <2> QED BY <1>0, <1>1, <1>2, <1>4, <1>5, <2>1, <2>2, OneRowChanges DEF Balanced
<1> QED BY <1>6, <1>7

LEMMA CommitKeepsBooks ==
  ASSUME TablesOK, TablesOK', BooksOK, NEW r \in Runs, NEW actual \in Actuals, CommitTx(r, actual)
  PROVE  BooksOK'
<1>0. \A m \in Months : /\ window[m] \in WindowRow /\ window'[m] \in WindowRow
                        /\ window[m].reserved \in Nat /\ window[m].committed \in Nat
                        /\ window[m].hard \in Nat /\ window'[m].hard \in Nat
  BY WindowNumbers, WindowNumbersNext
<1>1. CASE UNCHANGED <<window, reservation>>
  BY <1>1 DEF BooksOK, Finite, Balanced, HeldBy, SpentBy, OverrunBy, TakenBy, Booked
<1>2. CASE /\ reservation[r].status = "reserved" /\ Charge(r, actual)
           /\ window[reservation[r].month].reserved >= reservation[r].estimated
  <2> DEFINE old == reservation[r]
             n == old.month
             charged == [window[n] EXCEPT !.reserved = @ - old.estimated, !.committed = @ + actual]
  <2>1. /\ n \in Months /\ old.estimated \in Nat /\ actual \in Nat /\ old \in ReservationRow
    BY <1>2, BudgetAssumption DEF TablesOK, ReservationsOK, ReservationOK, ReservationRow
  <2>2. /\ reservation' = [reservation EXCEPT ![r] = CommitAmount(old, actual)]
        /\ window' = [window EXCEPT ![n] = [charged EXCEPT !.status = WindowStatusAfterCommit(charged)]]
    BY <1>2 DEF Charge
  <2>3. \A q \in Runs \ {r} : reservation'[q] = reservation[q]
    BY <2>2 DEF TablesOK, ReservationsOK
  <2>4. /\ reservation'[r].status \notin {"none", "reserved"} /\ reservation'[r].month = n
        /\ reservation'[r].estimated = old.estimated /\ reservation'[r].committed = actual
    BY <2>2 DEF TablesOK, ReservationsOK, CommitAmount
  <2>5. /\ Overrun(reservation'[r]) \in Nat
        /\ Overrun(reservation'[r]) >= actual - old.estimated
    BY <2>1, <2>4 DEF Overrun
  <2>6. \A m \in Months \ {n} : window'[m] = window[m]
    BY <2>2 DEF TablesOK, WindowsOK
  <2>7. /\ window'[n].reserved = window[n].reserved - old.estimated
        /\ window'[n].committed = window[n].committed + actual
        /\ window'[n].hard = window[n].hard
    <3>1. charged = [status |-> window[n].status, hard |-> window[n].hard,
                     reserved |-> window[n].reserved - old.estimated,
                     committed |-> window[n].committed + actual]
      <4>1. /\ window[n] \in WindowRow /\ window[n].reserved - old.estimated \in Nat
            /\ window[n].committed + actual \in Nat
        BY <1>0, <1>2, <2>1
      <4> QED BY <4>1, ChargedRow
    <3>2. window'[n] = [charged EXCEPT !.status = WindowStatusAfterCommit(charged)]
      BY <2>1, <2>2 DEF TablesOK, WindowsOK
    <3> QED BY <3>1, <3>2
  <2> SUFFICES ASSUME NEW m \in Months PROVE Finite(m)' /\ Balanced(m)'
    BY DEF BooksOK
  <2>8. Finite(m) /\ Balanced(m)
    BY DEF BooksOK
  <2> HIDE DEF old, n, charged
  <2>9. CASE m = n
    <3>1. HeldBy(m)[r] = old.estimated /\ SpentBy(m)[r] = 0 /\ OverrunBy(m)[r] = 0
          /\ TakenBy(m)[r] = old.estimated
      BY <1>2, <2>9, RowCounts DEF Counts, old, n
    <3>2. HeldBy(m)'[r] = 0 /\ SpentBy(m)'[r] = actual
          /\ OverrunBy(m)'[r] = Overrun(reservation'[r]) /\ TakenBy(m)'[r] = actual
      BY <2>4, <2>9, RowCountsNext DEF Counts
    <3>3. /\ Finite(m)'
          /\ Total(HeldBy(m)') \in Nat /\ Total(TakenBy(m)') \in Nat
          /\ Total(OverrunBy(m)) \in Nat /\ Total(OverrunBy(m)') \in Nat
          /\ Total(HeldBy(m)') + old.estimated = Total(HeldBy(m))
          /\ Total(SpentBy(m)') = Total(SpentBy(m)) + actual
          /\ Total(OverrunBy(m)') = Total(OverrunBy(m)) + Overrun(reservation'[r])
          /\ Total(TakenBy(m)') + old.estimated = Total(TakenBy(m)) + actual
      BY <2>1, <2>3, <2>5, <2>8, <3>1, <3>2, OneRowChanges
    <3>4. /\ window[m].reserved = Total(HeldBy(m)) /\ window[m].committed = Total(SpentBy(m))
          /\ window[m].reserved + window[m].committed = Total(TakenBy(m))
          /\ window[m].reserved + window[m].committed <= window[m].hard + Total(OverrunBy(m))
      BY <2>8 DEF Balanced
    <3>5. /\ window'[m].reserved = window[m].reserved - old.estimated
          /\ window'[m].committed = window[m].committed + actual
          /\ window'[m].hard = window[m].hard
      BY <2>7, <2>9
    <3> DEFINE held == Total(HeldBy(m)')
               taken == Total(TakenBy(m)')
    <3>6. /\ window'[m].reserved = held
          /\ window'[m].committed = Total(SpentBy(m)')
          /\ window'[m].reserved + window'[m].committed = taken
      <4>1. held \in Nat /\ taken \in Nat /\ old.estimated \in Int /\ actual \in Int
            /\ window[m].reserved \in Int /\ window[m].committed \in Int
        BY <1>0, <2>1, <3>3
      <4>2. held + old.estimated = window[m].reserved
            /\ taken + old.estimated = window[m].reserved + window[m].committed + actual
        BY <3>3, <3>4
      <4>3. window'[m].committed = Total(SpentBy(m)')
        BY <3>3, <3>4, <3>5
      <4> HIDE DEF held, taken
      <4>4. window[m].reserved - old.estimated = held
        BY <4>1, <4>2
      <4>5. (window[m].reserved - old.estimated) + (window[m].committed + actual) = taken
        BY <4>1, <4>2
      <4> QED BY <4>3, <4>4, <4>5, <3>5
    <3>7. window'[m].reserved + window'[m].committed <= window'[m].hard + Total(OverrunBy(m)')
      BY <1>0, <2>1, <2>5, <3>3, <3>4, <3>5
    <3> QED BY <3>3, <3>6, <3>7 DEF Balanced
  <2>10. CASE m # n
    <3>1. HeldBy(m)[r] = 0 /\ SpentBy(m)[r] = 0 /\ OverrunBy(m)[r] = 0 /\ TakenBy(m)[r] = 0
      BY <2>10, RowCounts DEF Counts, old, n
    <3>2. HeldBy(m)'[r] = 0 /\ SpentBy(m)'[r] = 0 /\ OverrunBy(m)'[r] = 0 /\ TakenBy(m)'[r] = 0
      BY <2>4, <2>10, RowCountsNext DEF Counts
    <3>3. /\ window'[m].reserved = window[m].reserved
          /\ window'[m].committed = window[m].committed /\ window'[m].hard = window[m].hard
      BY <2>6, <2>10
    <3> QED BY <1>0, <2>3, <2>8, <3>1, <3>2, <3>3, OneRowChanges DEF Balanced
  <2> QED BY <2>9, <2>10
<1> QED BY <1>1, <1>2 DEF CommitTx

LEMMA ReleaseKeepsBooks ==
  ASSUME TablesOK, TablesOK', BooksOK, NEW r \in Runs, ReleaseTx(r)
  PROVE  BooksOK'
<1>0. \A m \in Months : /\ window[m] \in WindowRow /\ window'[m] \in WindowRow
                        /\ window[m].reserved \in Nat /\ window[m].committed \in Nat
                        /\ window[m].hard \in Nat /\ window'[m].hard \in Nat
  BY WindowNumbers, WindowNumbersNext
<1> DEFINE old == reservation[r]
           n == old.month
           back == ReleaseAmount(old)
<1>1. /\ old.status \in {"reserved", "over_budget"} /\ old \in ReservationRow /\ n \in Months
      /\ back \in Nat
      /\ window' = [window EXCEPT ![n].reserved = IF @ >= back THEN @ - back ELSE @]
      /\ reservation' = [reservation EXCEPT ![r].status = "released"]
  BY DEF ReleaseTx, ReleaseAmount, TablesOK, ReservationsOK, ReservationOK, ReservationRow
<1>2. \A q \in Runs \ {r} : reservation'[q] = reservation[q]
  BY <1>1 DEF TablesOK, ReservationsOK
<1>3. /\ reservation'[r].status = "released" /\ reservation'[r].month = n
      /\ reservation'[r].estimated = old.estimated /\ reservation'[r].committed = old.committed
  BY <1>1 DEF TablesOK, ReservationsOK, ReservationRow
<1>4. /\ old.estimated \in Nat /\ old.committed \in Nat
      /\ old.status = "reserved" => back = old.estimated /\ old.committed = 0
      /\ old.status = "over_budget" => back = 0
  BY <1>1 DEF TablesOK, ReservationsOK, ReservationOK, ReservationRow, ReleaseAmount
<1>5. /\ Overrun(reservation'[r]) = Overrun(old)
      /\ old.committed = 0 => Overrun(old) = 0
  BY <1>3, <1>4 DEF Overrun
<1>6. \A m \in Months \ {n} : window'[m] = window[m]
  BY <1>1 DEF TablesOK, WindowsOK
<1>7. /\ window'[n].reserved = IF window[n].reserved >= back THEN window[n].reserved - back
                               ELSE window[n].reserved
      /\ window'[n].committed = window[n].committed /\ window'[n].hard = window[n].hard
  <2>1. n \in DOMAIN window /\ window[n] \in WindowRow
    BY <1>0, <1>1 DEF TablesOK, WindowsOK
  <2>2. window'[n] = [window[n] EXCEPT !.reserved = IF @ >= back THEN @ - back ELSE @]
    BY <1>1, <2>1
  <2> HIDE DEF old, n, back
  <2> QED BY <2>1, <2>2 DEF WindowRow
<1> SUFFICES ASSUME NEW m \in Months PROVE Finite(m)' /\ Balanced(m)'
  BY DEF BooksOK
<1>8. Finite(m) /\ Balanced(m)
  BY DEF BooksOK
<1> HIDE DEF old, n, back
<1>9. CASE m = n
  <2>1. HeldBy(m)[r] = back /\ SpentBy(m)[r] = old.committed
        /\ OverrunBy(m)[r] = Overrun(old) /\ TakenBy(m)[r] = back + old.committed
    BY <1>1, <1>4, <1>5, <1>9, RowCounts DEF Counts, old, n
  <2>2. HeldBy(m)'[r] = 0 /\ SpentBy(m)'[r] = old.committed
        /\ OverrunBy(m)'[r] = Overrun(old) /\ TakenBy(m)'[r] = old.committed
    BY <1>3, <1>5, <1>9, RowCountsNext DEF Counts
  <2>3. OverrunBy(m)[r] \in Nat
    BY BooksType
  <2> QED BY <1>0, <1>1, <1>2, <1>4, <1>7, <1>8, <1>9, <2>1, <2>2, <2>3, OneRowChanges DEF Balanced
<1>10. CASE m # n
  <2>1. HeldBy(m)[r] = 0 /\ SpentBy(m)[r] = 0 /\ OverrunBy(m)[r] = 0 /\ TakenBy(m)[r] = 0
    BY <1>10, RowCounts DEF Counts, old, n
  <2>2. HeldBy(m)'[r] = 0 /\ SpentBy(m)'[r] = 0 /\ OverrunBy(m)'[r] = 0 /\ TakenBy(m)'[r] = 0
    BY <1>3, <1>10, RowCountsNext DEF Counts
  <2>3. /\ window'[m].reserved = window[m].reserved
        /\ window'[m].committed = window[m].committed /\ window'[m].hard = window[m].hard
    BY <1>6, <1>10
  <2> QED BY <1>0, <1>2, <1>8, <2>1, <2>2, <2>3, OneRowChanges DEF Balanced
<1> QED BY <1>9, <1>10

LEMMA BooksStep == BudgetIInv /\ BudgetIInv' /\ BooksOK /\ [BudgetNext]_budgetVars => BooksOK'
<1> SUFFICES ASSUME BudgetIInv, BudgetIInv', BooksOK, [BudgetNext]_budgetVars PROVE BooksOK'
  OBVIOUS
<1>1. TablesOK /\ TablesOK'
  BY DEF BudgetIInv
<1>2. CASE UNCHANGED <<window, reservation>>
  BY <1>2 DEF BooksOK, Finite, Balanced, HeldBy, SpentBy, OverrunBy, TakenBy, Booked
<1>3. ASSUME NEW r \in Runs, ReserveWindow(r) PROVE BooksOK'
  <2>1. PICK n \in Months, limit \in HardLimits : n = call[r].month /\ limit = call[r].limit
    BY <1>3 DEF ReserveWindow, BudgetIInv, CallsOK, CallOK
  <2> QED BY <1>1, <1>3, <2>1, OpenKeepsBooks DEF ReserveWindow
<1>4. ASSUME NEW r \in Runs, ReserveBudget(r) PROVE BooksOK'
  <2>1. PICK n \in Months, amount \in Nat : ReserveTx(r, n, amount) /\ reservation[r].status = "none"
    BY <1>4 DEF ReserveBudget, BudgetIInv, CallsOK, CallOK
  <2> QED BY <1>1, <2>1, ReserveKeepsBooks
<1>5. ASSUME NEW r \in Runs, NEW actual \in Actuals, CommitReservationWithUsage(r, actual)
      PROVE  BooksOK'
  BY <1>1, <1>5, CommitKeepsBooks DEF CommitReservationWithUsage
<1>6. ASSUME NEW r \in Runs, ReleaseReservation(r) PROVE BooksOK'
  BY <1>1, <1>6, ReleaseKeepsBooks DEF ReleaseReservation
<1> QED
  BY <1>2, <1>3, <1>4, <1>5, <1>6
  DEF BudgetNext, SyncBudgetPolicies, NextMonth, ReservePolicy, ReserveFails, ExhaustedRead,
      ExhaustedSave, ExhaustedLost, budgetVars

\* The tables of a new database.
EmptyTables ==
  /\ window = [m \in Months |-> [status |-> "none", hard |-> 0, reserved |-> 0, committed |-> 0]]
  /\ reservation = [r \in Runs |-> NoReservation]
  /\ usage = [r \in Runs |-> NoCost]

LEMMA EmptyTablesAreOK == EmptyTables => TablesOK /\ BooksOK
<1> SUFFICES ASSUME EmptyTables PROVE TablesOK /\ BooksOK
  OBVIOUS
<1>1. TablesOK
  BY BudgetAssumption
  DEF EmptyTables, TablesOK, WindowsOK, ReservationsOK, WindowOK, ReservationOK, WindowRow,
      ReservationRow, NoReservation, Months
<1>2. ASSUME NEW m \in Months PROVE Finite(m) /\ Balanced(m)
  <2>1. /\ \A r \in Runs : /\ HeldBy(m)[r] = 0 /\ SpentBy(m)[r] = 0
                            /\ OverrunBy(m)[r] = 0 /\ TakenBy(m)[r] = 0
        /\ DOMAIN HeldBy(m) = Runs /\ DOMAIN SpentBy(m) = Runs
        /\ DOMAIN OverrunBy(m) = Runs /\ DOMAIN TakenBy(m) = Runs
    BY DEF EmptyTables, NoReservation, HeldBy, SpentBy, OverrunBy, TakenBy, Booked, Overrun
  <2>2. /\ IsFiniteSet(Coins(HeldBy(m))) /\ Total(HeldBy(m)) = 0
        /\ IsFiniteSet(Coins(SpentBy(m))) /\ Total(SpentBy(m)) = 0
        /\ IsFiniteSet(Coins(OverrunBy(m))) /\ Total(OverrunBy(m)) = 0
        /\ IsFiniteSet(Coins(TakenBy(m))) /\ Total(TakenBy(m)) = 0
    BY <2>1, TotalOfNothing
  <2>3. window[m].reserved = 0 /\ window[m].committed = 0 /\ window[m].hard = 0
    BY DEF EmptyTables
  <2> QED BY <2>2, <2>3 DEF Finite, Balanced
<1> QED BY <1>1, <1>2 DEF BooksOK

LEMMA BooksInvariant == BudgetSpec => [](BudgetIInv /\ BooksOK)
<1>1. BudgetInit => BudgetIInv /\ BooksOK
  BY BudgetIInvInit, EmptyTablesAreOK DEF BudgetInit, EmptyTables
<1>2. BudgetIInv /\ BooksOK /\ [BudgetNext]_budgetVars => (BudgetIInv /\ BooksOK)'
  BY BudgetIInvStep, BooksStep
<1> QED BY <1>1, <1>2, PTL DEF BudgetSpec

\* The counters of a window are the sums of what its reservations hold and have spent,
\* for any number of runs, whatever they retry, commit, release or abandon.
THEOREM WindowAccountsHolds == BudgetSpec => []WindowAccounts
<1>1. BooksOK => WindowAccounts
  BY DEF BooksOK, Balanced, WindowAccounts
<1> QED BY <1>1, BooksInvariant, PTL

\* However many reservations race with stale preflights, the hard limit of a window is
\* passed by no more than what runs have spent beyond their estimates.
THEOREM HardLimitHoldsAlways == BudgetSpec => []HardLimitHolds
<1>1. BooksOK => HardLimitHolds
  BY DEF BooksOK, Balanced, HardLimitHolds
<1> QED BY <1>1, BooksInvariant, PTL

-----------------------------------------------------------------------------
(* The ledger. *)

\* The abstract module counts with operators of its own instance.
LEMMA LedgerTotal == \A f : Ledger!Total(f) = Total(f)
<1>1. \A f : Ledger!Coins(f) = Coins(f)
  BY DEF Ledger!Coins, Coins
<1>2. \A S : Ledger!Cardinality(S) = Cardinality(S)
  BY DEF Ledger!Cardinality, Cardinality
<1> QED BY <1>1, <1>2 DEF Ledger!Total, Total

\* What the ledger has taken from a window is what its counters say.
LEMMA LedgerTaken ==
  ASSUME BudgetIInv, BooksOK, NEW m \in Months
  PROVE  Ledger!Taken(m) = window[m].reserved + window[m].committed
<1>1. Ledger!TakenBy(m) = TakenBy(m)
  BY DEF Ledger!TakenBy, TakenBy, Booked, LedgerRow
<1>2. Ledger!Taken(m) = Total(TakenBy(m))
  BY <1>1, LedgerTotal DEF Ledger!Taken
<1> QED BY <1>2 DEF BooksOK, Balanced

LEMMA LedgerStep ==
  BudgetIInv /\ BooksOK /\ [BudgetNext]_budgetVars => [Ledger!LedgerNext]_(Ledger!ledgerVars)
<1> SUFFICES ASSUME BudgetIInv, BooksOK, [BudgetNext]_budgetVars
             PROVE  [Ledger!LedgerNext]_(Ledger!ledgerVars)
  OBVIOUS
<1> DEFINE limits == [m \in Months |-> window[m].hard]
           rows == [r \in Runs |-> LedgerRow(reservation[r])]
<1>1. ASSUME limits' = limits, rows' = rows PROVE [Ledger!LedgerNext]_(Ledger!ledgerVars)
  BY <1>1 DEF Ledger!ledgerVars
<1>2. CASE UNCHANGED <<window, reservation>>
  BY <1>1, <1>2
<1>3. ASSUME NEW r \in Runs, ReserveWindow(r) PROVE [Ledger!LedgerNext]_(Ledger!ledgerVars)
  <2>1. PICK n \in Months, new \in HardLimits :
          UNCHANGED reservation /\ window' = [window EXCEPT ![n] = OpenWindow(n, new)]
    BY <1>3 DEF ReserveWindow, BudgetIInv, CallsOK, CallOK
  <2>2. CASE window[n].status # "none"
    <3>1. limits' = limits
      BY <2>1, <2>2 DEF OpenWindow, BudgetIInv, TablesOK, WindowsOK
    <3> QED BY <1>1, <2>1, <3>1
  <2>3. CASE window[n].status = "none"
    <3>1. limits[n] = 0 /\ new > 0
      BY <2>3, BudgetAssumption DEF BudgetIInv, TablesOK, WindowsOK, WindowOK
    <3>2. limits' = [limits EXCEPT ![n] = new]
      BY <2>1, <2>3 DEF OpenWindow, BudgetIInv, TablesOK, WindowsOK
    <3>3. rows' = rows
      BY <2>1
    <3>4. Ledger!Open(n, new)
      BY <3>1, <3>2, <3>3 DEF Ledger!Open
    <3> QED BY <3>4 DEF Ledger!LedgerNext
  <2> QED BY <2>2, <2>3
<1>4. ASSUME NEW r \in Runs, ReserveBudget(r) PROVE [Ledger!LedgerNext]_(Ledger!ledgerVars)
  <2> DEFINE n == call[r].month
             amount == call[r].estimate
             row == [status |-> "reserved", month |-> n, estimated |-> amount, committed |-> 0]
  <2>1. /\ n \in Months /\ amount \in Estimates /\ amount \in Nat /\ amount > 0
        /\ reservation[r].status = "none" /\ reservation[r].committed = 0
        /\ window[n].committed + window[n].reserved + amount <= window[n].hard
        /\ window' = [window EXCEPT ![n].reserved = @ + amount]
        /\ reservation' = [reservation EXCEPT ![r] = row]
    <3>1. /\ n \in Months /\ amount > 0 /\ reservation[r].status = "none"
          /\ call[r].estimate \in Estimates \cup {0}
      BY <1>4 DEF ReserveBudget, BudgetIInv, CallsOK, CallOK, CallRow
    <3> QED
      BY <1>4, <3>1, BudgetAssumption
      DEF ReserveBudget, ReserveTx, BudgetIInv, TablesOK, ReservationsOK, ReservationOK
  <2>2. rows[r].state = "none"
    BY <2>1 DEF LedgerRow
  <2>3. limits' = limits
    BY <2>1 DEF BudgetIInv, TablesOK, WindowsOK, WindowRow
  <2>4. rows' = [rows EXCEPT ![r] = [state |-> "held", window |-> n, amount |-> amount]]
    <3>1. LedgerRow(row) = [state |-> "held", window |-> n, amount |-> amount]
      BY DEF LedgerRow
    <3> QED BY <2>1, <3>1 DEF BudgetIInv, TablesOK, ReservationsOK
  <2>5. Ledger!Taken(n) + amount <= limits[n]
    BY <2>1, LedgerTaken, WindowNumbers DEF BudgetIInv
  <2>6. Ledger!Hold(r, n, amount)
    BY <2>1, <2>2, <2>3, <2>4, <2>5 DEF Ledger!Hold
  <2> QED BY <2>1, <2>6 DEF Ledger!LedgerNext
<1>5. ASSUME NEW r \in Runs, NEW actual \in Actuals, CommitReservationWithUsage(r, actual)
      PROVE  [Ledger!LedgerNext]_(Ledger!ledgerVars)
  <2>1. CASE UNCHANGED <<window, reservation>>
    BY <1>2, <2>1
  <2>2. CASE reservation[r].status = "reserved" /\ Charge(r, actual)
    <3> DEFINE old == reservation[r]
    <3>1. old \in ReservationRow /\ old.committed = 0 /\ old.month \in Months /\ actual \in Nat
      BY <2>2, BudgetAssumption DEF BudgetIInv, TablesOK, ReservationsOK, ReservationOK
    <3>2. limits' = limits
      BY <2>2, <3>1 DEF Charge, BudgetIInv, TablesOK, WindowsOK, WindowRow
    <3>3. rows[r] = [state |-> "held", window |-> old.month, amount |-> old.estimated]
      BY <2>2, <3>1 DEF LedgerRow
    <3>4. LedgerRow(CommitAmount(old, actual)) =
            [state |-> "spent", window |-> old.month, amount |-> actual]
      BY <3>1 DEF LedgerRow, CommitAmount
    <3>5. rows' = [rows EXCEPT ![r] = [state |-> "spent", window |-> old.month, amount |-> actual]]
      BY <2>2, <3>4 DEF Charge, BudgetIInv, TablesOK, ReservationsOK
    <3>6. rows' = [rows EXCEPT ![r] = [state |-> "spent", window |-> rows[r].window, amount |-> actual]]
      <4> HIDE DEF rows
      <4> QED BY <3>3, <3>5
    <3>7. rows[r].state = "held"
      <4> HIDE DEF rows
      <4> QED BY <3>3
    <3>8. Ledger!Spend(r, actual)
      BY <3>2, <3>6, <3>7 DEF Ledger!Spend
    <3> QED BY <3>8 DEF Ledger!LedgerNext
  <2> QED BY <1>5, <2>1, <2>2 DEF CommitReservationWithUsage, CommitTx
<1>6. ASSUME NEW r \in Runs, ReleaseReservation(r) PROVE [Ledger!LedgerNext]_(Ledger!ledgerVars)
  <2> DEFINE old == reservation[r]
             row == [old EXCEPT !.status = "released"]
  <2>1. /\ old \in ReservationRow /\ old.month \in Months
        /\ old.status \in {"reserved", "over_budget"}
        /\ old.status = "reserved" => old.committed = 0
        /\ old.status = "over_budget" => old.committed > 0
    BY <1>6 DEF ReleaseReservation, ReleaseTx, BudgetIInv, TablesOK, ReservationsOK, ReservationOK
  <2>2. limits' = limits
    BY <1>6, <2>1 DEF ReleaseReservation, ReleaseTx, BudgetIInv, TablesOK, WindowsOK, WindowRow
  <2>3. rows' = [rows EXCEPT ![r] = LedgerRow(row)]
    BY <1>6 DEF ReleaseReservation, ReleaseTx, BudgetIInv, TablesOK, ReservationsOK
  <2>4. CASE old.status = "over_budget"
    <3>1. LedgerRow(row) = rows[r]
      BY <2>1, <2>4 DEF LedgerRow, ReservationRow
    <3> QED BY <1>1, <2>2, <2>3, <3>1
  <2>5. CASE old.status = "reserved"
    <3>1. rows[r] = [state |-> "held", window |-> old.month, amount |-> old.estimated]
      BY <2>1, <2>5 DEF LedgerRow
    <3>2. LedgerRow(row) = [state |-> "returned", window |-> old.month, amount |-> 0]
      BY <2>1, <2>5 DEF LedgerRow, ReservationRow
    <3>3. rows' = [rows EXCEPT ![r] = [state |-> "returned", window |-> rows[r].window, amount |-> 0]]
      <4> HIDE DEF rows, row
      <4> QED BY <2>3, <3>1, <3>2
    <3>4. rows[r].state = "held"
      <4> HIDE DEF rows
      <4> QED BY <3>1
    <3>5. Ledger!Return(r)
      BY <2>2, <3>3, <3>4 DEF Ledger!Return
    <3> QED BY <3>5 DEF Ledger!LedgerNext
  <2> QED BY <2>1, <2>4, <2>5
<1> QED
  BY <1>2, <1>3, <1>4, <1>5, <1>6
  DEF BudgetNext, SyncBudgetPolicies, NextMonth, ReservePolicy, ReserveFails, ExhaustedRead,
      ExhaustedSave, ExhaustedLost, budgetVars

\* The two counters, the preflight that may be stale and the transaction that checks again
\* implement a ledger in which money is held within the limit and each hold ends once.
THEOREM ImplementsLedgerHolds == BudgetSpec => ImplementsLedger
<1>1. BudgetInit => Ledger!LedgerInit
  BY DEF BudgetInit, NoReservation, LedgerRow, Ledger!LedgerInit
<1>2. BudgetIInv /\ BooksOK /\ [BudgetNext]_budgetVars => [Ledger!LedgerNext]_(Ledger!ledgerVars)
  BY LedgerStep
<1> QED BY <1>1, <1>2, BooksInvariant, PTL DEF BudgetSpec, ImplementsLedger, Ledger!LedgerSpec
=============================================================================
