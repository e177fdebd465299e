---------------------------- MODULE BudgetLedger ----------------------------
(* What the budget promises: money is held before a run, within the limit of its     *)
(* window, and each hold ends once, in what was spent or in nothing.  No counters.   *)
EXTENDS Sums

CONSTANTS
  Runs,      \* dispatch runs, each with at most one hold
  Windows,   \* budget windows
  NoWindow,  \* the window of a run that holds nothing
  Amounts    \* amounts of money

VARIABLES
  limit,     \* limit[w]: hard limit of window w, 0 until it is opened
  ledger     \* what each run holds or spent, and in which window

ledgerVars == <<limit, ledger>>

LedgerInit ==
  /\ limit = [w \in Windows |-> 0]
  /\ ledger = [r \in Runs |-> [state |-> "none", window |-> NoWindow, amount |-> 0]]

\* Everything held or spent in window w.
TakenBy(w) == [r \in Runs |-> IF ledger[r].window = w THEN ledger[r].amount ELSE 0]
Taken(w) == Total(TakenBy(w))

Open(w, n) ==
  /\ limit[w] = 0 /\ n > 0
  /\ limit' = [limit EXCEPT ![w] = n]
  /\ UNCHANGED ledger

Hold(r, w, amount) ==
  /\ ledger[r].state = "none" /\ amount > 0
  /\ Taken(w) + amount <= limit[w]
  /\ ledger' = [ledger EXCEPT ![r] = [state |-> "held", window |-> w, amount |-> amount]]
  /\ UNCHANGED limit

\* What was really spent may be more than what was held.
Spend(r, amount) ==
  /\ ledger[r].state = "held"
  /\ ledger' = [ledger EXCEPT ![r] = [state |-> "spent", window |-> @.window, amount |-> amount]]
  /\ UNCHANGED limit

Return(r) ==
  /\ ledger[r].state = "held"
  /\ ledger' = [ledger EXCEPT ![r] = [state |-> "returned", window |-> @.window, amount |-> 0]]
  /\ UNCHANGED limit

LedgerNext ==
  \/ \E w \in Windows, n \in Amounts : Open(w, n)
  \/ \E r \in Runs, w \in Windows, n \in Amounts : Hold(r, w, n)
  \/ \E r \in Runs, n \in Amounts : Spend(r, n)
  \/ \E r \in Runs : Return(r)

LedgerSpec == LedgerInit /\ [][LedgerNext]_ledgerVars
=============================================================================
