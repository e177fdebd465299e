------------------------------ MODULE WorkQueue ------------------------------
(***************************************************************************)
(* The durable work queue: internal/workqueue, the claim, release, renew   *)
(* and recover transactions of internal/store, and the agent and inbox     *)
(* commands of cmd/deonctl that feed it.                                   *)
(*                                                                         *)
(* Every deonctl command is a process of its own on one SQLite file.  A    *)
(* method that opens a transaction is one action.  A command that reads a  *)
(* row, decides, and saves the row later is two actions, and its pending   *)
(* write is kept in commands between the two.  A transaction that fails    *)
(* (a busy database, a crash before COMMIT) changes nothing: it is the     *)
(* action not being taken.                                                 *)
(*                                                                         *)
(* Time is relative.  lease[l].left is expires_at minus the present, so    *)
(* now.After(expires_at) is left < 0.  A command reads the clock before it *)
(* opens its transaction: its stamp lags behind the present by at most     *)
(* MaxLag.                                                                 *)
(***************************************************************************)
EXTENDS Integers, FiniteSets

CONSTANTS
  Agents,       \* registered agents
  Works,        \* work item ids that may come into being
  Leases,       \* lease ids that ClaimWorkItem may draw
  NoWork,       \* the work item of a lease id not drawn yet
  AgentOf,      \* [Works -> Agents]       assigned_agent_id
  MaxAttempts,  \* [Works -> Nat]          max_attempts, 0 for no limit
  MaxRuns,      \* [Agents -> Int]         max_concurrent_runs as configured
  Priority,     \* [Works -> Int]          priority
  Deps,         \* [Works -> SUBSET Works] dependencies
  Scheduled,    \* work items a schedule's wakeup materializes; others are assigned
  AutoAccept,   \* scheduled items whose template says assignment_mode auto_accept
  TTL,          \* lease time to live
  MaxLag        \* how old a command's time stamp may be

ASSUME QueueAssumption ==
  /\ AgentOf \in [Works -> Agents]
  /\ MaxAttempts \in [Works -> Nat]
  /\ MaxRuns \in [Agents -> Int]
  /\ Deps \in [Works -> SUBSET Works]
  /\ Scheduled \subseteq Works /\ AutoAccept \subseteq Scheduled
  /\ NoWork \notin Works
  /\ TTL \in Nat \ {0} /\ MaxLag \in Nat /\ MaxLag < TTL
  /\ IsFiniteSet(Leases)

VARIABLES
  item,      \* work_items: status and attempt of each item
  inbox,     \* agent_inbox: status of the item's one inbox row
  lease,     \* execution_leases
  events,    \* primary keys taken in work_queue_events, where a clash is possible
  agent,     \* agents.status
  commands   \* read-then-save commands between their read and their save

queueVars == <<item, inbox, lease, events, agent, commands>>

WorkStatus  == {"absent", "assigned", "queued", "leased", "running", "blocked",
                "succeeded", "failed", "completed", "cancelled", "dead_letter"}
InboxStatus == {"none", "pending", "accepted", "deferred"}
LeaseStatus == {"unused", "active", "released", "lost"}
AgentStatus == {"active", "paused", "draining", "terminated", "quarantined"}

Floor == -(MaxLag + 1)          \* left is not tracked below this value
Left  == Floor .. TTL
Lags  == 0 .. MaxLag

LeaseRow == [work : Works \cup {NoWork}, status : LeaseStatus, left : Left]
UnusedLease == [work |-> NoWork, status |-> "unused", left |-> 0]

\* wqe_accepted_<inbox>, wqe_renew_<lease>, wqe_release_<lease>, wqe_recover_<lease>
EventKey == ({"accepted"} \X Works) \cup ({"renewed", "released", "recovered"} \X Leases)

Command ==   [op : {"assign"}, work : Works]
        \cup [op : {"defer"}, work : Works]
        \cup [op : {"agent"}, agent : Agents, status : AgentStatus]

QueueTypeOK ==
  /\ item \in [Works -> [status : WorkStatus, attempt : Nat]]
  /\ inbox \in [Works -> InboxStatus]
  /\ lease \in [Leases -> LeaseRow]
  /\ events \in SUBSET EventKey
  /\ agent \in [Agents -> AgentStatus]
  /\ commands \in SUBSET Command

QueueInit ==
  /\ item = [w \in Works |-> [status |-> "absent", attempt |-> 0]]
  /\ inbox = [w \in Works |-> "none"]
  /\ lease = [l \in Leases |-> UnusedLease]
  /\ events = {}
  /\ agent = [a \in Agents |-> "active"]
  /\ commands = {}

-----------------------------------------------------------------------------
(* What the queue's code asks of its tables. *)

CanReceiveWork(a) == agent[a] = "active"
CanStartRun(a) == agent[a] \in {"active", "draining"}

RunLimit(a) == IF MaxRuns[a] <= 0 THEN 1 ELSE MaxRuns[a]

Active(l) == lease[l].status = "active"
ActiveLeases(w) == {l \in Leases : Active(l) /\ lease[l].work = w}
AgentLeases(a) == {l \in Leases : Active(l) /\ AgentOf[lease[l].work] = a}

AttemptsExhausted(w) == MaxAttempts[w] > 0 /\ item[w].attempt >= MaxAttempts[w]

DependenciesSatisfied(w) == \A d \in Deps[w] : item[d].status \in {"succeeded", "completed"}

\* Mutation: the concurrency cap is not checked.
ValidateClaimNoCap(w) ==
  /\ CanStartRun(AgentOf[w])
  /\ item[w].status = "queued"
  /\ ~AttemptsExhausted(w)
  /\ DependenciesSatisfied(w)
  /\ inbox[w] \in (IF w \in AutoAccept THEN {"none", "accepted"} ELSE {"accepted"})

\* Mutation: the item need not be queued.
ValidateClaimAnyStatus(w) ==
  /\ CanStartRun(AgentOf[w])
  /\ item[w].status # "absent"
  /\ ~AttemptsExhausted(w)
  /\ Cardinality(AgentLeases(AgentOf[w])) < RunLimit(AgentOf[w])
  /\ DependenciesSatisfied(w)
  /\ inbox[w] \in (IF w \in AutoAccept THEN {"none", "accepted"} ELSE {"accepted"})

\* An item always has its task snapshot: the transactions that create it save both.
ValidateClaim(w) ==
  /\ CanStartRun(AgentOf[w])
  /\ item[w].status = "queued"
  /\ ~AttemptsExhausted(w)
  /\ Cardinality(AgentLeases(AgentOf[w])) < RunLimit(AgentOf[w])
  /\ DependenciesSatisfied(w)
  /\ inbox[w] \in (IF w \in AutoAccept THEN {"none", "accepted"} ELSE {"accepted"})

\* Mutation: the attempt is not counted.
MarkLeasedUncounted(row) == [status |-> "leased", attempt |-> row.attempt]

MarkLeased(row) == [status |-> "leased", attempt |-> row.attempt + 1]

MarkReleased(w, requeue) ==
  [item[w] EXCEPT !.status = IF ~requeue THEN "cancelled"
                             ELSE IF AttemptsExhausted(w) THEN "dead_letter"
                             ELSE "queued"]

\* Mutation: recovery only moves items whose attempts are used up.
RecoveredItemKept(w) ==
  IF AttemptsExhausted(w) THEN [item[w] EXCEPT !.status = "dead_letter"] ELSE item[w]

RecoveredItem(w) ==
  IF AttemptsExhausted(w) THEN [item[w] EXCEPT !.status = "dead_letter"]
                          ELSE MarkReleased(w, TRUE)

\* A lease whose expires_at is before the stamp of a command lagging by lag.
ExpiredAt(l, lag) == lease[l].left + lag < 0

-----------------------------------------------------------------------------
(* Where work items come from. *)

\* deonctl agents assign reads the agent ...
AssignRead(w) ==
  /\ w \notin Scheduled /\ item[w].status = "absent"
  /\ CanReceiveWork(AgentOf[w])
  /\ commands' = commands \cup {[op |-> "assign", work |-> w]}
  /\ UNCHANGED <<item, inbox, lease, events, agent>>

\* ... and AssignWorkItemWithSnapshot trusts the agent row it was given.
AssignSave(w) ==
  /\ [op |-> "assign", work |-> w] \in commands
  /\ commands' = commands \ {[op |-> "assign", work |-> w]}
  /\ item' = [item EXCEPT ![w] = [status |-> "assigned", attempt |-> 0]]
  /\ inbox' = [inbox EXCEPT ![w] = "pending"]
  /\ UNCHANGED <<lease, events, agent>>

MaterializeWork(w) ==
  /\ w \in Scheduled /\ item[w].status = "absent"
  /\ LET auto == w \in AutoAccept IN
       /\ item' = [item EXCEPT ![w] = [status |-> IF auto THEN "queued" ELSE "assigned",
                                       attempt |-> 0]]
       /\ inbox' = [inbox EXCEPT ![w] = IF auto THEN "accepted" ELSE "pending"]
  /\ UNCHANGED <<lease, events, agent, commands>>

AcceptInboxAndQueueWork(w) ==
  /\ inbox[w] \in {"pending", "deferred"}
  /\ item[w].status \in {"assigned", "queued"}
  /\ <<"accepted", w>> \notin events
  /\ inbox' = [inbox EXCEPT ![w] = "accepted"]
  /\ item' = [item EXCEPT ![w].status = "queued"]
  /\ events' = events \cup {<<"accepted", w>>}
  /\ UNCHANGED <<lease, agent, commands>>

\* deonctl agents inbox defer: the row is read, and saved by a later statement.
DeferRead(w) ==
  /\ inbox[w] = "pending"
  /\ commands' = commands \cup {[op |-> "defer", work |-> w]}
  /\ UNCHANGED <<item, inbox, lease, events, agent>>

DeferSave(w) ==
  /\ [op |-> "defer", work |-> w] \in commands
  /\ commands' = commands \ {[op |-> "defer", work |-> w]}
  /\ inbox' = [inbox EXCEPT ![w] = "deferred"]
  /\ UNCHANGED <<item, lease, events, agent>>

-----------------------------------------------------------------------------
(* The agent lifecycle: pause, resume, terminate, and a sync that keeps the *)
(* status it read.  Each computes the whole row and saves it blindly.       *)

LifecycleTargets(status) ==
  (IF status \in {"active", "draining"} THEN {"paused"} ELSE {})
  \cup (IF status = "paused" THEN {"active"} ELSE {})
  \cup (IF status # "terminated" THEN {"terminated"} ELSE {})

AgentRead(a) ==
  /\ \E target \in LifecycleTargets(agent[a]) \cup {agent[a]} :
       commands' = commands \cup {[op |-> "agent", agent |-> a, status |-> target]}
  /\ UNCHANGED <<item, inbox, lease, events, agent>>

AgentSave(a) ==
  \E c \in commands :
    /\ c.op = "agent" /\ c.agent = a
    /\ commands' = commands \ {c}
    /\ agent' = [agent EXCEPT ![a] = c.status]
    /\ UNCHANGED <<item, inbox, lease, events>>

\* The process dies, or its save finds the database busy.
CommandLost ==
  /\ \E c \in commands : commands' = commands \ {c}
  /\ UNCHANGED <<item, inbox, lease, events, agent>>

-----------------------------------------------------------------------------
(* Leases. *)

Claim(w, l, lag) ==
  /\ ValidateClaim(w)
  /\ ActiveLeases(w) = {}
  /\ lease[l].status = "unused"
  /\ item' = [item EXCEPT ![w] = MarkLeased(@)]
  /\ lease' = [lease EXCEPT ![l] = [work |-> w, status |-> "active", left |-> TTL - lag]]
  /\ UNCHANGED <<inbox, events, agent, commands>>

\* work claim --agent a: the queued items that may come first in the sorted list.
\* Items of one priority are ordered by creation time, left open here.
NextCandidates(a) ==
  LET queued == {w \in Works : item[w].status = "queued" /\ AgentOf[w] = a}
  IN  {w \in queued : \A v \in queued : Priority[v] <= Priority[w]}

ClaimNext(a, l, lag) == \E w \in NextCandidates(a) : Claim(w, l, lag)

\* Mutation: the item is not moved on.
ReleaseLeaseOnly(l, requeue) ==
  /\ Active(l)
  /\ <<"released", l>> \notin events
  /\ lease' = [lease EXCEPT ![l].status = "released", ![l].left = 0]
  /\ events' = events \cup {<<"released", l>>}
  /\ UNCHANGED <<item, inbox, agent, commands>>

ReleaseLease(l, requeue) ==
  /\ Active(l)
  /\ <<"released", l>> \notin events
  /\ lease' = [lease EXCEPT ![l].status = "released", ![l].left = 0]
  /\ item' = [item EXCEPT ![lease[l].work] = MarkReleased(lease[l].work, requeue)]
  /\ events' = events \cup {<<"released", l>>}
  /\ UNCHANGED <<inbox, agent, commands>>

\* Mutation: any lease that was ever drawn is renewed, and is active again.
RenewLeaseAny(l, lag) ==
  /\ lease[l].status # "unused" /\ ~ExpiredAt(l, lag)
  /\ <<"renewed", l>> \notin events
  /\ lease' = [lease EXCEPT ![l].left = TTL - lag, ![l].status = "active"]
  /\ events' = events \cup {<<"renewed", l>>}
  /\ UNCHANGED <<item, inbox, agent, commands>>

\* Mutation: the renewal adds its TTL to what is left.
RenewLeaseOnTop(l, lag) ==
  /\ Active(l) /\ ~ExpiredAt(l, lag)
  /\ <<"renewed", l>> \notin events
  /\ lease' = [lease EXCEPT ![l].left = @ + TTL - lag]
  /\ events' = events \cup {<<"renewed", l>>}
  /\ UNCHANGED <<item, inbox, agent, commands>>

RenewLease(l, lag) ==
  /\ Active(l) /\ ~ExpiredAt(l, lag)
  /\ <<"renewed", l>> \notin events
  /\ lease' = [lease EXCEPT ![l].left = TTL - lag]
  /\ events' = events \cup {<<"renewed", l>>}
  /\ UNCHANGED <<item, inbox, agent, commands>>

\* One transaction for every expired lease: one clash on an event key undoes them all.
Stale(lag) == {l \in Leases : Active(l) /\ ExpiredAt(l, lag)}

RecoverWorkQueue(lag) ==
  /\ Stale(lag) # {}
  /\ \A l \in Stale(lag) : <<"recovered", l>> \notin events
  /\ lease' = [l \in Leases |-> IF l \in Stale(lag)
                                THEN [lease[l] EXCEPT !.status = "lost", !.left = 0]
                                ELSE lease[l]]
  /\ item' = [w \in Works |-> IF \E l \in Stale(lag) : lease[l].work = w
                              THEN RecoveredItem(w) ELSE item[w]]
  /\ events' = events \cup ({"recovered"} \X Stale(lag))
  /\ UNCHANGED <<inbox, agent, commands>>

\* One unit of time passes for the leases still running down.
Tick ==
  /\ \E l \in Leases : Active(l) /\ lease[l].left > Floor
  /\ lease' = [l \in Leases |-> IF Active(l) /\ lease[l].left > Floor
                                THEN [lease[l] EXCEPT !.left = @ - 1]
                                ELSE lease[l]]
  /\ UNCHANGED <<item, inbox, events, agent, commands>>

-----------------------------------------------------------------------------

Feed == \E w \in Works : \/ AssignRead(w) \/ AssignSave(w) \/ MaterializeWork(w)
                         \/ AcceptInboxAndQueueWork(w) \/ DeferRead(w) \/ DeferSave(w)

Lifecycle == \/ \E a \in Agents : AgentRead(a) \/ AgentSave(a)
             \/ CommandLost

Hold == \E l \in Leases, lag \in Lags :
          \/ \E w \in Works : Claim(w, l, lag)
          \/ \E a \in Agents : ClaimNext(a, l, lag)
          \/ RenewLease(l, lag)

GiveUp == \/ \E l \in Leases, requeue \in BOOLEAN : ReleaseLease(l, requeue)
          \/ \E lag \in Lags : RecoverWorkQueue(lag)

QueueNext == Feed \/ Lifecycle \/ Hold \/ GiveUp \/ Tick

QueueSpec == QueueInit /\ [][QueueNext]_queueVars

\* Time passes, and the operator (or cron) keeps running deonctl work recover, the
\* recovery the dispatch ADR prescribes for expired leases.
QueueFairSpec == /\ QueueSpec
                 /\ WF_queueVars(Tick)
                 /\ WF_queueVars(RecoverWorkQueue(0))

-----------------------------------------------------------------------------
(* Safety. *)

\* At most one active lease per work item, whoever claims, releases, renews and
\* recovers in between (docs/BUDGETS_AND_COSTS.md: only one active lease per work item).
LeaseExclusive ==
  \A l, m \in Leases : Active(l) /\ Active(m) /\ lease[l].work = lease[m].work => l = m

\* The item's status and the lease table never disagree: an item is leased exactly when
\* a lease on it is active.  These are the doctor's errors leased_without_active_lease
\* and active_lease_work_not_leased.
LeasedIffHeld ==
  \A w \in Works : item[w].status = "leased" <=> ActiveLeases(w) # {}

\* Attempts are accounted for: each attempt is one lease row, released, lost or active,
\* and their number never passes max_attempts.
Attempts(w) == {l \in Leases : lease[l].work = w}
AttemptsAccounted ==
  \A w \in Works :
    /\ item[w].attempt = Cardinality(Attempts(w))
    /\ MaxAttempts[w] > 0 => item[w].attempt <= MaxAttempts[w]

\* The per-agent concurrency cap holds although each claim counts leases that
\* other processes are renewing, losing and releasing.
RunCap == \A a \in Agents : Cardinality(AgentLeases(a)) <= RunLimit(a)

\* Work is dead-lettered only when its attempts are used up, and work whose attempts are
\* used up is never offered again (the doctor's queued_attempts_exhausted).
DeadLetterMeansExhausted ==
  \A w \in Works : /\ item[w].status = "dead_letter" => AttemptsExhausted(w)
                   /\ item[w].status \in {"assigned", "queued"} => ~AttemptsExhausted(w)

\* Cancelled and dead-lettered items are final: no late accept, recovery or claim
\* brings them back.
Terminal == {"cancelled", "dead_letter"}
TerminalIsFinal ==
  [][\A w \in Works : item[w].status \in Terminal => item'[w] = item[w]]_queueVars

(* The inductive strengthening of the safety invariants. *)

\* A pending assign is for an item that is still absent; a lease id is drawn once.
QueueBookkeeping ==
  /\ \A w \in Works : [op |-> "assign", work |-> w] \in commands =>
                      item[w].status = "absent" /\ w \notin Scheduled
  /\ \A w \in Works : item[w].status = "absent" => item[w].attempt = 0
  /\ \A l \in Leases : lease[l].status = "unused" <=> lease[l].work = NoWork

QueueInv == /\ QueueTypeOK /\ QueueBookkeeping /\ LeaseExclusive /\ LeasedIffHeld
            /\ AttemptsAccounted /\ RunCap /\ DeadLetterMeansExhausted

(* Liveness. *)

\* A holder that disappears does not keep the item for ever.
LeaseEnds == \A w \in Works : item[w].status = "leased" ~> item[w].status # "leased"
=============================================================================
