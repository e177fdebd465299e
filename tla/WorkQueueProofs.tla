--------------------------- MODULE WorkQueueProofs ---------------------------
(* Theorems of WorkQueue, for every set of agents, items and leases. *)
EXTENDS WorkQueue, FiniteSetTheorems, TLAPS

(* Type correctness. *)
LEMMA QueueTypeInit == QueueInit => QueueTypeOK
  BY QueueAssumption DEF QueueInit, QueueTypeOK, WorkStatus, InboxStatus, LeaseStatus,
     AgentStatus, LeaseRow, UnusedLease, Left, Floor, Command, EventKey

LEMMA QueueTypeStep == QueueTypeOK /\ [QueueNext]_queueVars => QueueTypeOK'
<1> SUFFICES ASSUME QueueTypeOK, [QueueNext]_queueVars
             PROVE  QueueTypeOK'
  OBVIOUS
<1> USE QueueAssumption DEF QueueTypeOK
<1>1. ASSUME NEW w \in Works, AssignRead(w) PROVE QueueTypeOK'
  BY <1>1 DEF AssignRead, Command
<1>2. ASSUME NEW w \in Works, AssignSave(w) PROVE QueueTypeOK'
  BY <1>2 DEF AssignSave, WorkStatus, InboxStatus
<1>3. ASSUME NEW w \in Works, MaterializeWork(w) PROVE QueueTypeOK'
  BY <1>3 DEF MaterializeWork, WorkStatus, InboxStatus
<1>4. ASSUME NEW w \in Works, AcceptInboxAndQueueWork(w) PROVE QueueTypeOK'
  BY <1>4 DEF AcceptInboxAndQueueWork, WorkStatus, InboxStatus, EventKey
<1>5. ASSUME NEW w \in Works, DeferRead(w) PROVE QueueTypeOK'
  BY <1>5 DEF DeferRead, Command
<1>6. ASSUME NEW w \in Works, DeferSave(w) PROVE QueueTypeOK'
  BY <1>6 DEF DeferSave, InboxStatus
<1>7. ASSUME NEW a \in Agents, AgentRead(a) PROVE QueueTypeOK'
  <2>1. PICK target \in LifecycleTargets(agent[a]) \cup {agent[a]} :
          commands' = commands \cup {[op |-> "agent", agent |-> a, status |-> target]}
    BY <1>7 DEF AgentRead
  <2>2. target \in AgentStatus
    BY <2>1 DEF LifecycleTargets, AgentStatus
  <2>3. commands' \in SUBSET Command
    BY <2>1, <2>2 DEF Command
  <2> QED  BY <1>7, <2>3 DEF AgentRead
<1>8. ASSUME NEW a \in Agents, AgentSave(a) PROVE QueueTypeOK'
  BY <1>8 DEF AgentSave, Command
<1>9. CASE CommandLost
  BY <1>9 DEF CommandLost
<1>10. ASSUME NEW w \in Works, NEW l \in Leases, NEW lag \in Lags, Claim(w, l, lag)
       PROVE  QueueTypeOK'
  <2>1. TTL - lag \in Left
    BY DEF Lags, Left, Floor
  <2>2. MarkLeased(item[w]) \in [status : WorkStatus, attempt : Nat]
    BY DEF MarkLeased, WorkStatus
  <2>4. item' \in [Works -> [status : WorkStatus, attempt : Nat]]
    BY <1>10, <2>2 DEF Claim
  <2>3. lease' \in [Leases -> LeaseRow]
    BY <1>10, <2>1 DEF Claim, LeaseRow, LeaseStatus
  <2> QED  BY <1>10, <2>3, <2>4 DEF Claim
<1>11. ASSUME NEW l \in Leases, NEW lag \in Lags, RenewLease(l, lag) PROVE QueueTypeOK'
  <2>1. TTL - lag \in Left
    BY DEF Lags, Left, Floor
  <2>2. lease' \in [Leases -> LeaseRow]
    BY <1>11, <2>1 DEF RenewLease, LeaseRow
  <2>3. events' \in SUBSET EventKey
    BY <1>11 DEF RenewLease, EventKey
  <2> QED  BY <1>11, <2>2, <2>3 DEF RenewLease
<1>12. ASSUME NEW l \in Leases, NEW requeue \in BOOLEAN, ReleaseLease(l, requeue)
       PROVE  QueueTypeOK'
  <2>0. 0 \in Left /\ "released" \in LeaseStatus
    BY DEF Left, Floor, LeaseStatus
  <2>1. lease' \in [Leases -> LeaseRow]
    BY <1>12, <2>0 DEF ReleaseLease, LeaseRow
  <2>2. item' \in [Works -> [status : WorkStatus, attempt : Nat]]
    BY <1>12 DEF ReleaseLease, MarkReleased, WorkStatus
  <2>3. events' \in SUBSET EventKey
    BY <1>12 DEF ReleaseLease, EventKey
  <2> QED  BY <1>12, <2>1, <2>2, <2>3 DEF ReleaseLease
<1>13. ASSUME NEW lag \in Lags, RecoverWorkQueue(lag) PROVE QueueTypeOK'
  <2>0. 0 \in Left /\ "lost" \in LeaseStatus
    BY DEF Left, Floor, LeaseStatus
  <2>1. lease' \in [Leases -> LeaseRow]
    BY <1>13, <2>0 DEF RecoverWorkQueue, LeaseRow
  <2>2. \A w \in Works : RecoveredItem(w) \in [status : WorkStatus, attempt : Nat]
    BY DEF RecoveredItem, MarkReleased, WorkStatus
  <2>3. item' \in [Works -> [status : WorkStatus, attempt : Nat]]
    BY <1>13, <2>2 DEF RecoverWorkQueue
  <2>4. events' \in SUBSET EventKey
    BY <1>13 DEF RecoverWorkQueue, EventKey, Stale
  <2> QED  BY <1>13, <2>1, <2>3, <2>4 DEF RecoverWorkQueue
<1>14. CASE Tick
  <2>1. lease' \in [Leases -> LeaseRow]
    BY <1>14 DEF Tick, LeaseRow, Left, Floor
  <2> QED  BY <1>14, <2>1 DEF Tick
<1>15. CASE UNCHANGED queueVars
  BY <1>15 DEF queueVars
<1> QED
  BY <1>1, <1>2, <1>3, <1>4, <1>5, <1>6, <1>7, <1>8, <1>9, <1>10, <1>11, <1>12, <1>13,
     <1>14, <1>15
     DEF QueueNext, Feed, Lifecycle, Hold, GiveUp, ClaimNext, NextCandidates

\* Every variable keeps its type, whatever commands run and fail.
THEOREM QueueTypeCorrect == QueueSpec => []QueueTypeOK
  BY QueueTypeInit, QueueTypeStep, PTL DEF QueueSpec

-----------------------------------------------------------------------------
(* The inductive invariant. *)

\* Every set of leases is finite, and losing leases never raises a count.
LEMMA LeaseSubsets ==
  ASSUME NEW S \in SUBSET Leases
  PROVE  /\ IsFiniteSet(S) /\ Cardinality(S) \in Nat
         /\ \A T \in SUBSET S : Cardinality(T) <= Cardinality(S)
  BY QueueAssumption, FS_Subset, FS_CardinalityType

LEMMA QueueInvInit == QueueInit => QueueInv
<1> SUFFICES ASSUME QueueInit PROVE QueueInv
  OBVIOUS
<1> USE QueueAssumption DEF QueueInit
<1>1. QueueTypeOK
  BY QueueTypeInit
<1>2. QueueBookkeeping /\ LeaseExclusive /\ LeasedIffHeld /\ DeadLetterMeansExhausted
  BY DEF QueueBookkeeping, LeaseExclusive, LeasedIffHeld, DeadLetterMeansExhausted,
     UnusedLease, Active, ActiveLeases, AttemptsExhausted
<1>3. AttemptsAccounted
  <2>1. ASSUME NEW w \in Works PROVE Attempts(w) = {}
    BY DEF Attempts, UnusedLease
  <2> QED  BY <2>1, FS_EmptySet DEF AttemptsAccounted
<1>4. RunCap
  <2>1. ASSUME NEW a \in Agents PROVE Cardinality(AgentLeases(a)) <= RunLimit(a)
    <3>1. RunLimit(a) \in Int /\ RunLimit(a) >= 1
      BY DEF RunLimit
    <3>2. AgentLeases(a) = {}
      BY DEF AgentLeases, Active, UnusedLease
    <3>3. Cardinality(AgentLeases(a)) = 0
      BY <3>2, FS_EmptySet
    <3> QED  BY <3>1, <3>3
  <2> QED  BY <2>1 DEF RunCap
<1> QED  BY <1>1, <1>2, <1>3, <1>4 DEF QueueInv

\* A step that leaves the items and every lease's work and status alone only has to keep
\* pending assigns apart.
LEMMA SameRows ==
  ASSUME QueueInv, QueueTypeOK', UNCHANGED item,
         \A l \in Leases : /\ lease'[l].work = lease[l].work
                           /\ lease'[l].status = lease[l].status,
         \A w \in Works : [op |-> "assign", work |-> w] \in commands' =>
                            item[w].status = "absent" /\ w \notin Scheduled
  PROVE  QueueInv'
<1> USE DEF QueueInv
<1>1. \A l \in Leases : Active(l)' <=> Active(l)
  BY DEF Active
<1>2. \A w \in Works : ActiveLeases(w)' = ActiveLeases(w) /\ Attempts(w)' = Attempts(w)
  BY <1>1 DEF ActiveLeases, Attempts
<1>3. \A a \in Agents : AgentLeases(a)' = AgentLeases(a)
  BY <1>1 DEF AgentLeases
<1>4. QueueBookkeeping' /\ LeaseExclusive' /\ LeasedIffHeld'
  BY <1>1, <1>2 DEF QueueBookkeeping, LeaseExclusive, LeasedIffHeld
<1>5. AttemptsAccounted' /\ RunCap' /\ DeadLetterMeansExhausted'
  BY <1>2, <1>3 DEF AttemptsAccounted, RunCap, DeadLetterMeansExhausted, AttemptsExhausted,
     RunLimit
<1> QED  BY <1>4, <1>5

\* A step that moves one item to assigned or queued, from there or from nowhere, and
\* keeps its attempts.
LEMMA OneRow ==
  ASSUME QueueInv, QueueTypeOK', UNCHANGED lease,
         NEW w \in Works,
         item[w].status \in {"absent", "assigned", "queued"},
         item'[w].status \in {"assigned", "queued"},
         item'[w].attempt = item[w].attempt,
         \A v \in Works : v # w => item'[v] = item[v],
         commands' \subseteq commands,
         [op |-> "assign", work |-> w] \notin commands'
  PROVE  QueueInv'
<1> USE QueueAssumption DEF QueueInv
<1>1. \A v \in Works : item'[v].attempt = item[v].attempt
                       /\ (v # w => item'[v] = item[v])
  OBVIOUS
<1>2. QueueBookkeeping'
  BY <1>1 DEF QueueBookkeeping
<1>3. LeaseExclusive' /\ AttemptsAccounted' /\ RunCap'
  <2>1. LeaseExclusive'
    BY DEF LeaseExclusive, Active
  <2>2. AttemptsAccounted'
    <3>1. \A v \in Works : Attempts(v)' = Attempts(v)
      BY DEF Attempts
    <3> QED  BY <1>1, <3>1 DEF AttemptsAccounted
  <2>3. RunCap'
    BY DEF RunCap, AgentLeases, Active
  <2> QED  BY <2>1, <2>2, <2>3
<1>4. LeasedIffHeld'
  BY <1>1 DEF LeasedIffHeld, Active, ActiveLeases
<1>5. DeadLetterMeansExhausted'
  <2>1. item[w].status \in {"assigned", "queued"} => ~AttemptsExhausted(w)
    BY DEF DeadLetterMeansExhausted
  <2>2. item[w].status = "absent" => ~AttemptsExhausted(w)
    BY DEF QueueBookkeeping, AttemptsExhausted
  <2> QED  BY <1>1, <2>1, <2>2 DEF DeadLetterMeansExhausted, AttemptsExhausted
<1> QED  BY <1>2, <1>3, <1>4, <1>5

\* A claim adds one lease to an item that has none, within the agent's cap.
LEMMA ClaimKeeps ==
  ASSUME QueueInv, QueueTypeOK', NEW w \in Works, NEW l \in Leases, NEW lag \in Lags,
         Claim(w, l, lag)
  PROVE  QueueInv'
<1> USE QueueAssumption DEF QueueInv
<1>1. /\ lease'[l].work = w /\ lease'[l].status = "active"
      /\ \A m \in Leases : m # l => lease'[m] = lease[m]
  BY DEF Claim, QueueTypeOK
<1>2. /\ item'[w].status = "leased" /\ item'[w].attempt = item[w].attempt + 1
      /\ \A v \in Works : v # w => item'[v] = item[v]
  BY DEF Claim, MarkLeased, QueueTypeOK
<1>3. item[w].status = "queued" /\ ~AttemptsExhausted(w) /\ ActiveLeases(w) = {}
      /\ lease[l].work = NoWork /\ ~Active(l)
  BY DEF Claim, ValidateClaim, QueueBookkeeping, Active
<1>4. QueueBookkeeping'
  BY <1>1, <1>2, <1>3 DEF Claim, QueueBookkeeping
<1>5. LeaseExclusive'
  BY <1>1, <1>3 DEF LeaseExclusive, Active, ActiveLeases
<1>6. LeasedIffHeld'
  <2>1. ActiveLeases(w)' # {}
    BY <1>1 DEF ActiveLeases, Active
  <2>2. ASSUME NEW v \in Works, v # w PROVE ActiveLeases(v)' = ActiveLeases(v)
    BY <1>1, <1>3, <2>2 DEF ActiveLeases, Active
  <2> QED  BY <1>2, <2>1, <2>2 DEF LeasedIffHeld
<1>7. AttemptsAccounted'
  <2>1. Attempts(w)' = Attempts(w) \cup {l} /\ l \notin Attempts(w)
    BY <1>1, <1>3 DEF Attempts
  <2>2. Cardinality(Attempts(w)') = item[w].attempt + 1
    BY <2>1, LeaseSubsets, FS_AddElement DEF AttemptsAccounted, Attempts
  <2>3. ASSUME NEW v \in Works, v # w PROVE Attempts(v)' = Attempts(v)
    BY <1>1, <1>3, <2>3 DEF Attempts
  <2>4. MaxAttempts[w] > 0 => item[w].attempt + 1 <= MaxAttempts[w]
    BY <1>3 DEF AttemptsExhausted, QueueTypeOK
  <2> QED  BY <1>2, <2>2, <2>3, <2>4 DEF AttemptsAccounted
<1>8. RunCap'
  <2>1. AgentLeases(AgentOf[w])' = AgentLeases(AgentOf[w]) \cup {l}
    BY <1>1 DEF AgentLeases, Active
  <2>2. Cardinality(AgentLeases(AgentOf[w])') <= Cardinality(AgentLeases(AgentOf[w])) + 1
    BY <2>1, LeaseSubsets, FS_AddElement DEF AgentLeases
  <2>3. Cardinality(AgentLeases(AgentOf[w])) < RunLimit(AgentOf[w])
    BY DEF Claim, ValidateClaim
  <2>4. Cardinality(AgentLeases(AgentOf[w])) \in Nat /\ RunLimit(AgentOf[w]) \in Int
    BY LeaseSubsets DEF AgentLeases, RunLimit
  <2>5. Cardinality(AgentLeases(AgentOf[w])') \in Nat
    BY LeaseSubsets DEF AgentLeases
  <2>6. Cardinality(AgentLeases(AgentOf[w])') <= RunLimit(AgentOf[w])
    BY <2>2, <2>3, <2>4, <2>5
  <2>7. ASSUME NEW a \in Agents, a # AgentOf[w] PROVE AgentLeases(a)' = AgentLeases(a)
    BY <1>1, <1>3, <2>7 DEF AgentLeases, Active
  <2> QED  BY <2>6, <2>7 DEF RunCap, RunLimit
<1>9. DeadLetterMeansExhausted'
  BY <1>2 DEF DeadLetterMeansExhausted, AttemptsExhausted
<1> QED  BY <1>4, <1>5, <1>6, <1>7, <1>8, <1>9

\* A step that ends the leases of S and moves exactly their items on.
Ends(S) ==
  /\ S \in SUBSET Leases
  /\ \A l \in S : Active(l) /\ lease'[l].status \in {"released", "lost"}
  /\ \A l \in Leases : /\ lease'[l].work = lease[l].work
                       /\ l \notin S => lease'[l].status = lease[l].status
  /\ \A w \in Works : item'[w].attempt = item[w].attempt
  /\ \A w \in Works : (\A l \in S : lease[l].work # w) => item'[w] = item[w]
  /\ \A w \in Works : (\E l \in S : lease[l].work = w) =>
       /\ item'[w].status \in {"queued", "cancelled", "dead_letter"}
       /\ item'[w].status = "queued" => ~AttemptsExhausted(w)
       /\ item'[w].status = "dead_letter" => AttemptsExhausted(w)
  /\ UNCHANGED commands

LEMMA EndingKeeps ==
  ASSUME QueueInv, QueueTypeOK', NEW S, Ends(S)
  PROVE  QueueInv'
<1> USE QueueAssumption DEF QueueInv, Ends
<1>1. \A l \in Leases : Active(l)' <=> Active(l) /\ l \notin S
  BY DEF Active
<1>2. \A l \in Leases : Active(l) => lease[l].work \in Works
  BY DEF Active, QueueBookkeeping, QueueTypeOK, LeaseRow
<1>3. \A w \in Works : item'[w].status = "absent" => item'[w] = item[w]
  OBVIOUS
<1>4. QueueBookkeeping'
  <2>1. \A w \in Works : item[w].status = "absent" => item'[w] = item[w]
    <3> SUFFICES ASSUME NEW w \in Works, item[w].status = "absent"
                 PROVE  \A l \in S : lease[l].work # w
      OBVIOUS
    <3> QED  BY DEF LeasedIffHeld, ActiveLeases
  <2>2. \A l \in Leases : lease'[l].status = "unused" <=> lease[l].status = "unused"
    BY DEF Active
  <2> QED  BY <1>3, <2>1, <2>2 DEF QueueBookkeeping
<1>5. LeaseExclusive'
  BY <1>1 DEF LeaseExclusive
<1>6. LeasedIffHeld'
  <2> SUFFICES ASSUME NEW w \in Works
               PROVE  item'[w].status = "leased" <=> ActiveLeases(w)' # {}
    BY DEF LeasedIffHeld
  <2>1. CASE \E l \in S : lease[l].work = w
    <3>1. PICK l \in S : lease[l].work = w
      BY <2>1
    <3>2. item'[w].status # "leased"
      BY <3>1
    <3>3. ASSUME NEW m \in ActiveLeases(w)' PROVE FALSE
      <4>1. m \in Leases /\ Active(m) /\ m \notin S /\ lease[m].work = w
        BY <1>1 DEF ActiveLeases
      <4>2. m = l
        BY <3>1, <4>1 DEF LeaseExclusive
      <4> QED  BY <4>1, <4>2
    <3> QED  BY <3>2, <3>3
  <2>2. CASE \A l \in S : lease[l].work # w
    <3>1. ActiveLeases(w)' = ActiveLeases(w)
      BY <1>1, <2>2 DEF ActiveLeases
    <3> QED  BY <2>2, <3>1 DEF LeasedIffHeld
  <2> QED  BY <2>1, <2>2
<1>7. AttemptsAccounted'
  <2>1. \A w \in Works : Attempts(w)' = Attempts(w)
    BY DEF Attempts
  <2> QED  BY <2>1 DEF AttemptsAccounted
<1>8. RunCap'
  <2> SUFFICES ASSUME NEW a \in Agents
               PROVE  Cardinality(AgentLeases(a)') <= RunLimit(a)
    BY DEF RunCap, RunLimit
  <2>1. AgentLeases(a)' \in SUBSET AgentLeases(a)
    BY <1>1 DEF AgentLeases
  <2>2. AgentLeases(a) \in SUBSET Leases /\ AgentLeases(a)' \in SUBSET Leases
    BY DEF AgentLeases
  <2>3. Cardinality(AgentLeases(a)') <= Cardinality(AgentLeases(a))
    BY <2>1, <2>2, LeaseSubsets
  <2>4. /\ Cardinality(AgentLeases(a)) \in Nat /\ Cardinality(AgentLeases(a)') \in Nat
        /\ RunLimit(a) \in Int
    BY <2>2, LeaseSubsets DEF RunLimit
  <2> QED  BY <2>3, <2>4 DEF RunCap
<1>9. DeadLetterMeansExhausted'
  <2> SUFFICES ASSUME NEW w \in Works
               PROVE  /\ item'[w].status = "dead_letter" => AttemptsExhausted(w)
                      /\ item'[w].status \in {"assigned", "queued"} => ~AttemptsExhausted(w)
    BY DEF DeadLetterMeansExhausted, AttemptsExhausted
  <2>1. CASE \E l \in S : lease[l].work = w
    BY <2>1
  <2>2. CASE \A l \in S : lease[l].work # w
    BY <2>2 DEF DeadLetterMeansExhausted
  <2> QED  BY <2>1, <2>2
<1> QED  BY <1>4, <1>5, <1>6, <1>7, <1>8, <1>9

LEMMA ReleaseKeeps ==
  ASSUME QueueInv, QueueTypeOK', NEW l \in Leases, NEW requeue \in BOOLEAN,
         ReleaseLease(l, requeue)
  PROVE  QueueInv'
<1> DEFINE w == lease[l].work
<1> USE DEF ReleaseLease
<1>1. w \in Works /\ Active(l)
  BY QueueAssumption DEF QueueInv, QueueTypeOK, QueueBookkeeping, Active, LeaseRow
<1>2. /\ lease'[l].work = w /\ lease'[l].status = "released"
      /\ \A m \in Leases : m # l => lease'[m] = lease[m]
  BY DEF QueueInv, QueueTypeOK
<1>3. /\ item'[w] = MarkReleased(w, requeue)
      /\ \A v \in Works : v # w => item'[v] = item[v]
  BY <1>1 DEF QueueInv, QueueTypeOK
<1>4. /\ item'[w].attempt = item[w].attempt
      /\ item'[w].status \in {"queued", "cancelled", "dead_letter"}
      /\ item'[w].status = "queued" => ~AttemptsExhausted(w)
      /\ item'[w].status = "dead_letter" => AttemptsExhausted(w)
  BY <1>1, <1>3 DEF MarkReleased, QueueInv, QueueTypeOK
<1>5. \A m \in Leases : /\ lease'[m].work = lease[m].work
                        /\ m \notin {l} => lease'[m].status = lease[m].status
  BY <1>2
<1>6. \A v \in Works : item'[v].attempt = item[v].attempt
  BY <1>3, <1>4
<1>7. \A v \in Works : (\A m \in {l} : lease[m].work # v) => item'[v] = item[v]
  BY <1>3
<1>8. \A v \in Works : (\E m \in {l} : lease[m].work = v) => v = w
  OBVIOUS
<1>9. \A v \in Works : (\E m \in {l} : lease[m].work = v) =>
        /\ item'[v].status \in {"queued", "cancelled", "dead_letter"}
        /\ item'[v].status = "queued" => ~AttemptsExhausted(v)
        /\ item'[v].status = "dead_letter" => AttemptsExhausted(v)
  BY <1>4, <1>8
<1>10. {l} \in SUBSET Leases /\ UNCHANGED commands
       /\ \A m \in {l} : Active(m) /\ lease'[m].status \in {"released", "lost"}
  BY <1>1, <1>2
<1> HIDE DEF ReleaseLease, w
<1>11. Ends({l})
  BY <1>5, <1>6, <1>7, <1>9, <1>10 DEF Ends
<1> QED  BY <1>11, EndingKeeps

LEMMA RecoverKeeps ==
  ASSUME QueueInv, QueueTypeOK', NEW lag \in Lags, RecoverWorkQueue(lag)
  PROVE  QueueInv'
<1> USE DEF RecoverWorkQueue
<1>1. Stale(lag) \in SUBSET Leases /\ \A l \in Stale(lag) : Active(l)
  BY DEF Stale
<1>2. \A l \in Leases : /\ lease'[l].work = lease[l].work
                        /\ l \in Stale(lag) => lease'[l].status = "lost"
                        /\ l \notin Stale(lag) => lease'[l].status = lease[l].status
  BY DEF QueueInv, QueueTypeOK, LeaseRow
<1>3. \A w \in Works : /\ RecoveredItem(w).attempt = item[w].attempt
                       /\ RecoveredItem(w).status \in {"queued", "dead_letter"}
                       /\ RecoveredItem(w).status = "queued" => ~AttemptsExhausted(w)
                       /\ RecoveredItem(w).status = "dead_letter" => AttemptsExhausted(w)
  BY DEF RecoveredItem, MarkReleased, QueueInv, QueueTypeOK
<1>4. \A w \in Works : item'[w] = IF \E l \in Stale(lag) : lease[l].work = w
                                  THEN RecoveredItem(w) ELSE item[w]
  OBVIOUS
<1>5. \A w \in Works : (\A l \in Stale(lag) : lease[l].work # w) => item'[w] = item[w]
  BY <1>4
<1>6. \A w \in Works : (\E l \in Stale(lag) : lease[l].work = w) =>
        /\ item'[w].status \in {"queued", "cancelled", "dead_letter"}
        /\ item'[w].status = "queued" => ~AttemptsExhausted(w)
        /\ item'[w].status = "dead_letter" => AttemptsExhausted(w)
  BY <1>3, <1>4
<1>7. \A w \in Works : item'[w].attempt = item[w].attempt
  BY <1>3, <1>4
<1>8. UNCHANGED commands
  OBVIOUS
<1> HIDE DEF RecoverWorkQueue
<1>9. PICK S : S = Stale(lag)
  OBVIOUS
<1>10. Ends(S)
  <2>1. /\ S \in SUBSET Leases
        /\ \A l \in S : Active(l) /\ lease'[l].status \in {"released", "lost"}
        /\ \A l \in Leases : /\ lease'[l].work = lease[l].work
                             /\ l \notin S => lease'[l].status = lease[l].status
    BY <1>1, <1>2, <1>9
  <2>2. \A w \in Works : (\A l \in S : lease[l].work # w) => item'[w] = item[w]
    BY <1>5, <1>9
  <2>3. \A w \in Works : (\E l \in S : lease[l].work = w) =>
          /\ item'[w].status \in {"queued", "cancelled", "dead_letter"}
          /\ item'[w].status = "queued" => ~AttemptsExhausted(w)
          /\ item'[w].status = "dead_letter" => AttemptsExhausted(w)
    BY <1>6, <1>9
  <2> QED  BY <2>1, <2>2, <2>3, <1>7, <1>8 DEF Ends
<1> QED  BY <1>10, EndingKeeps

LEMMA QueueInvStep == QueueInv /\ [QueueNext]_queueVars => QueueInv'
<1> SUFFICES ASSUME QueueInv, [QueueNext]_queueVars
             PROVE  QueueInv'
  OBVIOUS
<1>1. QueueTypeOK'
  BY QueueTypeStep DEF QueueInv
<1>2. ASSUME NEW w \in Works, AssignRead(w) PROVE QueueInv'
  BY <1>1, <1>2, SameRows DEF AssignRead, QueueInv, QueueBookkeeping
<1>3. ASSUME NEW w \in Works, AssignSave(w) PROVE QueueInv'
  <2>1. item[w].status = "absent" /\ item[w].attempt = 0
    BY <1>3 DEF AssignSave, QueueInv, QueueBookkeeping
  <2>2. /\ item'[w].status = "assigned" /\ item'[w].attempt = 0
        /\ \A v \in Works : v # w => item'[v] = item[v]
    BY <1>3 DEF AssignSave, QueueInv, QueueTypeOK
  <2> QED  BY <1>1, <1>3, <2>1, <2>2, OneRow DEF AssignSave
<1>4. ASSUME NEW w \in Works, MaterializeWork(w) PROVE QueueInv'
  <2>1. item[w].status = "absent" /\ item[w].attempt = 0
    BY <1>4 DEF MaterializeWork, QueueInv, QueueBookkeeping
  <2>2. [op |-> "assign", work |-> w] \notin commands
    BY <1>4 DEF MaterializeWork, QueueInv, QueueBookkeeping
  <2>3. /\ item'[w].status \in {"assigned", "queued"} /\ item'[w].attempt = 0
        /\ \A v \in Works : v # w => item'[v] = item[v]
    BY <1>4 DEF MaterializeWork, QueueInv, QueueTypeOK
  <2> QED  BY <1>1, <1>4, <2>1, <2>2, <2>3, OneRow DEF MaterializeWork
<1>5. ASSUME NEW w \in Works, AcceptInboxAndQueueWork(w) PROVE QueueInv'
  <2>1. [op |-> "assign", work |-> w] \notin commands
    BY <1>5 DEF AcceptInboxAndQueueWork, QueueInv, QueueBookkeeping
  <2>2. /\ item'[w].status = "queued" /\ item'[w].attempt = item[w].attempt
        /\ \A v \in Works : v # w => item'[v] = item[v]
    BY <1>5 DEF AcceptInboxAndQueueWork, QueueInv, QueueTypeOK
  <2> QED  BY <1>1, <1>5, <2>1, <2>2, OneRow DEF AcceptInboxAndQueueWork
<1>6. ASSUME NEW w \in Works, DeferRead(w) \/ DeferSave(w) PROVE QueueInv'
  <2>1. \A v \in Works : [op |-> "assign", work |-> v] \in commands' =>
                         [op |-> "assign", work |-> v] \in commands
    BY <1>6 DEF DeferRead, DeferSave
  <2> QED  BY <1>1, <1>6, <2>1, SameRows DEF DeferRead, DeferSave, QueueInv, QueueBookkeeping
<1>7. ASSUME NEW a \in Agents, AgentRead(a) \/ AgentSave(a) PROVE QueueInv'
  <2>1. \A v \in Works : [op |-> "assign", work |-> v] \in commands' =>
                         [op |-> "assign", work |-> v] \in commands
    BY <1>7 DEF AgentRead, AgentSave
  <2> QED  BY <1>1, <1>7, <2>1, SameRows DEF AgentRead, AgentSave, QueueInv, QueueBookkeeping
<1>8. CASE CommandLost
  BY <1>1, <1>8, SameRows DEF CommandLost, QueueInv, QueueBookkeeping
<1>9. ASSUME NEW l \in Leases, NEW lag \in Lags, RenewLease(l, lag) PROVE QueueInv'
  <2>1. \A m \in Leases : /\ lease'[m].work = lease[m].work
                          /\ lease'[m].status = lease[m].status
    BY <1>9 DEF RenewLease, QueueInv, QueueTypeOK
  <2> QED  BY <1>1, <1>9, <2>1, SameRows DEF RenewLease, QueueInv, QueueBookkeeping
<1>10. CASE Tick
  <2>1. \A m \in Leases : /\ lease'[m].work = lease[m].work
                          /\ lease'[m].status = lease[m].status
    BY <1>10 DEF Tick, QueueInv, QueueTypeOK, LeaseRow
  <2> QED  BY <1>1, <1>10, <2>1, SameRows DEF Tick, QueueInv, QueueBookkeeping
<1>11. CASE UNCHANGED queueVars
  BY <1>1, <1>11, SameRows DEF queueVars, QueueInv, QueueBookkeeping
<1> QED
  BY <1>1, <1>2, <1>3, <1>4, <1>5, <1>6, <1>7, <1>8, <1>9, <1>10, <1>11,
     ClaimKeeps, ReleaseKeeps, RecoverKeeps
     DEF QueueNext, Feed, Lifecycle, Hold, GiveUp, ClaimNext, NextCandidates

THEOREM QueueInvariant == QueueSpec => []QueueInv
  BY QueueInvInit, QueueInvStep, PTL DEF QueueSpec

\* At most one active lease per work item, for any number of agents, items and leases.
THEOREM LeaseExclusiveHolds == QueueSpec => []LeaseExclusive
<1>1. QueueInv => LeaseExclusive
  BY DEF QueueInv
<1> QED  BY <1>1, QueueInvariant, PTL

\* The item's status and the lease table never disagree.
THEOREM LeasedIffHeldHolds == QueueSpec => []LeasedIffHeld
<1>1. QueueInv => LeasedIffHeld
  BY DEF QueueInv
<1> QED  BY <1>1, QueueInvariant, PTL

\* Every attempt is one lease row, and their number stays within max_attempts.
THEOREM AttemptsAccountedHolds == QueueSpec => []AttemptsAccounted
<1>1. QueueInv => AttemptsAccounted
  BY DEF QueueInv
<1> QED  BY <1>1, QueueInvariant, PTL

\* No agent ever holds more active leases than it may run.
THEOREM RunCapHolds == QueueSpec => []RunCap
<1>1. QueueInv => RunCap
  BY DEF QueueInv
<1> QED  BY <1>1, QueueInvariant, PTL

\* Only exhausted work is dead-lettered, and exhausted work is never offered again.
THEOREM DeadLetterHolds == QueueSpec => []DeadLetterMeansExhausted
<1>1. QueueInv => DeadLetterMeansExhausted
  BY DEF QueueInv
<1> QED  BY <1>1, QueueInvariant, PTL

\* No command brings a cancelled or dead-lettered item back.
THEOREM TerminalIsFinalHolds == QueueSpec => TerminalIsFinal
<1>1. QueueInv /\ [QueueNext]_queueVars =>
        [\A w \in Works : item[w].status \in Terminal => item'[w] = item[w]]_queueVars
  <2> SUFFICES ASSUME QueueInv, QueueNext, NEW w \in Works, item[w].status \in Terminal
               PROVE  item'[w] = item[w]
    OBVIOUS
  <2>1. \A l \in Leases : Active(l) => lease[l].work # w
    BY DEF QueueInv, LeasedIffHeld, ActiveLeases, Terminal
  <2>2. [op |-> "assign", work |-> w] \notin commands
    BY DEF QueueInv, QueueBookkeeping, Terminal
  <2>3. CASE Feed
    BY <2>2, <2>3 DEF Feed, AssignRead, AssignSave, MaterializeWork, AcceptInboxAndQueueWork,
       DeferRead, DeferSave, Terminal, QueueInv, QueueTypeOK
  <2>4. CASE Lifecycle
    BY <2>4 DEF Lifecycle, AgentRead, AgentSave, CommandLost
  <2>5. CASE Hold
    BY <2>5 DEF Hold, ClaimNext, NextCandidates, Claim, ValidateClaim, RenewLease, Terminal,
       QueueInv, QueueTypeOK
  <2>6. CASE GiveUp
    <3>1. ASSUME NEW l \in Leases, NEW requeue \in BOOLEAN, ReleaseLease(l, requeue)
          PROVE  item'[w] = item[w]
      BY <2>1, <3>1 DEF ReleaseLease, QueueInv, QueueTypeOK
    <3>2. ASSUME NEW lag \in Lags, RecoverWorkQueue(lag)
          PROVE  item'[w] = item[w]
      BY <2>1, <3>2 DEF RecoverWorkQueue, Stale
    <3> QED  BY <2>6, <3>1, <3>2 DEF GiveUp
  <2>7. CASE Tick
    BY <2>7 DEF Tick
  <2> QED  BY <2>3, <2>4, <2>5, <2>6, <2>7 DEF QueueNext
<1> QED  BY <1>1, QueueInvariant, PTL DEF QueueSpec, TerminalIsFinal
=============================================================================
