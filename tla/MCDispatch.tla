----------------------------- MODULE MCDispatch -----------------------------
(* Small instances of Dispatch: one agent, items a schedule materializes. *)
EXTENDS Dispatch, TLC

CONSTANTS a, MaxTries, RunsAtOnce

AgentOfAll == [w \in Works |-> a]
TriesOfAll == [w \in Works |-> MaxTries]
RunsOfAll == [b \in Agents |-> RunsAtOnce]
SamePriority == [w \in Works |-> 0]
NoDeps == [w \in Works |-> {}]
DispatchSymmetry == Permutations(Runs) \cup Permutations(Leases)
=============================================================================
