---------------------------- MODULE MCWorkQueue ----------------------------
(* Small instances of WorkQueue. *)
EXTENDS WorkQueue, TLC

CONSTANTS a1, w1, w2

\* One agent, two items: enough for every race on one item and for the cap.
OneAgentOf == (w1 :> a1) @@ (w2 :> a1)
OneMaxAttempts == (w1 :> 2) @@ (w2 :> 0)
OneMaxRuns == a1 :> 1
OnePriority == (w1 :> 50) @@ (w2 :> 80)
OneDeps == [w \in {w1, w2} |-> {}]
=============================================================================
