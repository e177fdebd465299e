---------------------------- MODULE MCProactive ----------------------------
(* Small instances of Proactive. *)
EXTENDS Proactive

Daily(kind, every) ==
  [kind |-> kind, every |-> every, at |-> 1, catchUpAll |-> FALSE, policy |-> "skip",
   lateness |-> 0, hours |-> 0..MaxTime]

\* A heartbeat that catches up and has its hours, a one-shot schedule, and a webhook that ends
\* every run with an error while it is active.
AloneConfig ==
  <<[Daily("heartbeat", 2) EXCEPT !.catchUpAll = TRUE, !.hours = 1..MaxTime],
    [Daily("at", 1) EXCEPT !.policy = "allow"],
    Daily("webhook", 1)>>

\* An interval schedule that catches up, and a webhook that no due time can be computed for.
OverlapConfig ==
  <<[Daily("every", 1) EXCEPT !.policy = "coalesce", !.catchUpAll = TRUE, !.lateness = 1],
    Daily("webhook", 1)>>

=============================================================================
