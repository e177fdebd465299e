---------------------------- MODULE StageTables ----------------------------
(***************************************************************************)
(* The vocabulary of the stage tables.  A reference <<f, f>> is the SHA-256 *)
(* of the file f that a command computes when it loads it, <<f, x>> the     *)
(* hash of x recorded in f.  A stage is named after the artifact it writes. *)
(***************************************************************************)
EXTENDS TLC

\* f records the hash that each file of S has now.
Pins(f, S) == {<< <<f, x>>, <<x, x>> >> : x \in S}

\* f and g record the same hash for each subject of S.
Same(f, g, S) == {<< <<f, x>>, <<g, x>> >> : x \in S}

\* What is recorded: the hashes of the files S as loaded, and the hashes of
\* the subjects S as f records them.
Hashes(S) == [x \in S |-> <<x, x>>]
CopiedFrom(f, S) == [x \in S |-> <<f, x>>]

\* A stage that loads the files of reads, requires the flags of those in
\* ready, compares the pairs of agree and records keeps.
StageThat(reads, ready, agree, keeps) ==
  [reads |-> reads, ready |-> ready, agree |-> agree, keeps |-> keeps,
   parses |-> reads, writes |-> {}, from |-> {}, timed |-> FALSE,
   onFailure |-> FALSE, vital |-> {}]

\* Requests and approvals carry the time they were made.
Timed(stage) == [stage EXCEPT !.timed = TRUE]

\* Stages that write a failed result too.
AlsoFailed(stage) == [stage EXCEPT !.onFailure = TRUE]

\* Those that exit without one when a file of vital does not parse.
AlsoFailedGiven(vital, stage) == [AlsoFailed(stage) EXCEPT !.vital = vital]

\* A report prints its result, which the operator saves, failed or not; it
\* must parse what it reads.
Reports(stage) == AlsoFailedGiven(stage.reads, stage)

\* A stage that hashes the files of S without parsing them.
OnlyHashes(S, stage) == [stage EXCEPT !.parses = @ \ S]

\* A stage that first renders the text t from the files of S.
Renders(stage, t, S) == [stage EXCEPT !.writes = {t}, !.from = S]
=============================================================================
