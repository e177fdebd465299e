------------------------------- MODULE MCRunner -------------------------------
(* A run, for TLC: a task that may change one path and asks for a preflight, one *)
(* that only reads, one without a policy for proposals; workers that change one  *)
(* path or both, as git sees it or not, with every combination of a proposal and *)
(* an approval.  Runs share nothing but the prunes, which treat each by itself.  *)
EXTENDS Runner

MCTasks == {[allowed |-> {"in"}, policy |-> "required", memory |-> FALSE],
            [allowed |-> {}, policy |-> "optional", memory |-> TRUE],
            [allowed |-> Paths, policy |-> "none", memory |-> FALSE]}
Change(path, how) == [path |-> path, how |-> how]
MCChanges == {{}, {Change("in", "tracked")}, {Change("out", "untracked")},
              {Change("in", "untracked"), Change("out", "tracked")}, {Change("out", "unseen")}}
MCResults == [ok: BOOLEAN, changes: MCChanges, says: {"ok", "invalid", "garbled"},
              artifacts: {<<>>, <<"proposal">>, <<"approval">>, <<"proposal", "approval">>, <<"approval", "proposal">>}]
=============================================================================
