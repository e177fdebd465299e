-------------------------------- MODULE MCMcp --------------------------------
(* One tool call as it is proposed, approved and executed, for TLC: a policy   *)
(* that asks for docker and one that does not, a registry with a test server,  *)
(* one with a real one, and proposals that differ in their arguments.          *)
EXTENDS McpApproval

MCPolicies == {[valid |-> TRUE, tools |-> {"read"}, docker |-> TRUE, limit |-> 1],
               [valid |-> TRUE, tools |-> {"read"}, docker |-> FALSE, limit |-> 2]}
MCConfigs == {[valid |-> TRUE, known |-> TRUE, enabled |-> FALSE, stdio |-> TRUE, caps |-> {"read"}, testOnly |-> t] : t \in BOOLEAN}
MCRuntimes == {"runtime"}
MCDrafts == {[tool |-> "read", args |-> 1, runtime |-> "docker", paths |-> {"config", "runtime"}],
             [tool |-> "read", args |-> 2, runtime |-> "local", paths |-> {"config"}]}
MCStarts == {[policy |-> p, config |-> c, runtime |-> "runtime"] :
               p \in {q \in MCPolicies : ~q.docker}, c \in {d \in MCConfigs : ~d.testOnly}}
=============================================================================
