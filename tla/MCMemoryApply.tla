---- MODULE MCMemoryApply ----
EXTENDS MemoryApply

Act(op, target, archive, text) == [op |-> op, target |-> target, archive |-> archive, text |-> text]

MCPaths == {"a", "b", "c"}
MCPieces == {"a0", "b0", "x", "y"}
MCOriginal == [p \in MCPaths |-> CASE p = "a" -> <<"a0">> [] p = "b" -> <<"b0">> [] OTHER -> Missing]

\* Three files: two are there; an update, a move to the third name, an append, a create, and
\* two appends to one file.
MCProposals ==
    {[target |-> "a", patches |-> <<Act("update", "a", "a", "x"), Act("archive", "b", "c", "x")>>],
     [target |-> "a", patches |-> <<Act("append", "a", "a", "x"), Act("create", "c", "c", "y")>>],
     [target |-> "a", patches |-> <<Act("append", "a", "a", "x"), Act("append", "a", "a", "y")>>]}

\* A path may come under protection.
MCPolicies ==
    {[bridge |-> {}, protected |-> {}, writable |-> MCPaths],
     [bridge |-> {"a"}, protected |-> {"a", "b"}, writable |-> MCPaths]}

\* Two appends to one file, as the backup plan's deduplication allows for.
MCAppends ==
    {[target |-> "a", patches |-> <<Act("append", "a", "a", "x"), Act("append", "a", "a", "y")>>]}
====
