-------------------------------- MODULE Sums --------------------------------
(* Sums of tables of natural numbers, as the number of coins they take: a total that *)
(* is reasoned about by counting, without a fold over the table.                     *)
EXTENDS Integers, FiniteSets

\* amount[x] coins for each entry x of the table.
Coins(amount) == UNION {{x} \X (1 .. amount[x]) : x \in DOMAIN amount}

Total(amount) == Cardinality(Coins(amount))
=============================================================================
