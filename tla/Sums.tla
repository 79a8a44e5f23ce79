-------------------------------- MODULE Sums --------------------------------
(***************************************************************************)
(* Totals of a table column: the sum of f[x] over the rows x of a finite   *)
(* set.  The total is the number of units the rows hold, one pair <<x, k>> *)
(* for the k-th unit of row x, so that what an update does to it follows   *)
(* from the theorems on cardinalities, without a recursion over the rows.  *)
(***************************************************************************)
EXTENDS Integers, FiniteSets

Units(S, f) == UNION {{x} \X (1..f[x]) : x \in S}

SumOver(S, f) == Cardinality(Units(S, f))

=============================================================================
