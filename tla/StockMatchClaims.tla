-------------------------- MODULE StockMatchClaims --------------------------
(***************************************************************************)
(* What a comment of the repository says of the matching engine and the    *)
(* code does not do: a run refutes it.                                     *)
(***************************************************************************)
EXTENDS StockMatch

\* usage-history.entity.ts describes its amount as the points consumed, and a
\* row is written for the buyer of every match: the points of all accounts,
\* prepaid orders and fees together do not change.
UsageIsSpent ==
    SumOver(Users, committed.balance) + Escrow(committed.orders) + committed.fees + unrefunded
        = InitialPoints + unfunded
=============================================================================
