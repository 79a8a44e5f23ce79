----------------------------- MODULE MCProfits -----------------------------
(***************************************************************************)
(* Profits for TLC: three months, of which the second has two days.        *)
(***************************************************************************)
EXTENDS Profits

CONSTANTS me, other

\* The number of days of each month.
TwoDays == <<1, 2, 1>>
=============================================================================
