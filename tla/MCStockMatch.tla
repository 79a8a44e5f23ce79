---------------------------- MODULE MCStockMatch ----------------------------
(***************************************************************************)
(* Instances of StockMatch for TLC: the users as model values and the      *)
(* message types of each question.                                         *)
(***************************************************************************)
EXTENDS StockMatchClaims, TLC

CONSTANTS u1, u2

Trading == {"BUY", "SELL", "CANCEL"}
Modifying == {"BUY", "SELL", "MODIFY_BUY", "MODIFY_SELL"}
Closing == {"BUY", "SELL", "DELETE", "HIDE_ITEM"}
Everything == Trading \cup Modifying \cup Closing
=============================================================================
