-------------------------- MODULE MCStockExchange --------------------------
(***************************************************************************)
(* Small instances of StockExchange.                                       *)
(***************************************************************************)
EXTENDS StockExchange, TLC

CONSTANTS u1, u2, h1, h2

ExchangeSymmetry == Permutations(Handlers)

=============================================================================
