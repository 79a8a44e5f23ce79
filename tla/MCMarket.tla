------------------------------ MODULE MCMarket ------------------------------
(* Two items of one owner, one of them with shares, and two other users.      *)
EXTENDS Market, TLC

CONSTANTS owner, u1, u2, i1, i2

MCUsers == {owner, u1, u2}
MCItems == {i1, i2}
MCOwner == [i \in MCItems |-> owner]
MCListed == {i1}
MarketSymmetry == Permutations(Requests) \cup Permutations({u1, u2})
=============================================================================
