---------------------------- MODULE MCHistories ----------------------------
(***************************************************************************)
(* Histories for TLC: two users, two days behind the client and two rows   *)
(* of every list.                                                          *)
(***************************************************************************)
EXTENDS Histories, TLC

CONSTANTS me, other

Item(u, t) == [owner |-> u, titled |-> TRUE, show |-> TRUE, deleted |-> FALSE, at |-> t]
Sale(u, i, t) == [buyer |-> u, item |-> i, at |-> t, available |-> TRUE]
Used(u, type, i, t) == [user |-> u, type |-> type, ref |-> i, at |-> t]
Stock(u, t) == Item(u, t) @@ [price |-> 1]
Holding(u, s, v, t) == [user |-> u, stock |-> s, volume |-> v, at |-> t, touched |-> t]
Order(u, s, d, t) == [user |-> u, stock |-> s, type |-> d, volume |-> 1, open |-> TRUE, at |-> t]
Asked(kind, t) == [user |-> Me, kind |-> kind, status |-> "PENDING", at |-> t]

\* Moments 0 and 1 are the first day, 2 and 3 the second.  The asker sells two
\* items and has opened two for shares, two shares each; the other user bought an
\* item and a share on each day.
FirstRows ==
    [items |-> <<Item(Me, 0), Item(other, 0), Item(Me, 2)>>,
     sales |-> <<Sale(Me, 2, 1), Sale(other, 1, 1), Sale(other, 1, 2)>>,
     carts |-> <<[user |-> Me, item |-> 2, gone |-> FALSE]>>,
     videos |-> <<[owner |-> Me, titled |-> TRUE, deleted |-> FALSE]>>,
     stocks |-> <<Stock(Me, 0), Stock(Me, 2)>>,
     accounts |-> <<Holding(Me, 1, 1, 1), Holding(other, 1, 1, 1), Holding(Me, 2, 1, 2),
                    Holding(other, 2, 1, 2)>>,
     lives |-> <<Filled(Order(Me, 1, "SELL", 0)), Filled(Order(other, 1, "BUY", 1)),
                 Filled(Order(Me, 2, "SELL", 2)), Filled(Order(other, 2, "BUY", 2)),
                 Order(Me, 1, "SELL", 1), Order(Me, 2, "SELL", 3), Order(other, 1, "BUY", 3)>>,
     matches |-> <<[seller |-> Me, buyer |-> other, stock |-> 1, at |-> 1],
                   [seller |-> Me, buyer |-> other, stock |-> 2, at |-> 2]>>,
     payments |-> <<[user |-> Me, status |-> "PAID", at |-> 0], [user |-> Me, status |-> "PAID", at |-> 2]>>,
     usages |-> <<Used(Me, "PROMPT", 0, 0), Used(Me, "MARKET", 2, 1), Used(other, "MARKET", 1, 1),
                  Used(other, "STOCK_MATCH_BUY", 1, 1), Used(other, "MARKET", 1, 2),
                  Used(other, "STOCK_MATCH_BUY", 2, 2)>>,
     outflows |-> [k \in 1..2 |->
        [user |-> Me, type |-> "REFUND", status |-> "PENDING", at |-> 2 * k - 2]],
     people |-> [k \in 1..2 |-> [titled |-> TRUE]],
     asks |-> <<Asked("customer", 0), Asked("business", 1), Asked("customer", 2), Asked("business", 3)>>,
     faqs |-> [k \in 1..2 |-> [gone |-> FALSE]], memos |-> [k \in 1..2 |-> [user |-> Me]]]

TwoDays == <<0, 1>>
=============================================================================
