------------------------------- MODULE Market -------------------------------
(* The market for videos: purchases and batch purchases, paid in CL and       *)
(* shared between the holders of an item's shares, the cart, likes, views and *)
(* the owner's updates.  A request is broken where it waits for a query or an *)
(* upload.  A purchase is one transaction and one step: its account updates   *)
(* are increments, its reads are of one snapshot, and the insert of the sale  *)
(* makes purchases of one item wait for each other.                           *)
EXTENDS Integers, Sequences, FiniteSets, FiniteSetsExt, Sums

CONSTANTS
    Users, Items, Owner,
    Requests,      \* bound: each of them serves one call of the API
    Prices,        \* in units in which every share of a price is whole
    ShareTotal,    \* STOCK_ACCOUNT_MAX_VOLUME
    Listed,        \* the items whose shares are listed at the start
    Opening,       \* balance of every user at the start
    MaxTrades, MaxShows   \* bounds on share transfers and changes of isShow

ASSUME MarketAssumption ==
    /\ IsFiniteSet(Users) /\ Owner \in [Items -> Users] /\ Listed \subseteq Items
    /\ ShareTotal \in Nat \ {0} /\ Opening \in Nat /\ MaxTrades \in Nat /\ MaxShows \in Nat
    /\ \A p \in Prices : p \in Nat /\ p > 0 /\ p % (5 * ShareTotal) = 0

VARIABLES
    item,         \* mc_market_item
    shares,       \* mc_stock_account of each item in the order of ids
    balance,      \* mc_account in CL
    history,      \* mc_account_history: the sum of a user's rows
    sales,        \* mc_market_history, with what the sale moved
    likes,        \* mc_market_like: number of rows
    cart,         \* mc_market_cart
    req,          \* each request: its step and what it has read
    overwritten,  \* history: the items an update wrote a stale row of
    budget

vars == <<item, shares, balance, history, sales, likes, cart, req, overwritten, budget>>
tables == <<item, shares, balance, history, sales, likes, cart, overwritten, budget>>
money == <<balance, history, sales>>

Free == [step |-> "free"]
Done == [step |-> "done"]
Becomes(r, x) == req' = [req EXCEPT ![r] = x]

Fee(price) == price \div 5
Remain(price) == price - Fee(price)
SalesOf(i) == {k \in DOMAIN sales : sales[k].item = i}

(* A share of a price; what all rows of an item add up to.                    *)
Part(price, volume) == (price * volume) \div ShareTotal
Held(rows) == [k \in DOMAIN rows |-> rows[k].volume]
Volumes(rows) == SumOver(DOMAIN rows, Held(rows))
VolumeOf(rows, u) == SumOver({k \in DOMAIN rows : rows[k].user = u}, Held(rows))

Init ==
    /\ \E p \in Prices :
         item = [i \in Items |-> [price |-> p, isShow |-> TRUE, isDeleted |-> FALSE,
                                  likeCnt |-> 0, viewCnt |-> 0, purchaseCnt |-> 0]]
    /\ shares = [i \in Items |-> IF i \in Listed
                   THEN <<[user |-> Owner[i], volume |-> ShareTotal]>> ELSE <<>>]
    /\ balance = [u \in Users |-> Opening] /\ history = [u \in Users |-> 0]
    /\ sales = <<>> /\ likes = [i \in Items |-> [u \in Users |-> 0]] /\ cart = {}
    /\ req = [r \in Requests |-> Free] /\ overwritten = {}
    /\ budget = [trades |-> MaxTrades, shows |-> MaxShows]

----------------------------------------------------------------------------
(* Purchases.                                                                 *)

(* The guard lets an item pass that is hidden and not deleted.                *)
StartPurchase(r, u, i) ==
    /\ req[r] = Free /\ (item[i].isShow \/ ~item[i].isDeleted) /\ Owner[i] # u
    /\ Becomes(r, [step |-> "lookup", kind |-> "one", user |-> u, item |-> i,
                   entity |-> item[i], shared |-> FALSE, todo |-> <<>>])
    /\ UNCHANGED tables

(* Are there shares?  Asked of the owner's row and of an item that is shown.  *)
OwnerIsFound(i) ==
    /\ item[i].isShow /\ ~item[i].isDeleted
    /\ \E k \in DOMAIN shares[i] : shares[i][k].user = Owner[i]
Lookup(r) ==
    /\ req[r].step = "lookup"
    /\ Becomes(r, [req[r] EXCEPT !.step = "pay", !.shared = OwnerIsFound(req[r].item)])
    /\ UNCHANGED tables

(* Everything is checked before anything is bought, the balance against the   *)
(* total that the client sent.                                                *)
StartBatch(r, u, todo) ==
    /\ req[r] = Free
    /\ \A k \in DOMAIN todo :
         Owner[todo[k]] # u /\ item[todo[k]].isShow /\ ~item[todo[k]].isDeleted
    /\ Becomes(r, [step |-> "next", kind |-> "batch", user |-> u, item |-> todo[1],
                   entity |-> item[todo[1]], shared |-> FALSE, todo |-> todo])
    /\ UNCHANGED tables

(* The next item of a batch is read again and bought without its shares.      *)
BatchNext(r) ==
    /\ req[r].step = "next"
    /\ IF req[r].todo = <<>> THEN Becomes(r, Done)
       ELSE LET i == Head(req[r].todo) IN
            Becomes(r, [req[r] EXCEPT !.step = "pay", !.item = i, !.entity = item[i]])
    /\ UNCHANGED tables

(* The row of the sale: cumulative amounts from the rows, counts from what    *)
(* was read before.                                                           *)
Cumulative(i) == Max({0} \cup {sales[k].cumulative : k \in SalesOf(i)})

Sale(q, paid, profits) ==
    [item |-> q.item, buyer |-> q.user, price |-> q.entity.price,
     amount |-> Remain(q.entity.price), fee |-> Fee(q.entity.price),
     cumulative |-> Cumulative(q.item) + q.entity.price, cnt |-> q.entity.purchaseCnt + 1,
     shared |-> q.shared, listed |-> shares[q.item] # <<>>, paid |-> paid, profits |-> profits]

CountedReadFault(q) == [item EXCEPT ![q.item].purchaseCnt = q.entity.purchaseCnt + 1]  \* from the row as read
Counted(q) == [item EXCEPT ![q.item].purchaseCnt = @ + 1]

Paid(r) ==
    Becomes(r, IF req[r].kind = "one" THEN Done ELSE [req[r] EXCEPT !.step = "uncart"])

(* Without shares the owner gets what remains after the fee.                  *)
PayOwnerNetFault(r) ==   \* the withdrawal is recorded after the fee
    LET q == req[r]  u == q.user  o == Owner[q.item]  price == q.entity.price IN
    /\ q.step = "pay" /\ ~q.shared
    /\ balance' = [balance EXCEPT ![u] = @ - price, ![o] = @ + Remain(price)]
    /\ history' = [history EXCEPT ![u] = @ - Remain(price), ![o] = @ + Remain(price)]
    /\ sales' = Append(sales, Sale(q, price, Remain(price)))
    /\ item' = Counted(q) /\ Paid(r)
    /\ UNCHANGED <<shares, likes, cart, overwritten, budget>>

PayOwner(r) ==
    LET q == req[r]  u == q.user  o == Owner[q.item]  price == q.entity.price IN
    /\ q.step = "pay" /\ ~q.shared
    /\ balance' = [balance EXCEPT ![u] = @ - price, ![o] = @ + Remain(price)]
    /\ history' = [history EXCEPT ![u] = @ - price, ![o] = @ + Remain(price)]
    /\ sales' = Append(sales, Sale(q, price, Remain(price)))
    /\ item' = Counted(q) /\ Paid(r)
    /\ UNCHANGED <<shares, likes, cart, overwritten, budget>>

(* With shares every holder gets its part.  The withdrawals of the buyer, one *)
(* for each holder, are one CASE on one account: only the first takes effect, *)
(* while the history has them all.                                            *)
ProfitsOthersFault(q, rows) ==    \* the buyer's own row is left out
    [u \in Users |-> IF u = q.user THEN 0 ELSE Part(Remain(q.entity.price), VolumeOf(rows, u))]
Profits(q, rows) == [u \in Users |-> Part(Remain(q.entity.price), VolumeOf(rows, u))]

Charged(q, rows) == Part(q.entity.price, rows[1].volume)
SharesOut(rows) == rows # <<>> /\ \A k \in DOMAIN rows : rows[k].volume > 0

PayHolders(r) ==
    LET q == req[r]  rows == shares[q.item]  profit == Profits(q, rows) IN
    /\ q.step = "pay" /\ q.shared /\ SharesOut(rows)
    /\ balance' = [u \in Users |-> balance[u] + profit[u]
                     - (IF u = q.user THEN Charged(q, rows) ELSE 0)]
    /\ history' = [u \in Users |-> history[u] + profit[u]
                     - (IF u = q.user THEN Part(q.entity.price, Volumes(rows)) ELSE 0)]
    /\ sales' = Append(sales, Sale(q, Charged(q, rows), SumOver(Users, profit)))
    /\ item' = Counted(q) /\ Paid(r)
    /\ UNCHANGED <<shares, likes, cart, overwritten, budget>>

(* The transaction is rolled back and the API answers with an error: a query  *)
(* fails, a row of volume zero is refused by the bulk update, or the list is  *)
(* empty, because the item, whose whole entity is the condition, has changed  *)
(* since it was read.  PayHolders says when this is the only outcome.         *)

TransactionFailsFault(r) ==    \* Fault: a batch goes on as if it were paid
    req[r].step = "pay" /\ Paid(r) /\ UNCHANGED tables
TransactionFails(r) == req[r].step = "pay" /\ Becomes(r, Done) /\ UNCHANGED tables

(* After a purchase of a batch its cart row is deleted.                       *)
UncartPaid(r) ==
    /\ req[r].step = "uncart"
    /\ cart' = cart \ {<<req[r].user, req[r].item>>}
    /\ Becomes(r, [req[r] EXCEPT !.step = "next", !.todo = Tail(@)])
    /\ UNCHANGED <<item, shares, balance, history, sales, likes, overwritten, budget>>

----------------------------------------------------------------------------
(* Cart, likes, views.  A like is checked, stored and counted by three queries. *)

CreateCart(r, u, i) ==
    /\ req[r] = Free /\ Becomes(r, Done) /\ cart' = cart \cup {<<u, i>>}
    /\ UNCHANGED <<item, shares, likes, money, overwritten, budget>>

DeleteCart(r, u, i) ==
    /\ req[r] = Free /\ <<u, i>> \in cart
    /\ Becomes(r, [step |-> "done", uncart |-> <<u, i>>]) /\ cart' = cart \ {<<u, i>>}
    /\ UNCHANGED <<item, shares, likes, money, overwritten, budget>>

StartLike(r, u, i) ==
    /\ req[r] = Free /\ likes[i][u] = 0
    /\ Becomes(r, [step |-> "like", user |-> u, item |-> i]) /\ UNCHANGED tables

Like(r) ==
    /\ req[r].step = "like"
    /\ likes' = [likes EXCEPT ![req[r].item][req[r].user] = @ + 1]
    /\ Becomes(r, [req[r] EXCEPT !.step = "liked"])
    /\ UNCHANGED <<item, shares, cart, money, overwritten, budget>>

StartUnlike(r, u, i) ==
    /\ req[r] = Free /\ likes[i][u] > 0
    /\ Becomes(r, [step |-> "unlike", user |-> u, item |-> i]) /\ UNCHANGED tables

Unlike(r) ==
    /\ req[r].step = "unlike"
    /\ likes' = [likes EXCEPT ![req[r].item][req[r].user] = 0]
    /\ Becomes(r, [req[r] EXCEPT !.step = "unliked"])
    /\ UNCHANGED <<item, shares, cart, money, overwritten, budget>>

Count(r, step, delta) ==
    /\ req[r].step = step
    /\ item' = [item EXCEPT ![req[r].item].likeCnt = @ + delta]
    /\ Becomes(r, Done)
    /\ UNCHANGED <<shares, likes, cart, money, overwritten, budget>>

IncreaseLikeCnt(r) == Count(r, "liked", 1)
DecreaseLikeCnt(r) == Count(r, "unliked", -1)

IncreaseViewCnt(r, i) ==
    /\ req[r] = Free /\ item[i].isShow /\ ~item[i].isDeleted
    /\ item' = [item EXCEPT ![i].viewCnt = @ + 1] /\ Becomes(r, Done)
    /\ UNCHANGED <<shares, likes, cart, money, overwritten, budget>>

----------------------------------------------------------------------------
(* The owner's update reads the row, uploads a thumbnail and saves the whole  *)
(* row as it was read.                                                        *)

StartUpdate(r, i, price) ==
    /\ req[r] = Free
    /\ Becomes(r, [step |-> "save", item |-> i, entity |-> [item[i] EXCEPT !.price = price]])
    /\ UNCHANGED tables

Save(r) ==
    LET i == req[r].item  stale == [item[i] EXCEPT !.price = 0] # [req[r].entity EXCEPT !.price = 0] IN
    /\ req[r].step = "save"
    /\ item' = [item EXCEPT ![i] = req[r].entity]
    /\ overwritten' = IF stale THEN overwritten \cup {i} ELSE overwritten
    /\ Becomes(r, Done)
    /\ UNCHANGED <<shares, likes, cart, money, budget>>

(* The owner deletes an item.  Shares that the lookup finds have to be all its *)
(* own, and the daemon deletes them if that still holds, before the item is   *)
(* marked; of a hidden item it finds none, whoever holds them, and they stay. *)
OwnerHasAll(i) == VolumeOf(shares[i], Owner[i]) = ShareTotal

StartDelete(r, i) ==
    /\ req[r] = Free /\ (OwnerIsFound(i) => OwnerHasAll(i))
    /\ Becomes(r, [step |-> IF OwnerIsFound(i) THEN "unlist" ELSE "remove", item |-> i])
    /\ UNCHANGED tables

Unlist(r) ==
    LET i == req[r].item IN
    /\ req[r].step = "unlist"
    /\ IF OwnerHasAll(i)
       THEN shares' = [shares EXCEPT ![i] = <<>>] /\ Becomes(r, [req[r] EXCEPT !.step = "remove"])
       ELSE UNCHANGED shares /\ Becomes(r, Done)
    /\ UNCHANGED <<item, likes, cart, money, overwritten, budget>>

MarkDeleted(r) ==
    /\ req[r].step = "remove"
    /\ item' = [item EXCEPT ![req[r].item].isDeleted = TRUE, ![req[r].item].isShow = FALSE]
    /\ Becomes(r, Done)
    /\ UNCHANGED <<shares, likes, cart, money, overwritten, budget>>

----------------------------------------------------------------------------
(* Others: the engine transfers shares, the administration shows and hides    *)
(* items, the process dies.                                                   *)

Transferred(rows, seller, buyer) ==
    LET sold == [k \in DOMAIN rows |-> IF rows[k].user = seller
                   THEN [rows[k] EXCEPT !.volume = @ - 1] ELSE rows[k]]
        has == {k \in DOMAIN rows : rows[k].user = buyer} IN
    IF has = {} THEN Append(sold, [user |-> buyer, volume |-> 1])
    ELSE [k \in DOMAIN rows |-> IF k \in has THEN [sold[k] EXCEPT !.volume = @ + 1] ELSE sold[k]]

Trade(i, seller, buyer) ==
    /\ budget.trades > 0 /\ budget' = [budget EXCEPT !.trades = @ - 1]
    /\ seller # buyer /\ VolumeOf(shares[i], seller) > 0
    /\ shares' = [shares EXCEPT ![i] = Transferred(@, seller, buyer)]
    /\ UNCHANGED <<item, likes, cart, money, req, overwritten>>

ShowOrHide(i) ==
    /\ budget.shows > 0 /\ budget' = [budget EXCEPT !.shows = @ - 1]
    /\ ~item[i].isDeleted
    /\ item' = [item EXCEPT ![i].isShow = ~@]
    /\ UNCHANGED <<shares, likes, cart, money, req, overwritten>>

Crash ==
    /\ \E r \in Requests : req[r].step \notin {"free", "done"}
    /\ req' = [r \in Requests |-> IF req[r] = Free THEN Free ELSE Done]
    /\ UNCHANGED tables

Batches == {todo \in UNION {[1..n -> Items] : n \in 1..2} : IsInjective(todo)}

Next ==
    \/ \E r \in Requests :
         \/ \E u \in Users, i \in Items :
              \/ StartPurchase(r, u, i) \/ StartLike(r, u, i) \/ StartUnlike(r, u, i)
              \/ CreateCart(r, u, i) \/ DeleteCart(r, u, i)
         \/ \E u \in Users, todo \in Batches : StartBatch(r, u, todo)
         \/ \E i \in Items : IncreaseViewCnt(r, i) \/ StartDelete(r, i)
         \/ \E i \in Items, price \in Prices : StartUpdate(r, i, price)
         \/ Lookup(r) \/ BatchNext(r) \/ PayOwner(r) \/ PayHolders(r) \/ TransactionFails(r)
         \/ UncartPaid(r)
         \/ Like(r) \/ Unlike(r) \/ IncreaseLikeCnt(r) \/ DecreaseLikeCnt(r)
         \/ Save(r) \/ Unlist(r) \/ MarkDeleted(r)
    \/ \E i \in Items, seller, buyer \in Users : Trade(i, seller, buyer)
    \/ \E i \in Items : ShowOrHide(i)
    \/ Crash

Spec == Init /\ [][Next]_vars

----------------------------------------------------------------------------
(* Properties                                                                 *)

SalesBy(u) == {k \in DOMAIN sales : sales[k].buyer = u}

ItemRow == [price : Prices, isShow : BOOLEAN, isDeleted : BOOLEAN,
            likeCnt : Int, viewCnt : Nat, purchaseCnt : Nat]
ShareRow == [user : Users, volume : Nat]
SaleRow == [item : Items, buyer : Users, price : Prices, amount : Nat, fee : Nat,
            cumulative : Nat, cnt : Nat, shared : BOOLEAN, listed : BOOLEAN,
            paid : Nat, profits : Nat]
BuyCalls ==
    [step : {"lookup", "pay", "next", "uncart"}, kind : {"one", "batch"}, user : Users,
     item : Items, entity : ItemRow, shared : BOOLEAN, todo : Seq(Items)]
LikeCalls == [step : {"like", "liked", "unlike", "unliked"}, user : Users, item : Items]
SaveCalls == [step : {"save"}, item : Items, entity : ItemRow]
DeleteCalls == [step : {"unlist", "remove"}, item : Items]
Calls == {Free, Done} \cup [step : {"done"}, uncart : Users \X Items]
         \cup BuyCalls \cup LikeCalls \cup SaveCalls \cup DeleteCalls

(* Every table and every request has its type, no share row and no counter of *)
(* purchases is negative, and a share account belongs to one user.            *)
TypeOK ==
    /\ item \in [Items -> ItemRow] /\ shares \in [Items -> Seq(ShareRow)]
    /\ \A i \in Items : \A j, k \in DOMAIN shares[i] :
          shares[i][j].user = shares[i][k].user => j = k
    /\ balance \in [Users -> Int] /\ history \in [Users -> Int]
    /\ sales \in Seq(SaleRow) /\ likes \in [Items -> [Users -> Nat]]
    /\ cart \subseteq Users \X Items /\ overwritten \subseteq Items
    /\ req \in [Requests -> Calls] /\ budget \in [trades : Nat, shows : Nat]

(* A sale that is shared pays out all that remains after the fee, whatever    *)
(* was traded, hidden or updated while the purchase was under way.            *)
ProfitsAreWhole ==
    \A k \in DOMAIN sales : sales[k].profits = sales[k].amount
                            /\ sales[k].amount + sales[k].fee = sales[k].price

(* The account history explains the balance of every user up to one thing:    *)
(* what a buyer of shared sales was recorded for and never charged.           *)
HistoryExplainsBalance ==
    \A u \in Users :
        balance[u] = Opening + history[u]
            + SumOver(SalesBy(u), [k \in DOMAIN sales |-> sales[k].price - sales[k].paid])

(* What is counted of an item agrees with its sales: the cumulative amount of *)
(* a sale is the sum of the prices up to it, also when the price changes and  *)
(* purchases interleave, and a purchase is counted once, unless an update     *)
(* wrote a stale row.                                                         *)
SalesUpTo(k) == {j \in SalesOf(sales[k].item) : j <= k}
CumulativeIsSum ==
    \A k \in DOMAIN sales :
        sales[k].cumulative = SumOver(SalesUpTo(k), [j \in DOMAIN sales |-> sales[j].price])

PurchasesAreCounted ==
    \A i \in Items \ overwritten : item[i].purchaseCnt = Cardinality(SalesOf(i))
CountersAreSales == CumulativeIsSum /\ PurchasesAreCounted

(* A cart row disappears only when its user bought the item or deleted it.    *)
CartLeavesWithSale ==
    [][\A e \in cart \ cart' :
         \/ \E k \in SalesBy(e[1]) : sales[k].item = e[2]
         \/ \E r \in Requests : req[r] = Free /\ req'[r] = [step |-> "done", uncart |-> e]]_vars

=============================================================================
