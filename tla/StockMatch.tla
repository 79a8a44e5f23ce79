----------------------------- MODULE StockMatch -----------------------------
(***************************************************************************)
(* The matching engine of one stock item: StockMatchService and the        *)
(* helpers of StockActionService, StockAccountService and                  *)
(* AccountActionService it calls, driven by MatchingDaemonService.execute. *)
(* The daemon takes one message at a time and runs one or two database     *)
(* transactions for it.  A transaction is broken where the code awaits a   *)
(* query whose result decides what comes next: one step per resting order  *)
(* matched, one per share transfer, one for the remainder.  The variables  *)
(* are the tables as the daemon's transaction sees them; "committed" is    *)
(* what every other connection sees, and what a rollback restores.         *)
(* A definition marked "Fault" is used by no action: it is a plausible     *)
(* mistake in the definition after it, which a property must notice.       *)
(***************************************************************************)
EXTENDS Integers, Sequences, FiniteSets, Sums

CONSTANTS
    Users,        \* the users that may trade, each with an OS account
    Owner,        \* the user that listed the stock item
    Amounts,      \* the prices of a share that requests name
    Volumes,      \* the volumes that requests name
    ShareTotal,   \* STOCK_ACCOUNT_MAX_VOLUME: the shares of a stock item
    Funds,        \* the OS points every user starts with
    FeeNum,       \* the fee MCLOSE_STOCK_FEE is FeeNum / FeeDen
    FeeDen,
    MsgTypes,     \* the message types that are sent
    MaxMessages   \* bound: the messages the daemon receives

ASSUME UsersAssumption == Owner \in Users /\ IsFiniteSet(Users)
ASSUME AmountsAssumption ==
    Amounts \subseteq Nat \ {0} /\ Volumes \subseteq Nat \ {0}
ASSUME SharesAssumption == ShareTotal \in Nat /\ Funds \in Nat
ASSUME FeeAssumption == FeeNum \in Nat /\ FeeDen \in Nat /\ FeeNum < FeeDen
ASSUME BoundAssumption == MaxMessages \in Nat

Sides == {"BUY", "SELL"}
Statuses == {"WAIT", "COMPLETE", "CANCELED", "HIDE"}
Keys == Sides \X Amounts
NoRow == -1

Opposite(side) == IF side = "BUY" THEN "SELL" ELSE "BUY"

\* Points are counted in units of 1/FeeDen, so that every fee is exact.
Cost(amount, volume) == FeeDen * (amount * volume)
Fee(amount, volume) == FeeNum * (amount * volume)

-----------------------------------------------------------------------------
VARIABLES
    orders,     \* mc_stock_order_live, by id; filled and cancelRows sum up the
                \* rows of mc_stock_match and mc_stock_order_cancel of the order
    book,       \* mc_stock_order: the volume on offer by side and price
    balance,    \* mc_account, currency OS
    shares,     \* mc_stock_account: the shares of the item each user holds
    item,       \* mc_stock_item: is_deleted and is_show
    matchCnt,   \* mc_stock_item.match_cnt
    fees,       \* sum of mc_stock_match.fee_amount
    unpaid,     \* sum of amount * volume of the matches whose buyer took a
                \* resting SELL order
    committed,  \* the committed values of the tables above
    seen,       \* the book rows that the open transaction's snapshot holds
    phase,      \* where the daemon is in the handler of msg
    msg,
    rem,        \* tmpRemainOrderVolume
    fills,      \* matchHistory
    settled,    \* the fills whose shares were transferred
    received,   \* messages received so far
    announced,  \* matches sent to the gateway queue in MATCH events
    repriced,   \* history: orders whose price a MODIFY message changed
    unfunded,   \* history: points a MODIFY_BUY should have charged and did not
    unrefunded, \* history: points that were to be given back and were not
    swept       \* history: a row of an open snapshot was deleted by the cleanup

tables == <<orders, book, balance, shares, item, matchCnt, fees, unpaid>>
handler == <<seen, phase, msg, rem, fills, settled>>
history == <<received, announced, repriced, unfunded, unrefunded, swept>>
vars == <<tables, committed, handler, history>>

-----------------------------------------------------------------------------
NoMsg == [type |-> "NONE", user |-> Owner, order |-> 0,
          amount |-> 0, volume |-> 0]

\* What the API controllers put on the matching queue.  Their checks were made
\* on a state that the messages ahead in the queue may have changed, so that
\* only what cannot change is a guard here: the order of a MODIFY or CANCEL
\* message exists, HIDE_ITEM is sent for the owner of the market item.
Messages ==
    [type : {"BUY", "SELL"} \cap MsgTypes, user : Users, order : {0},
     amount : Amounts, volume : Volumes]
    \cup [type : {"MODIFY_BUY", "MODIFY_SELL"} \cap MsgTypes, user : Users,
          order : DOMAIN orders, amount : Amounts, volume : Volumes]
    \cup [type : {"CANCEL"} \cap MsgTypes, user : Users,
          order : DOMAIN orders, amount : {0}, volume : {0}]
    \cup [type : {"DELETE"} \cap MsgTypes, user : Users, order : {0},
          amount : {0}, volume : {0}]
    \cup [type : {"HIDE_ITEM"} \cap MsgTypes, user : {Owner}, order : {0},
          amount : {0}, volume : {0}]

IsModify(m) == m.type \in {"MODIFY_BUY", "MODIFY_SELL"}
Side(m) == IF m.type \in {"BUY", "MODIFY_BUY"} THEN "BUY" ELSE "SELL"

IsLive(o) == o.status = "WAIT"
LiveAt(os, k) ==
    {i \in DOMAIN os : IsLive(os[i]) /\ os[i].type = k[1] /\ os[i].amount = k[2]}

\* The resting orders that msg can be matched with, and the oldest of them.
MatchKey == <<Opposite(Side(msg)), msg.amount>>
\* Fault: a user's own orders are passed over (the filter K_TODO 24.11.10 removed).
RestingOfOthers == {i \in LiveAt(orders, MatchKey) : orders[i].user # msg.user}
Resting == LiveAt(orders, MatchKey)
\* Fault: the queries order by id DESC.
Newest(ids) == CHOOSE i \in ids : \A j \in ids : i >= j
Oldest(ids) == CHOOSE i \in ids : \A j \in ids : i <= j

NewOrder(user, side, amount, volume) ==
    [user |-> user, type |-> side, amount |-> amount, volume |-> volume,
     originVolume |-> volume, status |-> "WAIT", filled |-> 0,
     cancelRows |-> 0]

\* updateOrderLive: an order is complete when the match takes all of it.
\* Fault: updateOrderLive is always called with isDeleted.
FilledIsComplete(o, volume) ==
    [o EXCEPT !.volume = @ - volume, !.filled = @ + volume, !.status = "COMPLETE"]
Filled(o, volume) ==
    [o EXCEPT !.volume = @ - volume, !.filled = @ + volume,
              !.status = IF volume = o.volume THEN "COMPLETE" ELSE @]

\* What a cancelled or modified BUY order gives back.
\* Fault: the refund is computed from originVolume.
RefundOfOrigin(o) == Cost(o.amount, o.originVolume)
Refund(o) == Cost(o.amount, o.volume)

RowsOf(b) == {k \in Keys : b[k] # NoRow}
AbsOf(n) == IF n < 0 THEN -n ELSE n

\* A row is found in the snapshot, or was inserted by the transaction itself;
\* the UPDATE then changes the row if it is still there, by an absolute value.
\* A row that is not found is inserted, for a decrement as for an increment.
UpsertOrderBook(b, k, volume, isOpenOrder) ==
    IF k \in seen \/ b[k] # NoRow
    THEN IF b[k] = NoRow THEN b
         ELSE [b EXCEPT ![k] = AbsOf(IF isOpenOrder THEN @ + volume ELSE @ - volume)]
    ELSE [b EXCEPT ![k] = volume]

\* depositToPoint and widthdrawFromPoint.  Both catch every error: when the
\* account row is missing, or another connection keeps it locked for longer than
\* a query waits (a settlement leaves its transaction open), they change nothing
\* and return false.  A withdrawal does so, too, when the balance is too small.
\* `done` says whether the row was written.
DepositToPoint(user, points, done) ==
    IF done THEN [balance EXCEPT ![user] = @ + points] ELSE balance
Missed(points, done) == IF done THEN 0 ELSE points
CanWithdraw(user, points) == balance[user] >= points

\* matchAfterStockAccount: the buyer's volume is increased before the seller's
\* is looked at.
Credit(f) == [shares EXCEPT ![f.buyer] = @ + f.volume]
\* Fault: the seller must hold shares, not as many as are sold.
HoldsAny(f) == Credit(f)[f.seller] > 0
CanTransfer(f) == Credit(f)[f.seller] >= f.volume
\* Fault: the seller is updated from the volume read before the credit.
TransferFromRead(f) == [Credit(f) EXCEPT ![f.seller] = shares[f.seller] - f.volume]
Transfer(f) == [Credit(f) EXCEPT ![f.seller] = @ - f.volume]

\* The points that a live BUY order was opened with: of one order, of those of
\* a user, of all of them.
Held(o) == IF IsLive(o) /\ o.type = "BUY" THEN Cost(o.amount, o.volume) ELSE 0
Prepaid(os, user) ==
    SumOver(DOMAIN os,
            [i \in DOMAIN os |-> IF os[i].user = user THEN Held(os[i]) ELSE 0])
HeldBy(os, some) == SumOver(some, [i \in DOMAIN os |-> Held(os[i])])
Escrow(os) == HeldBy(os, DOMAIN os)

-----------------------------------------------------------------------------
Tables ==
    [orders |-> orders, book |-> book, balance |-> balance, shares |-> shares,
     item |-> item, matchCnt |-> matchCnt, fees |-> fees, unpaid |-> unpaid]

\* The item as /stock/init creates it: the owner holds every share and offers
\* some of them.
Init ==
    /\ \E volume \in Volumes, amount \in Amounts :
          /\ orders = <<NewOrder(Owner, "SELL", amount, volume)>>
          /\ book = [k \in Keys |->
                        IF k = <<"SELL", amount>> THEN volume ELSE NoRow]
    /\ balance = [u \in Users |-> FeeDen * Funds]
    /\ shares = [u \in Users |-> IF u = Owner THEN ShareTotal ELSE 0]
    /\ item = [isDeleted |-> FALSE, isShow |-> TRUE]
    /\ matchCnt = 0 /\ fees = 0 /\ unpaid = 0
    /\ committed = Tables
    /\ seen = {} /\ phase = "idle" /\ msg = NoMsg
    /\ rem = 0 /\ fills = <<>> /\ settled = 0
    /\ received = 0 /\ announced = 0 /\ repriced = {} /\ unfunded = 0
    /\ unrefunded = 0 /\ swept = FALSE

\* Every step of a handler that ends its transaction commits all of it or
\* restores all of it.
Commit == committed' = Tables'

Restore ==
    /\ orders' = committed.orders /\ book' = committed.book
    /\ balance' = committed.balance /\ shares' = committed.shares
    /\ item' = committed.item /\ matchCnt' = committed.matchCnt
    /\ fees' = committed.fees /\ unpaid' = committed.unpaid
    /\ UNCHANGED committed

\* The catch block: the tables are rolled back, the matches found so far stay
\* in the result that the daemon sends.
Rollback ==
    /\ Restore
    /\ phase' = "reply"
    /\ UNCHANGED <<seen, msg, rem, fills, settled, history>>

\* A query of the handler fails, for one that the row it writes is locked for too
\* long.  The deposit to the seller of a match and the charge of a new order
\* return false instead, which their callers make an exception of.
QueryFails ==
    /\ phase \in {"fill", "settle", "modify", "cancel", "delete", "hide"}
    /\ Rollback

-----------------------------------------------------------------------------
\* The daemon takes the next message and opens the transaction of its handler.
Receive(m) ==
    /\ phase = "idle" /\ received < MaxMessages
    /\ received' = received + 1
    /\ msg' = m /\ rem' = m.volume /\ fills' = <<>> /\ settled' = 0
    /\ seen' = RowsOf(book)
    /\ phase' = CASE m.type \in {"BUY", "SELL"} -> "fill"
                  [] IsModify(m) -> "modify"
                  [] m.type = "CANCEL" -> "cancel"
                  [] m.type = "DELETE" -> "delete"
                  [] OTHER -> "hide"
    /\ UNCHANGED <<tables, committed, announced, repriced, unfunded, unrefunded, swept>>

\* matchingOrder: the oldest resting order at the price is filled, wholly or
\* for what is left of the request.  Its seller is paid less the fee; the
\* buyer is not charged: a resting BUY order was when it was opened, and the
\* withdrawal for an incoming one is commented out.
Fill ==
    /\ phase = "fill" /\ rem > 0 /\ Resting # {}
    /\ LET i == Oldest(Resting)
           o == orders[i]
           volume == IF rem < o.volume THEN rem ELSE o.volume
           buyer == IF Side(msg) = "BUY" THEN msg.user ELSE o.user
           seller == IF Side(msg) = "BUY" THEN o.user ELSE msg.user
       IN  /\ orders' = [orders EXCEPT ![i] = Filled(o, volume)]
           /\ balance' = DepositToPoint(seller,
                            Cost(o.amount, volume) - Fee(o.amount, volume), TRUE)
           /\ fees' = fees + Fee(o.amount, volume)
           /\ unpaid' = unpaid + (IF o.type = "SELL" THEN Cost(o.amount, volume) ELSE 0)
           /\ fills' = Append(fills, [order |-> i, buyer |-> buyer,
                                      seller |-> seller, volume |-> volume])
           /\ rem' = rem - volume
    /\ UNCHANGED <<book, shares, item, matchCnt, committed, seen, phase, msg,
                   settled, history>>

FillDone ==
    /\ phase = "fill" /\ (rem = 0 \/ Resting = {})
    /\ phase' = "settle"
    /\ UNCHANGED <<tables, committed, seen, msg, rem, fills, settled, history>>

\* The match row of one fill is inserted and its shares change hands.
Settle ==
    /\ phase = "settle" /\ settled < Len(fills)
    /\ CanTransfer(fills[settled + 1])
    /\ shares' = Transfer(fills[settled + 1])
    /\ settled' = settled + 1
    /\ UNCHANGED <<orders, book, balance, item, matchCnt, fees, unpaid,
                   committed, seen, phase, msg, rem, fills, history>>

SettleFails ==
    /\ phase = "settle" /\ settled < Len(fills)
    /\ ~CanTransfer(fills[settled + 1])
    /\ Rollback

\* The book after the matches of msg: the matched side gives up their volume.
\* Fault: the book gives up what is left of the request.
RemainderBook ==
    IF fills = <<>> THEN book ELSE UpsertOrderBook(book, MatchKey, rem, FALSE)
MatchedBook ==
    IF fills = <<>> THEN book
    ELSE UpsertOrderBook(book, MatchKey, msg.volume - rem, FALSE)

AllSettled == phase = "settle" /\ settled = Len(fills)

\* Nothing is left to open, or the request is a modified order's.
Finish ==
    /\ AllSettled /\ (rem = 0 \/ IsModify(msg))
    /\ book' = MatchedBook
    /\ matchCnt' = matchCnt + Len(fills)
    /\ UNCHANGED <<orders, balance, shares, item, fees, unpaid>>
    /\ Commit
    /\ phase' = "reply"
    /\ UNCHANGED <<seen, msg, rem, fills, settled, history>>

\* What is left becomes a live order; a BUY order is charged when it opens.
OpensRemainder == AllSettled /\ rem > 0 /\ ~IsModify(msg)

OpenRemainder ==
    /\ OpensRemainder
    /\ Side(msg) = "BUY" => CanWithdraw(msg.user, Cost(msg.amount, rem))
    /\ orders' = Append(orders, NewOrder(msg.user, Side(msg), msg.amount, rem))
    /\ book' = UpsertOrderBook(MatchedBook, <<Side(msg), msg.amount>>, rem, TRUE)
    /\ balance' = IF Side(msg) = "BUY"
                  THEN [balance EXCEPT ![msg.user] = @ - Cost(msg.amount, rem)]
                  ELSE balance
    /\ matchCnt' = matchCnt + Len(fills)
    /\ UNCHANGED <<shares, item, fees, unpaid>>
    /\ Commit
    /\ phase' = "reply"
    /\ UNCHANGED <<seen, msg, rem, fills, settled, history>>

OpenFails ==
    /\ OpensRemainder
    /\ Side(msg) = "BUY" /\ ~CanWithdraw(msg.user, Cost(msg.amount, rem))
    /\ Rollback

-----------------------------------------------------------------------------
\* modifyOrder.  A BUY order is refunded and charged anew; the results of the
\* two calls are not looked at.  Once the first has written the row, the second
\* need not wait for it.  A new price sends the message on to matchingOrder in a
\* transaction of its own.
Modifiable(m) ==
    LET o == orders[m.order]
    IN  /\ o.user = m.user /\ o.type = Side(m) /\ IsLive(o)
        /\ o.amount # m.amount \/ o.volume # m.volume

\* A volume that does not change leaves originVolume as it is.
Modified(o, m) ==
    [o EXCEPT !.amount = m.amount, !.volume = m.volume,
              !.originVolume = IF o.volume # m.volume THEN m.volume ELSE o.originVolume]

Modify ==
    /\ phase = "modify" /\ Modifiable(msg)
    /\ \E back, paid \in BOOLEAN : (back => paid) /\
       LET i == msg.order
           o == orders[i]
           new == Cost(msg.amount, msg.volume)
           refunded == DepositToPoint(msg.user, Refund(o), back)
           charged == IF paid /\ refunded[msg.user] >= new THEN new ELSE 0
           removed == UpsertOrderBook(book, <<o.type, o.amount>>, o.volume, FALSE)
       IN  /\ orders' = [orders EXCEPT ![i] = Modified(o, msg)]
           /\ book' = UpsertOrderBook(removed, <<o.type, msg.amount>>, msg.volume, TRUE)
           /\ IF o.type = "BUY"
              THEN /\ balance' = [refunded EXCEPT ![msg.user] = @ - charged]
                   /\ unfunded' = unfunded + (new - charged)
                   /\ unrefunded' = unrefunded + Missed(Refund(o), back)
              ELSE UNCHANGED <<balance, unfunded, unrefunded>>
           /\ IF o.amount # msg.amount
              THEN phase' = "fill" /\ repriced' = repriced \cup {i}
              ELSE phase' = "reply" /\ UNCHANGED repriced
    /\ UNCHANGED <<shares, item, matchCnt, fees, unpaid>>
    /\ Commit
    /\ seen' = RowsOf(book')
    /\ UNCHANGED <<msg, rem, fills, settled, received, announced, swept>>

\* cancelOrder.
\* Fault: the status of the order is not looked at.
CancelableTwice(m) == orders[m.order].user = m.user
\* Fault: the user of the order is not looked at.
CancelableByAnyone(m) == IsLive(orders[m.order])
Cancelable(m) == orders[m.order].user = m.user /\ IsLive(orders[m.order])

Canceled(o) == [o EXCEPT !.status = "CANCELED", !.cancelRows = o.cancelRows + 1]

\* The cancellation is committed whether or not the points were given back.
Cancel ==
    /\ phase = "cancel" /\ Cancelable(msg)
    /\ \E back \in BOOLEAN :
       LET i == msg.order
           o == orders[i]
       IN  /\ orders' = [orders EXCEPT ![i] = Canceled(o)]
           /\ book' = UpsertOrderBook(book, <<o.type, o.amount>>, o.volume, FALSE)
           /\ IF o.type = "BUY"
              THEN /\ balance' = DepositToPoint(msg.user, Refund(o), back)
                   /\ unrefunded' = unrefunded + Missed(Refund(o), back)
              ELSE UNCHANGED <<balance, unrefunded>>
    /\ UNCHANGED <<shares, item, matchCnt, fees, unpaid>>
    /\ Commit
    /\ phase' = "reply"
    /\ UNCHANGED <<seen, msg, rem, fills, settled, received, announced, repriced,
                   unfunded, swept>>

\* delete and hideItem when live orders are left: the sender of the message is
\* refunded for every live BUY order, by a deposit for each that may not be done
\* (the orders come in no order), and every order of the item gets the status,
\* those that are not live too.  A cancel row is written for the live ones.
Closed(os, status) ==
    [i \in DOMAIN os |->
        [os[i] EXCEPT !.status = status,
                      !.cancelRows = IF IsLive(os[i]) THEN @ + 1 ELSE @]]
AnyLive == \E i \in DOMAIN orders : IsLive(orders[i])
CloseOrders(status) ==
    IF AnyLive
    THEN /\ orders' = Closed(orders, status)
         /\ \E back \in SUBSET {i \in DOMAIN orders : Held(orders[i]) # 0} :
               /\ balance' = [balance EXCEPT ![msg.user] = @ + HeldBy(orders, back)]
               /\ unrefunded' = unrefunded + HeldBy(orders, DOMAIN orders \ back)
    ELSE UNCHANGED <<orders, balance, unrefunded>>

\* delete: only the owner, holding every share, may delete the item.
Deletable(m) == m.user = Owner /\ shares[m.user] = ShareTotal

Delete ==
    /\ phase = "delete" /\ Deletable(msg)
    /\ CloseOrders("CANCELED")
    /\ item' = [isDeleted |-> TRUE, isShow |-> FALSE]
    /\ UNCHANGED <<book, shares, matchCnt, fees, unpaid>>
    /\ Commit
    /\ phase' = "reply"
    /\ UNCHANGED <<seen, msg, rem, fills, settled, received, announced, repriced,
                   unfunded, swept>>

\* hideItem: deletes the book as well.
HideItem ==
    /\ phase = "hide"
    /\ CloseOrders("HIDE")
    /\ book' = IF AnyLive THEN [k \in Keys |-> NoRow] ELSE book
    /\ item' = [item EXCEPT !.isShow = FALSE]
    /\ UNCHANGED <<shares, matchCnt, fees, unpaid>>
    /\ Commit
    /\ phase' = "reply"
    /\ UNCHANGED <<seen, msg, rem, fills, settled, received, announced, repriced,
                   unfunded, swept>>

\* The checks at the head of the handlers: the transaction is rolled back.
Refuse ==
    /\ \/ phase = "modify" /\ ~Modifiable(msg)
       \/ phase = "cancel" /\ ~Cancelable(msg)
       \/ phase = "delete" /\ ~Deletable(msg)
    /\ Rollback

-----------------------------------------------------------------------------
EndMessage ==
    /\ phase' = "idle" /\ msg' = NoMsg /\ rem' = 0 /\ fills' = <<>>
    /\ settled' = 0 /\ seen' = {}

\* The daemon sends the result, and a MATCH event if it lists any match.
Reply ==
    /\ phase = "reply"
    /\ announced' = announced + Len(fills)
    /\ EndMessage
    /\ UNCHANGED <<tables, committed, received, repriced, unfunded, unrefunded, swept>>

\* The process dies: the database rolls the open transaction back.  The queue
\* delivers the message again: that is another Receive of it.
Crash ==
    /\ phase # "idle"
    /\ Restore
    /\ EndMessage
    /\ UNCHANGED history

\* ScheduleService.batchDeleteOrderVolumeZero, on a connection of its own.
\* The daemon's steps hold no lock on a book row when they end.
ZeroRows == {k \in Keys : book[k] = 0}
WithoutZeroRows(b) == [k \in Keys |-> IF b[k] = 0 THEN NoRow ELSE b[k]]

BatchDeleteOrderVolumeZero ==
    /\ ZeroRows # {}
    /\ book' = WithoutZeroRows(book)
    /\ committed' = [committed EXCEPT !.book = WithoutZeroRows(@)]
    /\ swept' = (swept \/ (phase # "idle" /\ ZeroRows \cap seen # {}))
    /\ UNCHANGED <<orders, balance, shares, item, matchCnt, fees, unpaid,
                   handler, received, announced, repriced, unfunded, unrefunded>>

Next ==
    \/ \E m \in Messages : Receive(m)
    \/ Fill \/ FillDone \/ Settle \/ SettleFails
    \/ Finish \/ OpenRemainder \/ OpenFails \/ QueryFails
    \/ Modify \/ Cancel \/ Delete \/ HideItem \/ Refuse
    \/ Reply \/ Crash \/ BatchDeleteOrderVolumeZero

Spec == Init /\ [][Next]_vars

-----------------------------------------------------------------------------
\* Properties.  They speak of committed tables, which is what the API, the
\* scheduler and a restarted daemon read.

OrderType ==
    [user : Users, type : Sides, amount : Amounts, volume : Nat,
     originVolume : Nat, status : Statuses, filled : Nat, cancelRows : Nat]
FillType ==
    [order : Nat, buyer : Users, seller : Users, volume : Nat]
MsgType ==
    [type : {"BUY", "SELL", "MODIFY_BUY", "MODIFY_SELL", "CANCEL", "DELETE",
             "HIDE_ITEM", "NONE"},
     user : Users, order : Nat, amount : Nat, volume : Nat]
TablesType ==
    [orders : Seq(OrderType), book : [Keys -> Nat \cup {NoRow}],
     balance : [Users -> Nat], shares : [Users -> Nat],
     item : [isDeleted : BOOLEAN, isShow : BOOLEAN],
     matchCnt : Nat, fees : Nat, unpaid : Nat]

\* Type correctness: in particular no account and no share account is ever
\* overdrawn, in the middle of a transaction or after it.
TypeOK ==
    /\ Tables \in TablesType
    /\ committed \in TablesType
    /\ seen \subseteq Keys
    /\ phase \in {"idle", "fill", "settle", "modify", "cancel", "delete",
                  "hide", "reply"}
    /\ msg \in MsgType
    /\ rem \in Nat /\ settled \in Nat
    /\ fills \in Seq(FillType)
    /\ received \in Nat /\ announced \in Nat /\ unfunded \in Nat /\ unrefunded \in Nat
    /\ repriced \subseteq Nat /\ swept \in BOOLEAN

LiveVolume(os, k) ==
    SumOver(DOMAIN os,
            [i \in DOMAIN os |-> IF i \in LiveAt(os, k) THEN os[i].volume ELSE 0])
BookVolume(b, k) == IF b[k] = NoRow THEN 0 ELSE b[k]

\* The order book shows, for every side and price, the volume of the live
\* orders, through opens, partial fills, modifications and cancellations: no
\* decrement of upsertOrderBook meets a missing row or goes below zero.  It
\* does until the item is deleted (delete leaves the book as it is) and unless
\* the cleanup deleted a row under an open transaction.
BookFollowsLive ==
    ~swept /\ ~committed.item.isDeleted =>
        \A k \in Keys : BookVolume(committed.book, k)
                          = LiveVolume(committed.orders, k)

\* The shares of the item are never created or lost: matchAfterStockAccount
\* moves them, also when a user trades with an order of its own and when a
\* later transfer of the same message fails.
SharesConserved ==
    /\ SumOver(Users, committed.shares) = ShareTotal
    /\ SumOver(Users, shares) = ShareTotal

\* The audit of the points.  Accounts, prepaid BUY orders and fees add up to
\* the points there were plus what two places of the code create, matches of an
\* incoming BUY, whose buyer is not charged, and MODIFY_BUY messages whose charge
\* was not made, less what one kind of place loses: a modification, cancellation,
\* deletion or hiding that is committed although a deposit for it returned false.
\* No other step of any handler creates or loses a point.
InitialPoints == SumOver(Users, [u \in Users |-> FeeDen * Funds])
LedgerBalanced ==
    SumOver(Users, committed.balance) + Escrow(committed.orders) + committed.fees + unrefunded
        = InitialPoints + committed.unpaid + unfunded

\* Two live orders of opposite sides stand at one price only if a MODIFY
\* moved one of them there: a request opens an order only when the other side
\* of its price is exhausted.
CrossedOnlyIfRepriced ==
    \A amount \in Amounts :
        \A i \in LiveAt(committed.orders, <<"BUY", amount>>),
           j \in LiveAt(committed.orders, <<"SELL", amount>>) :
              i \in repriced \/ j \in repriced

\* What the live table says of an order agrees with the matches recorded for
\* it: an order waits as long as volume is left, is complete when none is, and
\* by then was filled for at least the volume it was opened or last resized to.
OrderAccounting ==
    \A i \in DOMAIN committed.orders :
        LET o == committed.orders[i]
        IN  /\ o.status = "WAIT" => o.volume > 0
            /\ o.status = "COMPLETE" => o.volume = 0
            /\ o.originVolume <= o.volume + o.filled

\* A cancellation is recorded at most once for an order, and not while it is
\* live, whatever messages are delivered again or cross each other.
CancelRecordedOnce ==
    \A i \in DOMAIN committed.orders :
        /\ committed.orders[i].cancelRows <= 1
        /\ IsLive(committed.orders[i]) => committed.orders[i].cancelRows = 0

\* The records of an order agree with one another: OrderAccounting and
\* CancelRecordedOnce, over openOrder, matchingOrder, modifyOrder, cancelOrder,
\* delete and hideItem.
OrderRecordsAgree == OrderAccounting /\ CancelRecordedOnce

\* Price-time priority: a transaction that fills an order completes every
\* older live order of that side and price.
PriceTimePriority ==
    [][\A j \in DOMAIN committed.orders :
          committed'.orders[j].filled > committed.orders[j].filled =>
              \A i \in LiveAt(committed.orders,
                              <<committed.orders[j].type, committed.orders[j].amount>>) :
                  i < j => committed'.orders[i].status = "COMPLETE"]_committed

\* An order that was filled, cancelled or hidden is never live again and
\* takes part in no later match, modification or cancellation.
ClosedStaysClosed ==
    [][\A i \in DOMAIN committed.orders :
          /\ i \in DOMAIN committed'.orders
          /\ ~IsLive(committed.orders[i]) =>
                 /\ ~IsLive(committed'.orders[i])
                 /\ committed'.orders[i].volume = committed.orders[i].volume
                 /\ committed'.orders[i].filled = committed.orders[i].filled
                 /\ committed'.orders[i].cancelRows
                      = committed.orders[i].cancelRows]_committed

\* Opening, modifying or cancelling orders moves a user's points between the
\* account and the live BUY orders and changes their sum for nobody, but for what
\* the sender of a message was not charged or not given back; only matches and an
\* item's deletion or hiding do (openAfterAccount, modifyOrder, cancelOrder).
Wealth(d, u) == d.balance[u] + Prepaid(d.orders, u)
WealthKeptWithoutMatch ==
    [][ /\ committed'.fees = committed.fees /\ committed'.unpaid = committed.unpaid
        /\ committed'.matchCnt = committed.matchCnt
        /\ msg.type \notin {"DELETE", "HIDE_ITEM"}
        => \A u \in Users :
              Wealth(committed', u) = Wealth(committed, u)
                  + (IF u = msg.user THEN (unfunded' - unfunded) - (unrefunded' - unrefunded)
                     ELSE 0)]_committed

=============================================================================
