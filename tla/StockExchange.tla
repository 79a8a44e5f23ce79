--------------------------- MODULE StockExchange ---------------------------
(***************************************************************************)
(* Trading in one stock item from the request to the page: the handlers of *)
(* ApiStockController, the queue to the matching daemon, the event queue   *)
(* and StockGatewayService.  A handler checks what it reads, sends its     *)
(* message, waits for the answer, reads book rows and sends them on; other *)
(* handlers run between any two of these.  The daemon handles one message  *)
(* in one step here: StockMatch has its transactions, MatchQueue its       *)
(* faults.  Points are left out: whether a user can pay is a free choice.  *)
(* A definition marked "Fault" is used by no action: it is a plausible     *)
(* mistake in the definition after it, which a property must notice.       *)
(***************************************************************************)
EXTENDS Integers, Sequences, FiniteSets, SequencesExt, Sums

CONSTANTS
    Users, Owner,   \* the users that trade, and the one that listed the item
    Amounts,        \* the prices that requests name
    Volumes,        \* the volumes that requests name
    ShareTotal,     \* STOCK_ACCOUNT_MAX_VOLUME
    Remain,         \* STOCK_ACCOUNT_MAX_REMAIN_VOLUME
    MaxVolume,      \* STOCK_ORDER_MAX_VOLUME
    Handlers,       \* the requests that are open at one time
    Kinds,          \* the operations requested
    MaxRequests,    \* bound: the requests sent
    MaxFaults       \* bound: lost and repeated events

ASSUME ShareAssumption ==
    /\ Owner \in Users /\ IsFiniteSet(Users) /\ IsFiniteSet(Amounts)
    /\ Remain \in Nat /\ MaxVolume \in Nat
    /\ ShareTotal = Remain + MaxVolume /\ MaxVolume < Remain
    /\ Volumes \subseteq 1 .. MaxVolume   \* each handler refuses any other
    /\ MaxFaults \in Nat

Sides == {"BUY", "SELL"}
Keys == Sides \X Amounts
NoRow == -1
Opposite(side) == IF side = "BUY" THEN "SELL" ELSE "BUY"

VARIABLES
    orders,     \* mc_stock_order_live; an order is live while it has volume
    shares,     \* mc_stock_account
    book,       \* mc_stock_order
    req,        \* the handlers, each where it is in its request
    queue,      \* the matching in queue: the handlers whose message it holds
    events,     \* the gateway queue
    page,       \* the book as a connected page shows it
    overtaken,  \* history: rows that changed after the last read of them
    late,       \* history: a SELL was handled after another message than the
                \* ones its handler saw the effects of
    sent, faults

db == <<orders, shares, book>>
vars == <<db, req, queue, events, page, overtaken, late, sent, faults>>

Idle == [phase |-> "idle"]

-----------------------------------------------------------------------------
LiveAt(os, k) ==
    {i \in DOMAIN os : os[i].volume > 0 /\ <<os[i].side, os[i].amount>> = k}
VolumeAt(os, k) ==
    SumOver(LiveAt(os, k), [i \in LiveAt(os, k) |-> os[i].volume])
SellsOf(os, u) ==
    {i \in DOMAIN os : os[i].volume > 0 /\ os[i].side = "SELL" /\ os[i].user = u}
\* sumOrderLiveVolume
LiveSell(os, u) == SumOver(SellsOf(os, u), [i \in SellsOf(os, u) |-> os[i].volume])

\* What the SELL side of the book offers.
RowVolume(b, k) == IF b[k] = NoRow THEN 0 ELSE b[k]
SellBook(b) ==
    SumOver(Amounts, [a \in Amounts |-> RowVolume(b, <<"SELL", a>>)])

\* A decimal column arrives as text, and text is compared digit by digit, a
\* shorter number before a longer one with the same digits.
Digits(n) == IF n < 10 THEN <<n>>
             ELSE IF n < 100 THEN <<n \div 10, n % 10>>
             ELSE <<n \div 100, (n \div 10) % 10, n % 10>>
TextBefore(s, t) ==
    \/ IsStrictPrefix(s, t)
    \/ \E i \in DOMAIN s \cap DOMAIN t :
          s[i] < t[i] /\ \A j \in 1 .. i - 1 : s[j] = t[j]
\* currentOrderLiveVolume + Number(volume) > stockAccount.volume: the volume is
\* appended to the text of the sum, so that equal numbers compare as greater.
SellOverVolume(live, volume, held) == ~TextBefore(Digits(live), Digits(held))

-----------------------------------------------------------------------------
\* The checks of the handlers.
KeepsRemain(u, volume) == u = Owner => shares[u] - volume >= Remain
Holds(u, volume) == shares[u] >= volume

\* Fault: the volume on offer is compared without the volume of the request.
CanSellFault(u, volume) ==
    /\ KeepsRemain(u, volume)
    /\ ~SellOverVolume(LiveSell(orders, u), volume, shares[u])
    /\ SellBook(book) <= MaxVolume
    /\ Holds(u, volume)
CanSell(u, volume) ==
    /\ KeepsRemain(u, volume)
    /\ ~SellOverVolume(LiveSell(orders, u), volume, shares[u])
    /\ SellBook(book) + volume <= MaxVolume
    /\ Holds(u, volume)

\* modifySellOrder looks at the book with the difference, not at the user's
\* other live orders.
CanModifySell(u, i, volume) ==
    /\ KeepsRemain(u, volume)
    /\ SellBook(book) + volume - orders[i].volume <= MaxVolume
    /\ Holds(u, volume)

\* The requests that pass: an order that is named exists, whoever it is of and
\* whether or not it is live.
Request(kind, u, i, amount, volume) ==
    [phase |-> "queued", nr |-> sent + 1, kind |-> kind, user |-> u, order |-> i,
     amount |-> amount, volume |-> volume,
     was |-> IF i = 0 THEN <<"SELL", 0>> ELSE <<orders[i].side, orders[i].amount>>,
     fresh |-> TRUE]

\* buy, sell, modifyBuyOrder, modifySellOrder and cancelOrder.
BuyRequests ==
    {Request("BUY", u, 0, a, v) : u \in Users, a \in Amounts, v \in Volumes}
SellRequests ==
    {r \in {Request("SELL", u, 0, a, v) : u \in Users, a \in Amounts, v \in Volumes} :
        CanSell(r.user, r.volume)}
ModifyBuyRequests ==
    {Request("MODIFY_BUY", u, i, a, v) :
        u \in Users, i \in DOMAIN orders, a \in Amounts, v \in Volumes}
ModifySellRequests ==
    {r \in {Request("MODIFY_SELL", u, i, a, v) :
               u \in Users, i \in DOMAIN orders, a \in Amounts, v \in Volumes} :
        CanModifySell(r.user, r.order, r.volume)}
CancelRequests ==
    {Request("CANCEL", u, i, 0, 0) : u \in Users, i \in DOMAIN orders}
Requests ==
    BuyRequests \cup SellRequests \cup ModifyBuyRequests \cup ModifySellRequests
      \cup CancelRequests

\* The reads of the checks are one step with the sending: a message handled
\* between them has the effect of one that is ahead in the queue.
Send(h, r) ==
    /\ req[h] = Idle /\ sent < MaxRequests
    /\ r.kind \in Kinds
    /\ req' = [req EXCEPT ![h] = r]
    /\ queue' = Append(queue, h)
    /\ sent' = sent + 1
    /\ UNCHANGED <<db, events, page, overtaken, late, faults>>

-----------------------------------------------------------------------------
\* The daemon's answer to the request at the head of the queue, and what it
\* leaves in the tables.

Side(r) == IF r.kind \in {"BUY", "MODIFY_BUY"} THEN "BUY" ELSE "SELL"
OwnKey(r) == <<Side(r), r.amount>>
MatchKey(r) == <<Opposite(Side(r)), r.amount>>

\* matchingOrder: what each resting order gives, the oldest first.
Before(os, r, i) ==
    LET older == {j \in LiveAt(os, MatchKey(r)) : j < i}
    IN  SumOver(older, [j \in older |-> os[j].volume])
Taken(os, r, i) ==
    LET left == r.volume - Before(os, r, i)
    IN  IF left <= 0 THEN 0 ELSE IF left < os[i].volume THEN left ELSE os[i].volume
Matched(os, r) == {i \in LiveAt(os, MatchKey(r)) : Taken(os, r, i) > 0}
MatchedVolume(os, r) ==
    SumOver(Matched(os, r), [i \in Matched(os, r) |-> Taken(os, r, i)])

\* One entry of matchHistory.  The volume of an order that is filled whole is
\* the text of its column, that of the last one may be a number.
Fill(os, r, i) ==
    [buyUserId |-> IF Side(r) = "BUY" THEN r.user ELSE os[i].user,
     sellUserId |-> IF Side(r) = "BUY" THEN os[i].user ELSE r.user,
     volume |-> [text |-> Taken(os, r, i) = os[i].volume,
                 parts |-> <<Taken(os, r, i)>>]]
Fills(os, r) ==
    LET matched == Matched(os, r)
        ids == CHOOSE s \in [1 .. Cardinality(matched) -> matched] :
                  \A m, n \in DOMAIN s : m < n => s[m] < s[n]
    IN  [n \in DOMAIN ids |-> Fill(os, r, ids[n])]

\* The shares that a user gives to, and gets from, other users.
Given(fs, u) ==
    LET ns == {n \in DOMAIN fs : fs[n].sellUserId = u /\ fs[n].buyUserId # u}
    IN  SumOver(ns, [n \in ns |-> fs[n].volume.parts[1]])
Got(fs, u) ==
    LET ns == {n \in DOMAIN fs : fs[n].buyUserId = u /\ fs[n].sellUserId # u}
    IN  SumOver(ns, [n \in ns |-> fs[n].volume.parts[1]])
Transferable(fs) == \A u \in Users : Given(fs, u) <= shares[u]
Transferred(fs) == [u \in Users |-> shares[u] + Got(fs, u) - Given(fs, u)]

AfterFills(os, r) ==
    [i \in DOMAIN os |-> [os[i] EXCEPT !.volume =
        IF i \in Matched(os, r) THEN @ - Taken(os, r, i) ELSE @]]

Outcome(os, sh, ok, fs, opened) ==
    [orders |-> os, shares |-> sh, ok |-> ok, fills |-> fs, opened |-> opened]

\* A refusal rolls the tables back; the matches found stay in the answer.
Match(os, r, opens, funded) ==
    LET fs == Fills(os, r)
        rest == r.volume - MatchedVolume(os, r)
        order == [user |-> r.user, side |-> Side(r), amount |-> r.amount,
                  volume |-> rest]
    IN  IF ~Transferable(fs) THEN Outcome(os, shares, FALSE, fs, 0)
        ELSE IF rest = 0 \/ ~opens
        THEN Outcome(AfterFills(os, r), Transferred(fs), TRUE, fs, 0)
        ELSE IF Side(r) = "BUY" /\ ~funded THEN Outcome(os, shares, FALSE, fs, 0)
        ELSE Outcome(Append(AfterFills(os, r), order), Transferred(fs), TRUE, fs, rest)

Refused == Outcome(orders, shares, FALSE, <<>>, 0)
Own(r) == orders[r.order].user = r.user /\ orders[r.order].volume > 0

\* modifyOrder, and matchingOrder in a transaction of its own if the price is
\* a new one: the modified order keeps its volume.
Modify(r) ==
    LET o == orders[r.order]
        os == [orders EXCEPT ![r.order].amount = r.amount, ![r.order].volume = r.volume]
    IN  IF ~Own(r) \/ o.side # Side(r) \/ (o.amount = r.amount /\ o.volume = r.volume)
        THEN Refused
        ELSE IF o.amount = r.amount THEN Outcome(os, shares, TRUE, <<>>, 0)
        ELSE Match(os, r, FALSE, TRUE)

Cancel(r) ==
    IF Own(r) THEN Outcome([orders EXCEPT ![r.order].volume = 0], shares, TRUE, <<>>, 0)
    ELSE Refused

Answer(r, funded) ==
    CASE r.kind \in {"BUY", "SELL"} -> Match(orders, r, TRUE, funded)
      [] r.kind \in {"MODIFY_BUY", "MODIFY_SELL"} -> Modify(r)
      [] r.kind = "CANCEL" -> Cancel(r)

\* filteringMathcingOrder: one entry for each user and side, in the order of
\* their first match.  Adding to a text appends to it.
Plus(a, b) ==
    IF a.text \/ b.text THEN [text |-> TRUE, parts |-> a.parts \o b.parts]
    ELSE [text |-> FALSE, parts |-> <<a.parts[1] + b.parts[1]>>]
Merge(acc, user, side, volume, found) ==
    IF found = {} THEN Append(acc, [userId |-> user, type |-> side, volume |-> volume])
    ELSE [acc EXCEPT ![CHOOSE n \in found : TRUE].volume = Plus(@, volume)]
OfSide(acc, user, side) == {n \in DOMAIN acc : acc[n].userId = user /\ acc[n].type = side}
\* Fault: the entry is looked up by the user alone.
OfUser(acc, user) == {n \in DOMAIN acc : acc[n].userId = user}
AddByUser(acc, f) ==
    LET buy == Merge(acc, f.buyUserId, "BUY", f.volume, OfUser(acc, f.buyUserId))
    IN  Merge(buy, f.sellUserId, "SELL", f.volume, OfUser(buy, f.sellUserId))
AddMatch(acc, f) ==
    LET buy == Merge(acc, f.buyUserId, "BUY", f.volume, OfSide(acc, f.buyUserId, "BUY"))
    IN  Merge(buy, f.sellUserId, "SELL", f.volume, OfSide(buy, f.sellUserId, "SELL"))
FilteringMathcingOrder(fs) ==
    LET list[n \in 0 .. Len(fs)] ==
            IF n = 0 THEN <<>> ELSE AddMatch(list[n - 1], fs[n])
    IN  list[Len(fs)]

-----------------------------------------------------------------------------
\* getFastbookOrderList: the rows that a handler reads after a good answer.
\* Fault: of a match only the side that is opened is read.
CreatedRowsFault(r, out) == IF out.opened > 0 THEN <<OwnKey(r)>> ELSE <<>>
CreatedRows(r, out) ==
    (IF out.opened > 0 THEN <<OwnKey(r)>> ELSE <<>>)
    \o (IF out.fills # <<>> THEN <<MatchKey(r)>> ELSE <<>>)
ModifiedRows(r) ==
    IF r.was[2] # r.amount THEN <<OwnKey(r), <<Side(r), r.was[2]>>>> ELSE <<OwnKey(r)>>
CanceledRows(r) == <<r.was>>

RowsToRead(r, out) ==
    CASE r.kind \in {"BUY", "SELL"} -> CreatedRows(r, out)
      [] r.kind \in {"MODIFY_BUY", "MODIFY_SELL"} -> ModifiedRows(r)
      [] r.kind = "CANCEL" -> CanceledRows(r)

\* The rows that are on their way to the page: read, or sent.
ReadBy(h) == IF req[h].phase = "read" THEN {r[1] : r \in ToSet(req[h].rows)} ELSE {}
SentKeys == UNION {{r[1] : r \in ToSet(e.rows)} : e \in {e \in events : e.name = "FAST_BOOK"}}
OnTheWay == SentKeys \cup UNION {ReadBy(h) : h \in Handlers}

\* The rows that a message changes and no handler reads: all of a message that
\* failed, the row that a modified order was matched with, and the row of an
\* order that was moved after its handler had looked it up.
Untold(r, out) ==
    IF ~out.ok THEN Keys
    ELSE IF r.order = 0 THEN {}
    ELSE (IF r.kind = "CANCEL" THEN {} ELSE {MatchKey(r)})
         \cup ({<<orders[r.order].side, orders[r.order].amount>>} \ {r.was})

\* A book row follows the live orders of its price (StockMatch, BookFollowsLive).
Rebook(os) ==
    [k \in Keys |-> IF VolumeAt(os, k) # RowVolume(book, k) THEN VolumeAt(os, k) ELSE book[k]]

Handle(funded) ==
    /\ queue # <<>>
    /\ LET h == Head(queue)
           r == req[h]
           out == Answer(r, funded)
           todo == IF out.ok THEN RowsToRead(r, out) ELSE <<>>
           changed == {k \in Keys : Rebook(out.orders)[k] # book[k]}
       IN  /\ orders' = out.orders /\ shares' = out.shares
           /\ book' = Rebook(out.orders)
           /\ events' = IF out.fills = <<>> THEN events
                        ELSE events \cup {[name |-> "MATCH", nr |-> r.nr, fills |-> out.fills,
                                           list |-> FilteringMathcingOrder(out.fills)]}
           /\ req' = [g \in Handlers |->
                         IF g = h THEN IF out.ok THEN [phase |-> "read", nr |-> r.nr,
                                                       todo |-> todo, rows |-> <<>>]
                                       ELSE Idle
                         ELSE IF req[g].phase = "queued" THEN [req[g] EXCEPT !.fresh = FALSE]
                         ELSE req[g]]
           /\ overtaken' = overtaken \cup (changed \cap (OnTheWay \cup Untold(r, out)))
           /\ late' = (late \/ (Side(r) = "SELL" /\ ~r.fresh))
    /\ queue' = Tail(queue)
    /\ UNCHANGED <<page, sent, faults>>

\* One query per row; a row that the cleanup deleted is left out.
ReadRow(h) ==
    /\ req[h].phase = "read" /\ req[h].todo # <<>>
    /\ LET k == Head(req[h].todo)
       IN  req' = [req EXCEPT ![h].todo = Tail(@),
                              ![h].rows = IF book[k] = NoRow THEN @
                                          ELSE Append(@, <<k, book[k]>>)]
    /\ UNCHANGED <<db, queue, events, page, overtaken, late, sent, faults>>

AllRead(h) == req[h].phase = "read" /\ req[h].todo = <<>>

\* sendNotCache; the request is answered.
SendFastBook(h) ==
    /\ AllRead(h)
    /\ events' = events \cup {[name |-> "FAST_BOOK", nr |-> req[h].nr, rows |-> req[h].rows]}
    /\ req' = [req EXCEPT ![h] = Idle]
    /\ UNCHANGED <<db, queue, page, overtaken, late, sent, faults>>

\* produce catches its error, or the process ends: no event is sent.
SendFails(h) ==
    /\ AllRead(h) /\ faults < MaxFaults
    /\ faults' = faults + 1
    /\ overtaken' = overtaken \cup ReadBy(h)
    /\ req' = [req EXCEPT ![h] = Idle]
    /\ UNCHANGED <<db, queue, events, page, late, sent>>

\* StockGatewayService.observe: the queue keeps no order, and an event is taken
\* again when its deletion fails.  Of two rows for one price the last is shown.
Shown(rows) ==
    [k \in Keys |->
        LET at == {n \in DOMAIN rows : rows[n][1] = k}
        IN  IF at = {} THEN page[k] ELSE rows[Max(at)][2]]
Deliver(e, deleted) ==
    /\ e \in events
    /\ page' = IF e.name = "FAST_BOOK" THEN Shown(e.rows) ELSE page
    /\ IF deleted THEN events' = events \ {e} /\ UNCHANGED faults
       ELSE /\ faults < MaxFaults /\ faults' = faults + 1
            /\ UNCHANGED events
    /\ UNCHANGED <<db, req, queue, overtaken, late, sent>>

\* detail: a page that is loaded reads the book itself.
Detail ==
    /\ page' = [k \in Keys |-> RowVolume(book, k)]
    /\ page' # page
    /\ UNCHANGED <<db, req, queue, events, overtaken, late, sent, faults>>

\* ScheduleService.batchDeleteOrderVolumeZero
BatchDeleteOrderVolumeZero ==
    /\ \E k \in Keys : book[k] = 0
    /\ book' = [k \in Keys |-> IF book[k] = 0 THEN NoRow ELSE book[k]]
    /\ overtaken' = overtaken \cup
          {k \in Keys : book[k] = 0 /\
              \E h \in Handlers : req[h].phase = "read" /\ k \in ToSet(req[h].todo)}
    /\ UNCHANGED <<orders, shares, req, queue, events, page, late, sent, faults>>

Init ==
    /\ \E volume \in Volumes, amount \in Amounts :
          /\ orders = <<[user |-> Owner, side |-> "SELL", amount |-> amount,
                         volume |-> volume]>>
          /\ book = [k \in Keys |-> IF k = <<"SELL", amount>> THEN volume ELSE NoRow]
    /\ shares = [u \in Users |-> IF u = Owner THEN ShareTotal ELSE 0]
    /\ page = [k \in Keys |-> RowVolume(book, k)]
    /\ req = [h \in Handlers |-> Idle]
    /\ queue = <<>> /\ events = {} /\ overtaken = {} /\ late = FALSE
    /\ sent = 0 /\ faults = 0

Next ==
    \/ \E h \in Handlers, r \in Requests : Send(h, r)
    \/ \E funded \in BOOLEAN : Handle(funded)
    \/ \E h \in Handlers : ReadRow(h) \/ SendFastBook(h) \/ SendFails(h)
    \/ \E e \in events, deleted \in BOOLEAN : Deliver(e, deleted)
    \/ Detail \/ BatchDeleteOrderVolumeZero

Spec == Init /\ [][Next]_vars

-----------------------------------------------------------------------------
\* Properties.

TypeOK ==
    /\ \A i \in DOMAIN orders : orders[i].volume \in Nat
    /\ shares \in [Users -> 0 .. ShareTotal]
    /\ book \in [Keys -> Nat \cup {NoRow}] /\ page \in [Keys -> Nat]
    /\ DOMAIN req = Handlers /\ ToSet(queue) \subseteq Handlers
    /\ \A h \in Handlers : h \in ToSet(queue) <=> req[h].phase = "queued"
    /\ overtaken \subseteq Keys /\ late \in BOOLEAN /\ faults \in 0 .. MaxFaults

\* A page shows the book, but for the rows that a handler has yet to read or
\* an event has yet to bring, and those that were overtaken: that changed when
\* an older value of them was already on its way, or that no handler reads.
Awaited ==
    SentKeys \cup UNION {ToSet(req[h].todo) \cup ReadBy(h) :
                            h \in {h \in Handlers : req[h].phase = "read"}}
PageShowsBook ==
    \A k \in Keys : page[k] = RowVolume(book, k) \/ k \in Awaited \cup overtaken

\* The shares on offer stay within STOCK_ORDER_MAX_VOLUME, and the owner can
\* deliver what it offers, unless a SELL was handled after a message its handler
\* did not see the effects of.  The text comparison of the live volume lets
\* direct sales pass, but the offer of all users together has less room than the
\* owner must keep.
OfferWithinMax == SellBook(book) <= MaxVolume
OwnerIsCovered == LiveSell(orders, Owner) <= shares[Owner]
OffersAreCovered == ~late => OfferWithinMax /\ OwnerIsCovered

\* A MATCH event has for each user one entry for the shares bought and one for
\* those sold, made of the volumes of exactly that user's matches.
VolumeOf(parts) == SumOver(DOMAIN parts, [n \in DOMAIN parts |-> parts[n]])
EveryTradeIsListed ==
    \A e \in {e \in events : e.name = "MATCH"} :
        \A u \in Users, side \in Sides :
            LET mine == {n \in DOMAIN e.fills :
                            (IF side = "BUY" THEN e.fills[n].buyUserId
                                             ELSE e.fills[n].sellUserId) = u}
                entries == {n \in DOMAIN e.list :
                               e.list[n].userId = u /\ e.list[n].type = side}
            IN  /\ Cardinality(entries) = (IF mine = {} THEN 0 ELSE 1)
                /\ \A n \in entries :
                      VolumeOf(e.list[n].volume.parts)
                        = SumOver(mine, [m \in mine |-> e.fills[m].volume.parts[1]])

=============================================================================
