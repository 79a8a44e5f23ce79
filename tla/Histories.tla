----------------------------- MODULE Histories -----------------------------
(***************************************************************************)
(* The paged lists of the site and of the administration: histories of     *)
(* sales, purchases, matches, payments, usages and outflows, items, order  *)
(* lists, users and questions.  A list is answered by two queries without  *)
(* a transaction, rows and total, and a client walks it page by page until *)
(* PagenationRes says isLast; meanwhile the rows change.  Of the tables    *)
(* only what the lists select, order and count by is kept.  A definition   *)
(* marked "Fault" is used by no action: it is a plausible mistake in the   *)
(* definition after it, which a property must notice.                      *)
(***************************************************************************)
EXTENDS Integers, Sequences, FiniteSets, SequencesExt

CONSTANTS
    Users, Me,   \* users, and the one who asks
    Start,       \* the tables at first
    Present,     \* the moment of the first page; Start has the rows of earlier ones
    Lists,       \* the lists walked
    PageSizes,
    Window,      \* the days asked for, where a list is asked for days
    Moments,     \* the moments of a day that created_at tells apart
    MaxRows,     \* bound: the rows added
    MaxChanges,  \* bound: the rows changed
    MaxTime      \* bound: the moments

ASSUME PageAssumption == PageSizes \cup {Moments} \subseteq Nat \ {0} /\ Me \in Users

ListNames ==
    {"purchases", "sales", "registered", "cart", "videos", "market", "adminMarket",
     "adminPurchases", "adminRegistered", "adminVideos", "adminUserUsages",
     "accounts", "lives", "offered", "matches", "stocks", "adminStocks", "adminMatches",
     "payments", "usages", "outflows", "adminUsages", "performance", "adminCharges",
     "adminOutflows", "adminPayments", "users", "customers", "businesses", "adminFaqs",
     "faqs", "adminAsks", "adminMemos"}

\* The columns that the lists select, order and count by.
ItemRow == [owner : Users, titled : BOOLEAN, show : BOOLEAN, deleted : BOOLEAN, at : Nat]
SaleRow == [buyer : Users, item : Nat, at : Nat, available : BOOLEAN]
CartRow == [user : Users, item : Nat, gone : BOOLEAN]
VideoRow == [owner : Users, titled : BOOLEAN, deleted : BOOLEAN]
StockRow ==
    [owner : Users, titled : BOOLEAN, show : BOOLEAN, deleted : BOOLEAN, at : Nat, price : Nat]
AccountRow == [user : Users, stock : Nat, volume : Int, at : Nat, touched : Nat]
OrderRow ==
    [user : Users, type : {"BUY", "SELL"}, stock : Nat, volume : Nat, open : BOOLEAN, at : Nat]
MatchRow == [seller : Users, buyer : Users, stock : Nat, at : Nat]
PaymentRow == [user : Users, status : {"PENDING", "PAID", "OUTFLOW"}, at : Nat]
UsageRow ==
    [user : Users, type : {"PROMPT", "MARKET", "STOCK_MATCH_BUY"}, ref : Nat, at : Nat]
OutflowRow ==
    [user : Users, type : {"REFUND", "SETTLEMENT"},
     status : {"PENDING", "CONFIRMED", "CANCELED"}, at : Nat]
PersonRow == [titled : BOOLEAN]
QuestionRow ==
    [user : Users, kind : {"customer", "business"}, status : {"PENDING", "CONFIRMED"}, at : Nat]
FaqRow == [gone : BOOLEAN]
MemoRow == [user : Users]
Tables ==
    [items : Seq(ItemRow), sales : Seq(SaleRow), carts : Seq(CartRow), videos : Seq(VideoRow),
     stocks : Seq(StockRow), accounts : Seq(AccountRow), lives : Seq(OrderRow),
     matches : Seq(MatchRow), payments : Seq(PaymentRow), usages : Seq(UsageRow),
     outflows : Seq(OutflowRow), people : Seq(PersonRow), asks : Seq(QuestionRow),
     faqs : Seq(FaqRow), memos : Seq(MemoRow)]

ASSUME StartAssumption == Start \in Tables /\ Present \in Nat /\ Lists \subseteq ListNames

VARIABLES
    db,     \* the tables: sequences of rows, the oldest first; the place of a
            \* row is its id, a deleted row stays with gone = TRUE
    now,    \* the moment that created_at gets; it has no fractions of a second,
            \* so that several rows may get the same
    walk,   \* the client: the list and its query, the page, what it was told
            \* and has seen; history: what stayed, came and went meanwhile
    added, changed

historiesVars == <<db, now, walk, added, changed>>

-----------------------------------------------------------------------------
(***************************************************************************)
(* What the lists have in common.                                          *)
(***************************************************************************)

\* The rows in the order of the query: each after all that go before it.
Ranked(ids, before) ==
    [n \in 1..Cardinality(ids) |->
        CHOOSE i \in ids : Cardinality({j \in ids : <<j, i>> \in before}) = n - 1]
Newest(ids) == Ranked(ids, {p \in ids \X ids : p[1] > p[2]})
DayOf(moment) == moment \div Moments
InWindow(d) == Window[1] <= d /\ d <= Window[2]
Dated(q, d) == q.dated => InWindow(d)
Having(q, option, holds) == q.option = option => holds
Rows(t, P(_)) == {i \in DOMAIN t : P(t[i])}

-----------------------------------------------------------------------------
(***************************************************************************)
(* The market: market_item, market_history, market_cart, raw_video.        *)
(***************************************************************************)

PurchaseHistory(d, q) ==
    Newest(Rows(d.sales, LAMBDA s :
        /\ s.buyer = Me /\ Dated(q, DayOf(s.at))
        /\ Having(q, "keyword", d.items[s.item].titled)
        /\ Having(q, "available", s.available)))

\* The days on which something was sold.
SalesOf(d, q) ==
    Rows(d.sales, LAMBDA s :
        /\ d.items[s.item].owner = Me /\ InWindow(DayOf(s.at))
        /\ ~d.items[s.item].deleted /\ Having(q, "keyword", d.items[s.item].titled))
SalesDays(d, q) == Newest({DayOf(d.sales[s].at) : s \in SalesOf(d, q)})

RegisterMarketItems(d, q) == Newest(Rows(d.items, LAMBDA i : i.owner = Me))
MarketCart(d, q) == Newest(Rows(d.carts, LAMBDA c : c.user = Me /\ ~c.gone))
WorkspaceVideos(d, q) ==
    Newest(Rows(d.videos, LAMBDA v :
        v.owner = Me /\ ~v.deleted /\ Having(q, "keyword", v.titled)))
\* What the public sees; "rand" orders every page anew.
MarketItems(d, q) ==
    Newest(Rows(d.items, LAMBDA i :
        i.show /\ ~i.deleted /\ Having(q, "keyword", i.titled)))

AdminMarketItems(d, q) == Newest(Rows(d.items, LAMBDA i : Dated(q, DayOf(i.at))))
AdminPurchases(d, q) == Newest(Rows(d.sales, LAMBDA s : s.buyer = Me))
AdminRegistered(d, q) == Newest(Rows(d.items, LAMBDA i : i.owner = Me))
AdminVideos(d, q) == Newest(Rows(d.videos, LAMBDA v : v.owner = Me))

-----------------------------------------------------------------------------
(***************************************************************************)
(* Shares: stock_item, stock_account, stock_order_live, stock_match.       *)
(***************************************************************************)

\* Held shares, those that changed last first or those of most volume first.
HeldAccounts(d) ==
    Rows(d.accounts, LAMBDA a :
        a.user = Me /\ a.volume > 0 /\ ~d.stocks[a.stock].deleted)
StockAccounts(d, q) ==
    LET held == HeldAccounts(d)
        key(a) == IF q.option = "volume" THEN d.accounts[a].volume
                                         ELSE d.accounts[a].touched
    IN Ranked(held, {p \in held \X held :
                        key(p[1]) > key(p[2]) \/ (key(p[1]) = key(p[2]) /\ p[1] < p[2])})

OrderLives(d, q) ==
    Newest(Rows(d.lives, LAMBDA o : o.user = Me /\ o.open /\ o.volume > 0))
RegisterStockItems(d, q) ==
    Newest(Rows(d.accounts, LAMBDA a : a.user = Me /\ d.stocks[a.stock].owner = Me))

MatchesOf(d, q) ==
    Rows(d.matches, LAMBDA m :
        /\ m.seller = Me /\ InWindow(DayOf(m.at))
        /\ ~d.stocks[m.stock].deleted /\ Having(q, "keyword", d.stocks[m.stock].titled))
SellMatchDays(d, q) == Newest({DayOf(d.matches[m].at) : m \in MatchesOf(d, q)})

StockItems(d, q) ==
    Newest(Rows(d.stocks, LAMBDA s :
        s.show /\ ~s.deleted /\ Having(q, "keyword", s.titled)))
AdminStockItems(d, q) == Newest(Rows(d.stocks, LAMBDA s : Dated(q, DayOf(s.at))))
AdminMatches(d, q) ==
    Newest(Rows(d.matches, LAMBDA m : m.buyer = Me \/ m.seller = Me))

-----------------------------------------------------------------------------
(***************************************************************************)
(* Money: payment_history, usage_history, outflow_history.                 *)
(***************************************************************************)

Payments(d, q) ==
    Newest(Rows(d.payments, LAMBDA p :
        p.user = Me /\ p.status = "PAID" /\ Dated(q, DayOf(p.at))))
Usages(d, q) == Newest(Rows(d.usages, LAMBDA u : u.user = Me /\ Dated(q, DayOf(u.at))))
Outflows(d, q) ==
    Newest(Rows(d.outflows, LAMBDA o :
        /\ o.user = Me /\ Dated(q, DayOf(o.at))
        /\ Having(q, "status", o.status = "PENDING") /\ Having(q, "type", o.type = "REFUND")))

Currency(u) == IF u.type = "STOCK_MATCH_BUY" THEN "OS" ELSE "CL"
AdminUsages(d, q) ==
    Newest(Rows(d.usages, LAMBDA u :
        InWindow(DayOf(u.at)) /\ Having(q, "currency", Currency(u) = "OS")))
\* A search is joined with OR: it widens the list, and only its last part is
\* bound to the days.
TitleMatches(d, u) == u.type = "MARKET" /\ d.items[u.ref].titled
Performance(d, q) ==
    Newest(Rows(d.usages, LAMBDA u :
        IF q.option = "title" THEN
            \/ u.type # "PROMPT" \/ TitleMatches(d, u)
            \/ u.type = "STOCK_MATCH_BUY" /\ d.stocks[u.ref].titled /\ InWindow(DayOf(u.at))
        ELSE u.type # "PROMPT" /\ InWindow(DayOf(u.at))))
PerformanceTotal(d, q) == Cardinality(Rows(d.usages, LAMBDA u : InWindow(DayOf(u.at))))
AdminCharges(d, q) ==
    Newest(Rows(d.payments, LAMBDA p : p.status = "PAID" /\ Dated(q, DayOf(p.at))))
AdminOutflows(d, q) ==
    Newest(Rows(d.outflows, LAMBDA o :
        Dated(q, DayOf(o.at)) /\ Having(q, "status", o.status = "PENDING")))
AdminPayments(d, q) ==
    Newest(Rows(d.payments, LAMBDA p : p.user = Me /\ p.status \in {"PAID", "OUTFLOW"}))
\* What a user bought and what was bought of the user.
SellerIs(d, u, who) ==
    \/ u.type = "MARKET" /\ d.items[u.ref].owner = who
    \/ u.type = "STOCK_MATCH_BUY" /\ d.stocks[u.ref].owner = who
AdminUserUsages(d, q) ==
    Newest(Rows(d.usages, LAMBDA u :
        u.type # "PROMPT" /\ (u.user = Me \/ SellerIs(d, u, Me))))

-----------------------------------------------------------------------------
(***************************************************************************)
(* The desk: user, support_customer, support_bussiness, support_faq,       *)
(* user_memo.                                                              *)
(***************************************************************************)

AdminUsers(d, q) == Newest(Rows(d.people, LAMBDA p : Having(q, "keyword", p.titled)))
Questions(d, q, kind) ==
    Rows(d.asks, LAMBDA a :
        a.kind = kind /\ Dated(q, DayOf(a.at)) /\ Having(q, "status", a.status = "PENDING"))
AdminCustomers(d, q) == Newest(Questions(d, q, "customer"))
AdminBusinesses(d, q) == Newest(Questions(d, q, "business"))
AdminFaqs(d, q) == Newest(Rows(d.faqs, LAMBDA f : ~f.gone))
\* No order is asked for: the rows come by the primary key.
Faqs(d, q) == Reverse(Newest(Rows(d.faqs, LAMBDA f : ~f.gone)))
AdminUserAsks(d, q) ==
    Newest(Rows(d.asks, LAMBDA a : a.kind = "customer" /\ a.user = Me))
AdminMemos(d, q) == Newest(Rows(d.memos, LAMBDA m : m.user = Me))

-----------------------------------------------------------------------------
(***************************************************************************)
(* A page: the rows and the total, read one after the other.               *)
(***************************************************************************)

\* The handlers of each list.
OfMarketProfile(d, l, q) ==
    CASE l = "purchases"  -> PurchaseHistory(d, q)
      [] l = "registered" -> RegisterMarketItems(d, q)
      [] l = "sales"      -> SalesDays(d, q)
OfHoldings(d, l, q) ==
    CASE l = "accounts" -> StockAccounts(d, q)
      [] l = "offered"  -> RegisterStockItems(d, q)
OfOrders(d, l, q) ==
    CASE l = "lives"   -> OrderLives(d, q)
      [] l = "matches" -> SellMatchDays(d, q)
OfMoney(d, l, q) ==
    CASE l = "payments" -> Payments(d, q)
      [] l = "usages"   -> Usages(d, q)
OfMarket(d, l, q) ==
    CASE l = "market" -> MarketItems(d, q)
      [] l = "cart"   -> MarketCart(d, q)
OfAdminUser(d, l, q) ==
    CASE l = "adminUserUsages" -> AdminUserUsages(d, q)
      [] l = "adminVideos"     -> AdminVideos(d, q)
      [] l = "adminPurchases"  -> AdminPurchases(d, q)
      [] l = "adminRegistered" -> AdminRegistered(d, q)
      [] l = "adminMatches"    -> AdminMatches(d, q)
OfAdminAccount(d, l, q) ==
    CASE l = "adminPayments" -> AdminPayments(d, q)
      [] l = "adminAsks"     -> AdminUserAsks(d, q)
      [] l = "adminMemos"    -> AdminMemos(d, q)
OfAdminSupport(d, l, q) ==
    CASE l = "customers"  -> AdminCustomers(d, q)
      [] l = "businesses" -> AdminBusinesses(d, q)
      [] l = "adminFaqs"  -> AdminFaqs(d, q)

Entries(d, l, q) ==
    CASE l \in {"purchases", "registered", "sales"} -> OfMarketProfile(d, l, q)
      [] l \in {"accounts", "offered"} -> OfHoldings(d, l, q)
      [] l \in {"lives", "matches"} -> OfOrders(d, l, q)
      [] l \in {"payments", "usages"} -> OfMoney(d, l, q)
      [] l \in {"market", "cart"} -> OfMarket(d, l, q)
      [] l \in {"adminPayments", "adminAsks", "adminMemos"} -> OfAdminAccount(d, l, q)
      [] l \in {"customers", "businesses", "adminFaqs"} -> OfAdminSupport(d, l, q)
      [] l \in {"adminUserUsages", "adminVideos", "adminPurchases", "adminRegistered",
                "adminMatches"} -> OfAdminUser(d, l, q)
      [] l = "videos"        -> WorkspaceVideos(d, q)
      [] l = "stocks"        -> StockItems(d, q)
      [] l = "outflows"      -> Outflows(d, q)
      [] l = "faqs"          -> Faqs(d, q)
      [] l = "users"         -> AdminUsers(d, q)
      [] l = "adminMarket"   -> AdminMarketItems(d, q)
      [] l = "adminStocks"   -> AdminStockItems(d, q)
      [] l = "adminUsages"   -> AdminUsages(d, q)
      [] l = "performance"   -> Performance(d, q)
      [] l = "adminCharges"  -> AdminCharges(d, q)
      [] l = "adminOutflows" -> AdminOutflows(d, q)

\* Options that a request may add, besides none.
Options(l) ==
    CASE l = "purchases" -> {"keyword", "available"}
      [] l \in {"sales", "matches", "videos", "users"} -> {"keyword"}
      [] l \in {"market"} -> {"keyword", "rand"}
      [] l = "stocks" -> {"keyword", "price", "rand"}
      [] l = "accounts" -> {"volume"}
      [] l = "outflows" -> {"status", "type"}
      [] l \in {"adminOutflows", "customers", "businesses"} -> {"status"}
      [] l = "adminUsages" -> {"currency"}
      [] l = "performance" -> {"title"}
      [] OTHER -> {}
\* Lists that may be asked for days only.
ByDays == {"purchases", "adminMarket", "adminStocks", "payments", "usages", "outflows",
           "adminCharges", "adminOutflows", "customers", "businesses"}
Queries(l) ==
    [dated : IF l \in ByDays THEN BOOLEAN ELSE {FALSE},
     option : Options(l) \cup {"none"}, size : PageSizes]

\* Lists ordered by created_at, which leaves rows of one moment in any order;
\* the others are ordered by the primary key.
ByTime == {"purchases", "registered", "lives", "offered", "payments"}
Table(d, l) ==
    CASE l = "purchases" -> d.sales    [] l = "registered" -> d.items
      [] l = "lives" -> d.lives        [] l = "offered" -> d.accounts
      [] l = "payments" -> d.payments
Key(d, l, q, e) ==
    CASE q.option = "rand"   -> 0
      [] q.option = "price"  -> d.stocks[e].price
      [] q.option = "volume" -> d.accounts[e].volume
      [] l = "accounts" /\ q.option # "volume" -> d.accounts[e].touched
      [] l \in ByTime        -> Table(d, l)[e].at
      [] OTHER               -> e
\* The database chooses where the order of the query leaves a choice.
Orders(d, l, q) ==
    LET rows == Entries(d, l, q)
    IN IF l \notin ByTime \cup {"accounts"} /\ q.option \notin {"rand", "price"} THEN {rows}
       ELSE {s \in SetToSeqs(ToSet(rows)) : \A i, j \in DOMAIN s :
                i < j => Key(d, l, q, s[i]) >= Key(d, l, q, s[j])}

Total(d, l, q) ==
    IF l = "performance" THEN PerformanceTotal(d, q) ELSE Len(Entries(d, l, q))

\* PageRequest.getOffset
Offset(q, page) == page * q.size
\* take and skip; the cart has them commented out.
PageOf(l, q, rows, page) ==
    IF l = "cart" THEN rows
    ELSE SubSeq(rows, Offset(q, page) + 1, Min({Offset(q, page) + q.size, Len(rows)}))

\* The total is read first, and without a row nothing else is.
CountedFirst == {"accounts", "sales", "matches", "adminUserUsages"}
\* These pass the offset where PagenationRes expects the page.
NumberedByOffset ==
    {"adminMarket", "adminStocks", "adminPurchases", "adminRegistered", "adminVideos",
     "adminMatches", "adminCharges", "adminOutflows", "adminPayments", "customers",
     "businesses", "adminFaqs", "adminAsks", "adminMemos"}

\* PagenationRes
TotalPage(q, total) ==
    LET pages == (total + q.size - 1) \div q.size
    IN IF pages > 0 THEN pages - 1 ELSE 0
\* Fault: the offset for every list.
CurrentPageFault(l, q, page) == Offset(q, page)
CurrentPage(l, q, page) == IF l \in NumberedByOffset THEN Offset(q, page) ELSE page
\* Fault: one page too few.
IsLastFault(l, q, page, total) == CurrentPage(l, q, page) + 1 >= TotalPage(q, total)
IsLast(l, q, page, total) == CurrentPage(l, q, page) >= TotalPage(q, total)

\* A client asks for the first page.
Begin(l, q) ==
    [list |-> l, query |-> q, phase |-> "ask", page |-> 0, rows |-> <<>>, total |-> 0,
     seen |-> <<>>, first |-> Orders(db, l, q), kept |-> ToSet(Entries(db, l, q)),
     came |-> FALSE, left |-> FALSE, tied |-> FALSE]

ReadsTotal == IF walk.list \in CountedFirst THEN "ask" ELSE "total"
ReadsRows == IF walk.list \in CountedFirst THEN "rows" ELSE "ask"
ReadTotal ==
    /\ walk.phase = ReadsTotal
    /\ walk' = [walk EXCEPT
            !.total = Total(db, walk.list, walk.query),
            !.phase = IF walk.list \in CountedFirst THEN "rows" ELSE "answer"]
    /\ UNCHANGED <<db, now, added, changed>>
ReadRows ==
    /\ walk.phase = ReadsRows
    /\ \E rows \in Orders(db, walk.list, walk.query) :
        walk' = [walk EXCEPT
            !.rows = IF walk.list \in CountedFirst /\ walk.total = 0 THEN <<>>
                     ELSE PageOf(walk.list, walk.query, rows, walk.page),
            !.tied = @ \/ Orders(db, walk.list, walk.query) # {rows},
            !.phase = IF walk.list \in CountedFirst THEN "answer" ELSE "total"]
    /\ UNCHANGED <<db, now, added, changed>>

\* The client shows the page and asks for the next one.
ShowPage ==
    /\ walk.phase = "answer"
    /\ LET last == IsLast(walk.list, walk.query, walk.page, walk.total) IN
        walk' = [walk EXCEPT
            !.seen = @ \o walk.rows, !.rows = <<>>,
            !.page = IF last THEN @ ELSE @ + 1,
            !.phase = IF last THEN "done" ELSE "ask"]
    /\ UNCHANGED <<db, now, added, changed>>

-----------------------------------------------------------------------------
(***************************************************************************)
(* The rows change.                                                        *)
(***************************************************************************)

\* The tables that a list reads; what changes others only is left out.
Reads(l) ==
    CASE l \in {"purchases", "sales"} -> {"sales", "items"}
      [] l \in {"registered", "market", "adminMarket", "adminRegistered"} -> {"items"}
      [] l = "cart"           -> {"carts"}
      [] l \in {"videos", "adminVideos"} -> {"videos"}
      [] l = "adminPurchases" -> {"sales"}
      [] l \in {"usages", "adminUsages", "performance", "adminUserUsages"} -> {"usages"}
      [] l = "accounts"       -> {"accounts", "stocks"}
      [] l = "offered"        -> {"accounts"}
      [] l = "lives"          -> {"lives"}
      [] l = "matches"        -> {"matches", "stocks"}
      [] l \in {"stocks", "adminStocks"} -> {"stocks"}
      [] l = "adminMatches"   -> {"matches"}
      [] l \in {"payments", "adminCharges", "adminPayments"} -> {"payments"}
      [] l \in {"outflows", "adminOutflows"} -> {"outflows"}
      [] l = "users"          -> {"people"}
      [] l \in {"customers", "businesses", "adminAsks"} -> {"asks"}
      [] l \in {"faqs", "adminFaqs"} -> {"faqs"}
      [] l = "adminMemos"     -> {"memos"}

\* What a walk notes of a change: that rows came, and that rows left, or changed
\* places when none came.
Watched(new) ==
    LET before == Entries(db, walk.list, walk.query)
        after == Entries(new, walk.list, walk.query)
        came == ToSet(after) \ ToSet(before)
    IN [walk EXCEPT
            !.kept = @ \cap ToSet(after),
            !.came = @ \/ came # {},
            !.left = @ \/ IF came = {} THEN after # before
                          ELSE ~(ToSet(before) \subseteq ToSet(after))]

\* Bound: the behaviour of interest ends with the walk.
Changing(new) ==
    /\ walk.phase # "done" /\ \E table \in Reads(walk.list) : new[table] # db[table]
    /\ db' = new /\ walk' = Watched(new) /\ UNCHANGED now
Add(new) == added < MaxRows /\ Changing(new) /\ added' = added + 1 /\ UNCHANGED changed
Change(new) ==
    changed < MaxChanges /\ Changing(new) /\ changed' = changed + 1 /\ UNCHANGED added

CreateMarketItem(u, t) ==
    Add([db EXCEPT !.items =
        Append(@, [owner |-> u, titled |-> t, show |-> TRUE, deleted |-> FALSE, at |-> now])])
ShowMarketItem(i) ==
    /\ ~db.items[i].deleted
    /\ Change([db EXCEPT !.items[i].show = ~@])
DeleteMarketItem(i) ==
    /\ ~db.items[i].deleted
    /\ Change([db EXCEPT !.items[i].deleted = TRUE, !.items[i].show = FALSE])
AdminDelete(i) == Change([db EXCEPT !.items[i].deleted = ~@])

Usage(u, type, ref) == [user |-> u, type |-> type, ref |-> ref, at |-> now]
Purchase(u, i) ==
    /\ db.items[i].show /\ ~db.items[i].deleted /\ db.items[i].owner # u
    /\ Add([db EXCEPT
            !.sales = Append(@, [buyer |-> u, item |-> i, at |-> now, available |-> TRUE]),
            !.usages = Append(@, Usage(u, "MARKET", i))])
ExpireDownload(s) ==
    /\ db.sales[s].available
    /\ Change([db EXCEPT !.sales[s].available = FALSE])
AddToCart(i) ==
    /\ ~\E c \in DOMAIN db.carts : db.carts[c].item = i /\ ~db.carts[c].gone
    /\ Add([db EXCEPT !.carts = Append(@, [user |-> Me, item |-> i, gone |-> FALSE])])
RemoveFromCart(c) ==
    /\ ~db.carts[c].gone
    /\ Change([db EXCEPT !.carts[c].gone = TRUE])
CreateVideo(u, t) ==
    Add([db EXCEPT
        !.videos = Append(@, [owner |-> u, titled |-> t, deleted |-> FALSE]),
        !.usages = Append(@, Usage(u, "PROMPT", 0))])
DeleteVideo(v) ==
    /\ ~db.videos[v].deleted
    /\ Change([db EXCEPT !.videos[v].deleted = TRUE])

\* init: the stock item, all its shares and the first order.
OpenStock(u, t, p) ==
    Add([db EXCEPT
        !.stocks = Append(@, [owner |-> u, titled |-> t, show |-> TRUE, deleted |-> FALSE,
                              at |-> now, price |-> p]),
        !.accounts = Append(@, [user |-> u, stock |-> Len(db.stocks) + 1, volume |-> 2,
                                at |-> now, touched |-> now]),
        !.lives = Append(@, [user |-> u, type |-> "SELL", stock |-> Len(db.stocks) + 1,
                             volume |-> 1, open |-> TRUE, at |-> now])])
ShowStock(s) ==
    /\ ~db.stocks[s].deleted
    /\ Change([db EXCEPT !.stocks[s].show = ~@])
\* The daemon: nobody else holds shares; the orders are closed.
CloseStock(s) ==
    /\ ~db.stocks[s].deleted
    /\ \A a \in DOMAIN db.accounts :
            db.accounts[a].stock = s /\ db.accounts[a].volume > 0 =>
                db.accounts[a].user = db.stocks[s].owner
    /\ Change([db EXCEPT
            !.stocks[s].deleted = TRUE, !.stocks[s].show = FALSE,
            !.lives = [o \in DOMAIN @ |->
                IF @[o].stock = s THEN [@[o] EXCEPT !.open = FALSE] ELSE @[o]]])
AdminDeleteStock(s) == Change([db EXCEPT !.stocks[s].deleted = ~@])
Buy(u, s) ==
    /\ ~db.stocks[s].deleted
    /\ Add([db EXCEPT !.lives =
            Append(@, [user |-> u, type |-> "BUY", stock |-> s, volume |-> 1, open |-> TRUE, at |-> now])])
CancelOrder(o) ==
    /\ db.lives[o].open
    /\ Change([db EXCEPT !.lives[o].open = FALSE])
\* One share goes from the seller's account to the buyer's, which is found or
\* created.
Transferred(buy, sell) ==
    LET give == [a \in DOMAIN db.accounts |->
            IF db.accounts[a].stock # buy.stock THEN db.accounts[a]
            ELSE CASE db.accounts[a].user = sell.user ->
                        [db.accounts[a] EXCEPT !.volume = @ - 1, !.touched = now]
                   [] db.accounts[a].user = buy.user ->
                        [db.accounts[a] EXCEPT !.volume = @ + 1, !.touched = now]
                   [] OTHER -> db.accounts[a]]
        has == \E a \in DOMAIN give : give[a].user = buy.user /\ give[a].stock = buy.stock
    IN IF has THEN give
       ELSE Append(give, [user |-> buy.user, stock |-> buy.stock, volume |-> 1,
                          at |-> now, touched |-> now])
Filled(order) == [order EXCEPT !.volume = 0, !.open = FALSE]
Match(b, s) ==
    LET buy == db.lives[b]
        sell == db.lives[s]
    IN /\ buy.open /\ sell.open /\ buy.type = "BUY" /\ sell.type = "SELL"
       /\ buy.stock = sell.stock /\ buy.user # sell.user
       /\ Add([db EXCEPT
            !.lives[b] = Filled(buy), !.lives[s] = Filled(sell),
            !.accounts = Transferred(buy, sell),
            !.matches = Append(@, [seller |-> sell.user, buyer |-> buy.user,
                                   stock |-> buy.stock, at |-> now]),
            !.usages = Append(@, Usage(buy.user, "STOCK_MATCH_BUY", buy.stock))])

Prepare(u) ==
    Add([db EXCEPT !.payments =
        Append(@, [user |-> u, status |-> "PENDING", at |-> now])])
Pay(p) ==
    /\ db.payments[p].status = "PENDING"
    /\ Change([db EXCEPT !.payments[p].status = "PAID"])
RequestOutflow(u, t) ==
    Add([db EXCEPT !.outflows =
        Append(@, [user |-> u, type |-> t, status |-> "PENDING", at |-> now])])
\* A confirmed outflow leaves a payment, too.
ConfirmOutflow(o) ==
    /\ db.outflows[o].status = "PENDING"
    /\ Add([db EXCEPT
            !.outflows[o].status = "CONFIRMED",
            !.payments = Append(@, [user |-> db.outflows[o].user, status |-> "OUTFLOW",
                                    at |-> now])])
CancelOutflow(o) ==
    /\ db.outflows[o].status = "PENDING"
    /\ Change([db EXCEPT !.outflows[o].status = "CANCELED"])

SignUp(t) == Add([db EXCEPT !.people = Append(@, [titled |-> t])])
Ask(u, kind) ==
    Add([db EXCEPT !.asks =
        Append(@, [user |-> u, kind |-> kind, status |-> "PENDING", at |-> now])])
AnswerQuestion(a) ==
    /\ db.asks[a].status = "PENDING"
    /\ Change([db EXCEPT !.asks[a].status = "CONFIRMED"])
CreateFaq == Add([db EXCEPT !.faqs = Append(@, [gone |-> FALSE])])
DeleteFaq(f) ==
    /\ ~db.faqs[f].gone
    /\ Change([db EXCEPT !.faqs[f].gone = TRUE])
CreateMemo(u) == Add([db EXCEPT !.memos = Append(@, [user |-> u])])

Tick ==
    /\ now < MaxTime /\ walk.phase # "done" /\ now' = now + 1
    /\ UNCHANGED <<db, walk, added, changed>>

-----------------------------------------------------------------------------
HistoriesInit ==
    /\ db = Start /\ now = Present /\ added = 0 /\ changed = 0
    /\ \E l \in Lists : \E q \in Queries(l) : walk = Begin(l, q)

Sell ==
    \/ \E u \in Users, t \in BOOLEAN : CreateMarketItem(u, t) \/ CreateVideo(u, t)
    \/ \E i \in DOMAIN db.items :
          \/ ShowMarketItem(i) \/ DeleteMarketItem(i) \/ AdminDelete(i) \/ AddToCart(i)
          \/ \E u \in Users : Purchase(u, i)
    \/ \E s \in DOMAIN db.sales : ExpireDownload(s)
    \/ \E c \in DOMAIN db.carts : RemoveFromCart(c)
    \/ \E v \in DOMAIN db.videos : DeleteVideo(v)
Trade ==
    \/ \E u \in Users, t \in BOOLEAN, p \in 1..2 : OpenStock(u, t, p)
    \/ \E s \in DOMAIN db.stocks :
          \/ ShowStock(s) \/ CloseStock(s) \/ AdminDeleteStock(s)
          \/ \E u \in Users : Buy(u, s)
    \/ \E o \in DOMAIN db.lives :
          \/ CancelOrder(o)
          \/ \E s \in DOMAIN db.lives : Match(o, s)
Money ==
    \/ \E u \in Users : Prepare(u) \/ \E t \in {"REFUND", "SETTLEMENT"} : RequestOutflow(u, t)
    \/ \E p \in DOMAIN db.payments : Pay(p)
    \/ \E o \in DOMAIN db.outflows : ConfirmOutflow(o) \/ CancelOutflow(o)
Desk ==
    \/ \E t \in BOOLEAN : SignUp(t)
    \/ \E u \in Users : CreateMemo(u) \/ \E k \in {"customer", "business"} : Ask(u, k)
    \/ \E a \in DOMAIN db.asks : AnswerQuestion(a)
    \/ CreateFaq \/ \E f \in DOMAIN db.faqs : DeleteFaq(f)

HistoriesNext ==
    \/ ReadTotal \/ ReadRows \/ ShowPage
    \/ Sell \/ Trade \/ Money \/ Desk \/ Tick

HistoriesSpec == HistoriesInit /\ [][HistoriesNext]_historiesVars

-----------------------------------------------------------------------------
(***************************************************************************)
(* Properties.                                                             *)
(***************************************************************************)

\* The tables have the columns that the lists select by, and the client walks a
\* list with a query that it may have.
Phases == {"ask", "rows", "total", "answer", "done"}
WalkRow ==
    [list : Lists, query : UNION {Queries(l) : l \in Lists}, phase : Phases, page : Nat,
     rows : Seq(Nat), total : Nat, seen : Seq(Nat), first : SUBSET Seq(Nat), kept : SUBSET Nat,
     came : BOOLEAN, left : BOOLEAN, tied : BOOLEAN]
HistoriesTypeOK ==
    /\ now \in Nat /\ db \in Tables
    /\ walk \in WalkRow /\ walk.query \in Queries(walk.list)

Done == walk.phase = "done"
\* The lists that hold none of the known faults: those of the administration
\* that take the offset for the page, the cart, which is never cut into pages,
\* the sales performance, whose total counts other rows than are listed.
Sound == walk.list \notin NumberedByOffset \cup {"cart", "performance"}

\* A client who pages until isLast has seen the list, in its order and nothing
\* else, and was told its length, when nothing came or went and no two rows have
\* the same place in the order (PagenationRes, PageRequest.getOffset, and the
\* query of each list).
UndisturbedWalkIsExact ==
    Done /\ Sound /\ ~walk.came /\ ~walk.left /\ ~walk.tied =>
        /\ walk.seen \in walk.first
        /\ walk.total = Len(walk.seen)

\* What is in the list from the first to the last page is seen by the walk also
\* when rows are added meanwhile, as long as none goes: new rows push the others
\* to later pages, and a total that was read after the rows counts them.  The
\* lists that count first do not have it (SalesDays, StockAccounts, ...).
StayingIsSeen ==
    Done /\ Sound /\ walk.list \notin CountedFirst /\ ~walk.left /\ ~walk.tied =>
        walk.kept \subseteq ToSet(walk.seen)
=============================================================================
