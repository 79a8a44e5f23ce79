------------------------------ MODULE Listing ------------------------------
(***************************************************************************)
(* The life of a listing: a video becomes a market item, its owner opens a *)
(* stock item on it, both are shown, hidden and deleted by their owner, by *)
(* the administration and by the matching daemon.  The handlers of         *)
(* ApiStockController, ApiMarketController and ApiAdminMarketController    *)
(* run without a transaction and wait for uploads, for queries and for the *)
(* daemon, so that others run in between.  Of trading only what touches    *)
(* the listing is left: an order opens or is matched (StockExchange).      *)
(* A definition marked "Fault" is used by no action: it is a plausible     *)
(* mistake in the definition after it, which a property must notice.       *)
(***************************************************************************)
EXTENDS Integers, Sequences, FiniteSets

CONSTANTS
    Videos,      \* mc_raw_video, by id
    Jobs,        \* the requests that are open at one time
    Operations,  \* the operations requested
    MaxJobs,     \* bound: the requests made
    MaxItems,    \* bound: the items of each kind
    MaxCrashes   \* bound: the handlers that end between two steps

ASSUME VideosAssumption == Videos \subseteq Nat \ {0} /\ Videos # {}

VARIABLES
    market,   \* mc_market_item
    stock,    \* mc_stock_item with what refers to it: account (the owner's row
              \* in mc_stock_account), ordered and booked (the rows initOrder
              \* saves), live and row (the volume in them), sold (another user
              \* holds shares)
    job,      \* the requests, each where it is in its handler
    queue,    \* messages to the matching daemon
    discarded, \* the videos with is_deleted
    trades,   \* history: the matches of each stock item
    resaved,  \* history: stock items of which a save wrote an older value back
    missed,   \* history: stock items for which an order was handled while they
              \* were hidden, or which were changed before init was through
    unsent,   \* history: stock items of which the administration did not get a
              \* HIDE_ITEM message on its way, and none was handled since
    made, crashes

vars == <<market, stock, job, queue, discarded, trades, resaved, missed, unsent, made, crashes>>
history == <<trades, resaved, missed, unsent, made, crashes>>

Idle == [op |-> "idle"]
Markets == DOMAIN market
Stocks == DOMAIN stock

-----------------------------------------------------------------------------
Job(op, item, phase) == [op |-> op, item |-> item, phase |-> phase]
Begin(j, r) ==
    /\ job[j] = Idle /\ made < MaxJobs /\ r.op \in Operations
    /\ job' = [job EXCEPT ![j] = r] /\ made' = made + 1
At(j, op, phase) == job[j].op = op /\ job[j].phase = phase
Goto(j, phase) == job' = [job EXCEPT ![j].phase = phase]
End(j) == job' = [job EXCEPT ![j] = Idle]

\* A market item is created: looked up, uploaded, stored.
Listed(v) == \E m \in Markets : market[m].video = v /\ ~market[m].deleted
StartCreate(j, v) ==
    /\ ~Listed(v)
    /\ Begin(j, Job("create", v, "upload"))
    /\ UNCHANGED <<discarded, market, stock, queue, trades, resaved, missed, unsent, crashes>>
CreateMarketItem(j) ==
    /\ At(j, "create", "upload") /\ Len(market) < MaxItems
    /\ market' = Append(market, [video |-> job[j].item, show |-> TRUE, deleted |-> FALSE])
    /\ End(j)
    /\ UNCHANGED <<discarded, stock, queue, history>>

\* init: a stock item, the owner's shares, the first order and its book row are
\* stored one after the other.
HasAccount(m) ==
    \E s \in Stocks : stock[s].market = m /\ stock[s].account /\ ~stock[s].deleted
StartInit(j, m) ==
    /\ market[m].show /\ ~market[m].deleted /\ ~HasAccount(m)
    /\ Begin(j, Job("init", m, "upload"))
    /\ UNCHANGED <<discarded, market, stock, queue, trades, resaved, missed, unsent, crashes>>

NewStock(m) ==
    [video |-> market[m].video, market |-> m, show |-> TRUE, deleted |-> FALSE,
     views |-> 0, matches |-> 0, account |-> FALSE, ordered |-> FALSE,
     booked |-> FALSE, live |-> 0, row |-> 0, sold |-> FALSE]
CreateStockItem(j) ==
    /\ At(j, "init", "upload") /\ Len(stock) < MaxItems
    /\ stock' = Append(stock, NewStock(job[j].item))
    /\ job' = [job EXCEPT ![j] = Job("init", Len(stock) + 1, "account")]
    /\ trades' = Append(trades, 0)
    /\ UNCHANGED <<discarded, market, queue, resaved, missed, unsent, made, crashes>>

\* Fault: the order is stored without its book row.
SavedFault(s, what) ==
    CASE what = "account" -> [s EXCEPT !.account = TRUE]
      [] OTHER -> [s EXCEPT !.ordered = TRUE, !.live = @ + 1]
Saved(s, what) ==
    CASE what = "account" -> [s EXCEPT !.account = TRUE]
      [] what = "order" -> [s EXCEPT !.ordered = TRUE, !.live = @ + 1]
      [] what = "row" -> [s EXCEPT !.booked = TRUE, !.row = @ + 1]
SaveNext(j) ==
    /\ job[j].op = "init" /\ job[j].phase \in {"account", "order", "row"}
    /\ stock' = [stock EXCEPT ![job[j].item] = Saved(@, job[j].phase)]
    /\ CASE job[j].phase = "account" -> Goto(j, "order")
         [] job[j].phase = "order" -> Goto(j, "row")
         [] job[j].phase = "row" -> End(j)
    /\ UNCHANGED <<discarded, market, queue, history>>

-----------------------------------------------------------------------------
\* The accounts' queries find an item whose market item is shown too.
Visible(s) ==
    /\ stock[s].account /\ stock[s].show /\ ~stock[s].deleted
    /\ market[stock[s].market].show /\ ~market[stock[s].market].deleted

\* detail counts a view, update changes the title: each saves the entity it
\* read before.  save writes the columns that differ from the row.
Columns(s) == [show |-> stock[s].show, deleted |-> stock[s].deleted,
               views |-> stock[s].views, matches |-> stock[s].matches]
StartSave(j, op, s) ==
    /\ op \in {"detail", "update"} /\ (op = "detail" => Visible(s))
    /\ Begin(j, [op |-> op, item |-> s, phase |-> "save", copy |-> Columns(s)])
    /\ UNCHANGED <<discarded, market, stock, queue, trades, resaved, missed, unsent, crashes>>
Save(j) ==
    /\ job[j].op \in {"detail", "update"}
    /\ LET s == job[j].item
           c == job[j].copy
       IN  /\ stock' = [stock EXCEPT ![s].show = c.show, ![s].deleted = c.deleted,
                  ![s].matches = c.matches,
                  ![s].views = c.views + (IF job[j].op = "detail" THEN 1 ELSE 0)]
           /\ resaved' = IF c # Columns(s) THEN resaved \cup {s} ELSE resaved
    /\ End(j)
    /\ UNCHANGED <<discarded, market, queue, trades, missed, unsent, made, crashes>>

\* Orders and the deletion by the owner: checks, then a message.
StartOrder(j, s) ==
    /\ Visible(s)
    /\ Begin(j, Job("order", s, "send"))
    /\ UNCHANGED <<discarded, market, stock, queue, trades, resaved, missed, unsent, crashes>>
StartDelete(j, s) ==
    /\ Visible(s) /\ ~stock[s].sold
    /\ Begin(j, Job("delete", s, "send"))
    /\ UNCHANGED <<discarded, market, stock, queue, trades, resaved, missed, unsent, crashes>>
SendMessage(j) ==
    /\ job[j].op \in {"order", "delete", "status"} /\ job[j].phase = "send"
    /\ queue' = Append(queue, [type |-> job[j].op, stock |-> job[j].item, job |-> j])
    /\ Goto(j, "wait")
    /\ UNCHANGED <<discarded, market, stock, history>>

\* A failed send gives no UUID: the handler goes on and waits for an answer that
\* nobody sends.
SendFails(j) ==
    /\ job[j].op \in {"order", "delete", "status"} /\ job[j].phase = "send"
    /\ Goto(j, "lost")
    /\ unsent' = IF job[j].op = "status" THEN unsent \cup {job[j].item} ELSE unsent
    /\ UNCHANGED <<discarded, market, stock, queue, trades, resaved, missed, made, crashes>>

\* A call of the queue of answers fails: the wait is over, and so is the request.
\* Its message, if there is one, stays.
GiveUp(j) ==
    /\ job[j].op \in {"order", "delete", "status"} /\ job[j].phase \in {"wait", "lost"}
    /\ End(j)
    /\ UNCHANGED <<discarded, market, stock, queue, history>>

\* The owner discards a video.  The market item is the first there was of the
\* video; the stock item is looked for under the number of the video, as if it
\* were its own.
OfVideo(v) == {s \in Stocks : stock[s].video = v}
First(S) == CHOOSE s \in S : \A t \in S : s <= t
Discardable(v) ==
    LET found == {m \in Markets : market[m].video = v}
    IN  found # {} => market[First(found)].deleted /\ (v \in Stocks => stock[v].deleted)
StartDiscard(j, v) ==
    /\ Discardable(v)
    /\ Begin(j, Job("discard", v, "update"))
    /\ UNCHANGED <<discarded, market, stock, queue, trades, resaved, missed, unsent, crashes>>
Discard(j) ==
    /\ At(j, "discard", "update")
    /\ discarded' = discarded \cup {job[j].item}
    /\ End(j)
    /\ UNCHANGED <<market, stock, queue, history>>

-----------------------------------------------------------------------------
\* The matching daemon.  It looks neither at is_show nor at is_deleted before
\* it handles an order: one opens when there is none, is matched otherwise.
Opened(x) == [x EXCEPT !.live = 1, !.row = @ + 1]
\* Fault: the match is not counted.
MatchedFault(x) == [x EXCEPT !.live = @ - 1, !.row = 0, !.sold = TRUE]
Matched(x) ==
    [x EXCEPT !.live = @ - 1, !.sold = TRUE, !.matches = @ + 1,
              !.row = IF @ > 0 THEN @ - 1 ELSE 0]
Closed(x) ==
    IF x.sold THEN x ELSE [x EXCEPT !.deleted = TRUE, !.show = FALSE, !.live = 0]
\* Fault: hideItem does not change the live orders.
HiddenFault(x) == [x EXCEPT !.show = FALSE, !.row = 0]
Hidden(x) == [x EXCEPT !.show = FALSE, !.live = 0, !.row = IF x.live > 0 THEN 0 ELSE @]

\* An answer reaches the request that waits for it.  A request that waits sent
\* its message after those of the requests before it in its place.
Answered(msg, rest) ==
    /\ job[msg.job].op = msg.type /\ job[msg.job].phase = "wait"
    /\ \A n \in DOMAIN rest : rest[n].job # msg.job

Handle ==
    /\ queue # <<>>
    /\ LET msg == Head(queue)
           s == msg.stock
           x == stock[s]
           isTrade == msg.type = "order" /\ x.live > 0
       IN  /\ stock' = [stock EXCEPT ![s] =
                 CASE msg.type = "order" -> IF isTrade THEN Matched(x) ELSE Opened(x)
                   [] msg.type = "delete" -> Closed(x)
                   [] msg.type = "status" -> Hidden(x)]
           /\ trades' = IF isTrade THEN [trades EXCEPT ![s] = @ + 1] ELSE trades
           /\ missed' = IF ~x.booked \/ (msg.type = "order" /\ (~x.show \/ x.deleted))
                        THEN missed \cup {s} ELSE missed
           /\ unsent' = IF msg.type = "status" THEN unsent \ {s} ELSE unsent
           /\ job' = IF ~Answered(msg, Tail(queue)) THEN job
                     ELSE [job EXCEPT ![msg.job] =
                              IF msg.type = "status" THEN [@ EXCEPT !.phase = "mail"] ELSE Idle]
    /\ queue' = Tail(queue)
    /\ UNCHANGED <<discarded, market, resaved, made, crashes>>

-----------------------------------------------------------------------------
\* The administration shows and hides: the market item is read, then the stock
\* item, and one of two transactions is run.  All of them look for a stock item
\* by its video and find the first one there was.
StartStatus(j, m, isShow) ==
    /\ ~market[m].deleted
    /\ Begin(j, [op |-> "status", item |-> m, want |-> isShow, known |-> FALSE,
                 phase |-> IF ~market[m].show /\ isShow THEN "rollback" ELSE "find"])
    /\ UNCHANGED <<discarded, market, stock, queue, trades, resaved, missed, unsent, crashes>>

\* The stock item that the message will name, if there is one by now.
GetStockItem(j) ==
    /\ At(j, "status", "find")
    /\ job' = [job EXCEPT ![j].phase = "change",
                          ![j].known = OfVideo(market[job[j].item].video) # {}]
    /\ UNCHANGED <<discarded, market, stock, queue, history>>

\* updateShowStatus: what it throws is caught, and reported as success.  It reads
\* both items again; if it finds a stock item that the handler did not find, the
\* handler throws where it builds the message.
OrdersLeft(s) == stock[s].row > 0
UpdateShowStatus(j) ==
    /\ At(j, "status", "change")
    /\ LET m == job[j].item
           found == OfVideo(market[m].video)
           s == First(found)
           next == IF found = {} \/ ~OrdersLeft(s) THEN "mail"
                   ELSE IF job[j].known THEN "send" ELSE "throw"
       IN  IF ~market[m].show \/ market[m].deleted
           THEN UNCHANGED <<market, stock, missed, unsent>> /\ End(j)
           ELSE /\ market' = [market EXCEPT ![m].show = job[j].want]
                /\ IF found = {} THEN UNCHANGED <<stock, missed>>
                   ELSE /\ stock' = [stock EXCEPT ![s].show = job[j].want]
                        /\ missed' = IF stock[s].row < stock[s].live \/ ~stock[s].booked
                                     THEN missed \cup {s} ELSE missed
                /\ unsent' = IF next = "throw" THEN unsent \cup {s} ELSE unsent
                /\ CASE next = "mail" -> Goto(j, "mail")
                     [] next = "send" -> job' = [job EXCEPT ![j].phase = "send", ![j].item = s]
                     [] next = "throw" -> End(j)
    /\ UNCHANGED <<discarded, queue, trades, resaved, made, crashes>>

\* rollbackShowStatus: nothing is shown again without a hidden stock item.
RollbackShowStatus(j) ==
    /\ At(j, "status", "rollback")
    /\ LET m == job[j].item
           found == OfVideo(market[m].video)
           s == First(found)
       IN  /\ IF ~market[m].deleted /\ ~market[m].show /\ found # {}
                 /\ ~stock[s].deleted /\ ~stock[s].show
              THEN /\ market' = [market EXCEPT ![m].show = TRUE]
                   /\ stock' = [stock EXCEPT ![s].show = TRUE]
              ELSE UNCHANGED <<market, stock>>
    /\ End(j)
    /\ UNCHANGED <<discarded, queue, trades, resaved, missed, unsent, made, crashes>>

\* The HIDE_FAST_BOOK event and the mail: the end of the request, whether or
\* not they succeed.
SendEmail(j) ==
    /\ At(j, "status", "mail")
    /\ End(j)
    /\ UNCHANGED <<discarded, market, stock, queue, history>>

\* updateDeleteStatus: the stock item is looked for under the number of the
\* market item, as if it were the number of a video.
StartAdminDelete(j, m, isDeleted) ==
    /\ market[m].deleted # isDeleted
    /\ Begin(j, [op |-> "remove", item |-> m, want |-> isDeleted, phase |-> "market"])
    /\ UNCHANGED <<discarded, market, stock, queue, trades, resaved, missed, unsent, crashes>>
DeleteMarket(j) ==
    /\ At(j, "remove", "market")
    /\ market' = [market EXCEPT ![job[j].item].deleted = job[j].want]
    /\ Goto(j, "stock")
    /\ UNCHANGED <<discarded, stock, queue, history>>
DeleteStock(j) ==
    /\ At(j, "remove", "stock")
    /\ LET found == OfVideo(job[j].item)
       IN  IF found = {} THEN UNCHANGED <<stock, resaved>>
           ELSE /\ stock' = [stock EXCEPT ![First(found)].deleted = job[j].want]
                /\ resaved' = resaved \cup {First(found)}
    /\ End(j)
    /\ UNCHANGED <<discarded, market, queue, trades, missed, unsent, made, crashes>>

\* A handler ends between two of its steps, because its process dies or its next
\* query fails; a message that was sent stays.
Crash(j) ==
    /\ job[j] # Idle /\ crashes < MaxCrashes
    /\ End(j) /\ crashes' = crashes + 1
    /\ UNCHANGED <<discarded, market, stock, queue, trades, resaved, missed, unsent, made>>

-----------------------------------------------------------------------------
Complete(m) ==
    [NewStock(m) EXCEPT !.account = TRUE, !.ordered = TRUE, !.booked = TRUE,
                        !.live = 1, !.row = 1]
\* One market item, with or without a stock item.
Init ==
    /\ \E v \in Videos : market = <<[video |-> v, show |-> TRUE, deleted |-> FALSE]>>
    /\ \/ stock = <<>> /\ trades = <<>>
       \/ stock = <<Complete(1)>> /\ trades = <<0>>
    /\ job = [j \in Jobs |-> Idle]
    /\ queue = <<>> /\ discarded = {} /\ resaved = {} /\ missed = {}
    /\ unsent = {} /\ made = 0 /\ crashes = 0

Start(j) ==
    \/ \E v \in Videos : StartCreate(j, v) \/ StartDiscard(j, v)
    \/ \E m \in Markets : StartInit(j, m)
    \/ \E s \in Stocks : StartOrder(j, s) \/ StartDelete(j, s)
    \/ \E s \in Stocks, op \in {"detail", "update"} : StartSave(j, op, s)
    \/ \E m \in Markets, wanted \in BOOLEAN :
          StartStatus(j, m, wanted) \/ StartAdminDelete(j, m, wanted)

Next ==
    \/ \E j \in Jobs :
          \/ Start(j) \/ CreateMarketItem(j) \/ CreateStockItem(j) \/ SaveNext(j)
          \/ Save(j) \/ SendMessage(j) \/ SendFails(j) \/ GiveUp(j)
          \/ GetStockItem(j) \/ UpdateShowStatus(j) \/ RollbackShowStatus(j) \/ SendEmail(j)
          \/ DeleteMarket(j) \/ DeleteStock(j) \/ Discard(j) \/ Crash(j)
    \/ Handle

Spec == Init /\ [][Next]_vars

-----------------------------------------------------------------------------
\* Properties.

StockType ==
    [video : Videos, market : Nat, show : BOOLEAN, deleted : BOOLEAN,
     views : Nat, matches : Nat, account : BOOLEAN, ordered : BOOLEAN,
     booked : BOOLEAN, live : Nat, row : Nat, sold : BOOLEAN]
Copies == [show : BOOLEAN, deleted : BOOLEAN, views : Nat, matches : Nat]
Requests ==
    {Idle}
    \cup [op : {"create", "discard"}, item : Videos, phase : {"upload", "update"}]
    \cup [op : {"init"}, item : Nat, phase : {"upload", "account", "order", "row"}]
    \cup [op : {"order", "delete"}, item : Nat, phase : {"send", "wait", "lost"}]
    \cup [op : {"detail", "update"}, item : Nat, phase : {"save"}, copy : Copies]
    \cup [op : {"status"}, item : Nat, want : BOOLEAN, known : BOOLEAN,
          phase : {"find", "rollback", "change", "send", "wait", "lost", "mail"}]
    \cup [op : {"remove"}, item : Nat, want : BOOLEAN, phase : {"market", "stock"}]
Messages == [type : {"order", "delete", "status"}, stock : Nat, job : Jobs]

\* Every variable has its type, and a request at work on an item works on one
\* that there is.
OnStock(r) ==
    \/ r.op = "init" /\ r.phase # "upload"
    \/ r.op \in {"order", "delete", "detail", "update"}
    \/ r.op = "status" /\ r.phase = "send"
OnMarket(r) ==
    \/ r.op = "init" /\ r.phase = "upload"
    \/ r.op = "status" /\ r.phase \in {"find", "rollback", "change"}
    \/ r.op = "remove"
TypeOK ==
    /\ market \in Seq([video : Videos, show : BOOLEAN, deleted : BOOLEAN])
    /\ stock \in Seq(StockType)
    /\ \A s \in Stocks : stock[s].market \in Markets
    /\ job \in [Jobs -> Requests]
    /\ \A j \in Jobs : /\ OnStock(job[j]) => job[j].item \in Stocks
                       /\ OnMarket(job[j]) => job[j].item \in Markets
    /\ queue \in Seq(Messages) /\ \A n \in DOMAIN queue : queue[n].stock \in Stocks
    /\ trades \in Seq(Nat) /\ DOMAIN trades = Stocks
    /\ resaved \cup missed \cup unsent \subseteq Stocks /\ discarded \subseteq Videos
    /\ crashes \in Nat /\ made \in Nat

\* What init stores of an item is stored in an order in which each part finds
\* what it refers to, and all of it is there when no init is at work on the
\* item, unless one ended half-way.
Creating(s) == \E j \in Jobs : job[j].op = "init" /\ job[j].phase # "upload" /\ job[j].item = s
ItemIsComplete ==
    \A s \in Stocks :
        /\ stock[s].ordered => stock[s].account
        /\ ~Creating(s) /\ crashes = 0 =>
              stock[s].account /\ stock[s].ordered /\ stock[s].booked

\* A stock item that is closed is closed.  One that is not shown offers nothing,
\* once the request that hid it is through, whatever was under way: but for an
\* order that was handled after the item was hidden, one that had no book row
\* yet, a save or a removal that changed the item behind the daemon's back, and a
\* hiding of which the daemon was never told, until it is told of another.
Hiding(s) ==
    \/ \E j \in Jobs : job[j].op = "status" /\ job[j].phase = "send" /\ job[j].item = s
    \/ \E n \in DOMAIN queue : queue[n].type = "status" /\ queue[n].stock = s
HiddenHasNoOrders ==
    \A s \in Stocks \ (resaved \cup missed \cup unsent) :
        ~stock[s].show /\ ~Hiding(s) /\ crashes = 0 => stock[s].live = 0

\* And one that its owner deleted belonged to the owner alone when the daemon
\* deleted it, also when a trade was ahead of the deletion in the queue.
DeletedIsWhole ==
    \A s \in Stocks \ (resaved \cup missed) :
        stock[s].deleted => ~stock[s].sold /\ stock[s].live = 0
\* updateShowStatus, delete and the daemon's DELETE and HIDE_ITEM.
ClosedIsClosed == HiddenHasNoOrders /\ DeletedIsWhole

\* match_cnt loses a match only to a save of an older value.
MatchesAreCounted ==
    \A s \in Stocks \ resaved : stock[s].matches = trades[s]

=============================================================================
