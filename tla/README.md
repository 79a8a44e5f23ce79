# mclose: specification of the stock exchange and its daemons

mclose is a market for generated videos. A video that is on sale can be listed
as a *stock item* of 100 shares; its owner keeps a majority, sells the rest, and
the holders share the profit of later sales. Orders for shares are taken by an
HTTP API, queued on AWS SQS, and matched by one daemon process against tables in
MySQL. This directory holds TLA+ modules of that program, the TLC
configurations that check them, and proofs checked by TLAPS. Paths below are
relative to the repository; `stock-match.service.ts:541` is a line of the file
of that name under `src/services/stock`.

## 1. The system

| Component | State it keeps | Operations | Talks to |
|---|---|---|---|
| Stock API (`app/api/api-stock.controller.ts`) | none of its own | `init`, `update`, `delete`, `buy`, `sell`, `modify-buy`, `modify-sell`, `cancel` | reads the tables, sends a message to the matching queue, waits for the answer with its UUID |
| Request and reply (`app-daemon.service.ts`, `common/aws/sqs`) | `daemonMap`; the in and out queues | `send`, `sendNotCache`, `defferedResult`, `consume`, `batchConsume`, `consumeByCommandUuid`, `flush` | API and daemons |
| Matching daemon (`matching-daemon.service.ts`) | none between messages | `execute`, `flush` | engine; out queue; gateway queue |
| Matching engine (`stock-match.service.ts`) | one database transaction | `matchingOrder`, `modifyOrder`, `cancelOrder`, `delete`, `hideItem` | the tables, through the four services below |
| Orders and book (`stock-action.service.ts`) | `mc_stock_order_live`, `mc_stock_order`, `mc_stock_match`, `mc_stock_order_cancel` | open, fill, close, upsert and delete book rows, histories, fast-book and profit queries | |
| Share accounts (`stock-account.service.ts`) | `mc_stock_account` | create, increase, decrease, checks | |
| Point accounts (`account.service.ts`, `account-action.service.ts`) | `mc_account`, `mc_account_history` | deposit, withdraw, bulk updates, checks | engine, market, payment, outflow |
| Scheduler (`schedule.service.ts`) | item prices, download flags, book | hourly deletion of zero book rows, daily prices, downloads | same tables, own connection |
| Stock gateway (`stock-gateway.service.ts`) | websocket rooms | `observe`, `sendFastBook`, `sendMatch` | gateway queue |
| Market (`market-action.service.ts`, `api-market.controller.ts`) | `mc_market_item`, `mc_market_history`, payouts | purchase, batch purchase, delete | point and share accounts |
| Payment and outflow (`payment.service.ts`, `transaction-action.service.ts`, `admin-payment.service.ts`) | payment and outflow histories | create, complete, cancel a payment; request and settle an outflow | point accounts, PortOne |
| Video daemon (`video-daemon.service.ts`, `video-action.service.ts`) | raw videos, prompt histories, files | prepare, transform, complete | its own queues, the prompt API, Pexels, ffmpeg, S3 |
| Listing (`api-stock.controller.ts`, `api-market.controller.ts`, `admin-market.service.ts`) | the flags of market items, stock items and videos | create, `init`, show, hide, delete, discard | database, matching daemon, uploads, mail |
| Lists, totals, charts (`transaction-action.service.ts`, `admin-payment.service.ts`, `admin-user.service.ts`) | none | paged lists with their totals, profits by day and month, the overview | every table |
| Workspace (`api-workspace.controller.ts`, `video-action.service.ts`) | keywords of a user, tags of the user's videos | edit the list, tag videos, discard videos | |
| Support desk (`api-support.controller.ts`, `admin-support.service.ts`) | questions, answers, FAQ | ask, answer, change a status | mail |
| Users, sessions, files, logging | tables with one writer, outside services | forms and calls | |

What is hard in it, and what makes each part correct:

* **Engine.** One message makes one or two transactions of many queries. Filling
  several orders, paying their sellers and moving their shares must happen as a
  whole; a failure or a crash at any query must leave nothing behind. Points,
  shares, live orders and the aggregated book are four accounts of the same
  facts and must agree. Orders are filled by price and then by age. Closed
  orders stay closed although messages are checked long before they are
  handled, cross each other in the queue and are delivered again.
* **Book.** It is kept by increments, on top of a read that may be stale.
* **Request and reply.** Answers of all requests share one queue. A message is
  deleted after it was executed, so that a crash executes it again; a lost
  answer leaves a request waiting.
* **API.** Every check is made on a state that may have changed when the message
  is handled.
* **Accounts.** Reads that take no lock are followed by unconditional
  decrements, on connections of several processes.
* **Market.** A price is split over share holders while the shares are traded.
* **Settling an outflow.** No path of its transaction commits: the connection
  goes back to its pool with the work on it.
* **Video jobs.** The message is deleted before the job is done, an error of the
  job ends the process, and a failed call ends a loop of a process that lives on.
* **Listing.** A stock item is four rows, and hiding or deleting it takes a flag
  and a message to the daemon, without a transaction around them.
* **Lists.** Rows and total are two queries, pages are read while rows come and
  go, and the end of the list is computed by the client from both.
* **Charts.** Days of the database, of the process and of UTC are mixed.
* **Workspace and desk.** Rows are read, changed in the process and written
  back whole; mails follow what was stored.

The hazards, each at its line and with the properties about it, are in
`PROJECT.json`; section 5 has those that the code does not withstand.

## 2. Modules

| Module | What it is |
|---|---|
| `Sums` | totals of a table column, defined without recursion so that they can be proved about |
| `TableLemmas` | what the proofs know of tables: a total is a number, what changing one row or splitting the rows does to it, totals of groups; rows replaced and appended; the smallest subset and the first row |
| `StockMatch` | the matching engine, its tables, the daemon's message loop, crashes and the cleanup; the properties |
| `StockMatchClaims` | what a comment of the repository says and the code does not do |
| `StockMatchProofs` | proofs about it: types, the life and the turn of an order, then shares, points and the book |
| `CommandLog` | what the senders of commands rely on: a log that is executed in order |
| `MatchQueue` | request and reply over the two FIFO queues: senders, daemon loop, flush, timeouts, lost calls, crashes of both processes |
| `MatchQueueProofs` | types, receipts, executions and answers; the refinement of `CommandLog`; what a walk through the pages of `Histories` has seen |
| `PointLedger` | payments, outflows, settlements and prompts on one account, with pools of connections, open transactions and locked rows |
| `PointLedgerProofs` | its locks, the account and its history, settlements; totals, charts and types of `Profits` |
| `Market` | purchases and batch purchases, shared sales, cart, likes, views, updates and deletions |
| `MarketProofs` | shared profits, history, counters, cart; lists and tags of `Workspace` |
| `StockExchange` | trading from the request over the daemon and the gateway's events to the page; built on `Sums` |
| `Listing` | market item, stock item and video: created, shown, hidden, deleted, discarded |
| `ListingProofs` | completeness, closing and matches of items |
| `VideoJobs` | a prompt from its charge over queue, daemon and uploads to the answer and the loading page |
| `VideoJobsProofs` | files before rows, rows before answers |
| `Histories` | the 33 paged lists, walked page by page while their tables change |
| `Profits` | profits, their charts and the overview of two months |
| `Workspace` | keywords and tags, with the abstract workspace in which a request is one step |
| `Desk` | questions, answers, statuses and their mails |
| `NoticeProofs` | what users are shown, offered and told: types, offers, lists of trades and pages of `StockExchange`; what `Desk` tells and mails is true |
| `MC...` | for each of these the instance for TLC |

What one module has in full another has in one step: the engine's transactions
(`StockMatch`) are the step `Handle` of `StockExchange`; trading is one step of
`Listing`, the daemon's delivery is `MatchQueue`, the market's transactions are
one step of `Market`, whose sales `Profits` adds up, and every table is a list in
`Histories`. An operator whose comment begins with "Fault", or that stands before
a definition as its variant, is used by no action: put in place of the
definition after it, it breaks the property that `PROJECT.json` names with it.

### How `StockMatch` corresponds to the code

*State.* `orders` is `mc_stock_order_live` in the order of ids; the match and
cancel rows of an order are summed up in its fields `filled` and `cancelRows`.
`book` is `mc_stock_order` by side and price, `NoRow` for a missing row.
`balance` holds the OS accounts, `shares` the share accounts of the item, `item`
the two flags of `mc_stock_item`. `matchCnt`, `fees` and `unpaid` are sums over
the match rows. These are the tables as the daemon's transaction sees them;
`committed` is what every other connection sees. `phase`, `msg`, `rem`
(`tmpRemainOrderVolume`), `fills` (`matchHistory`), `settled` and `seen` are the
local state of the handler; `seen` is the part of its snapshot that a later
decision uses. `repriced`, `unfunded`, `unrefunded`, `swept` and `announced` are
history variables.

*Actions.*

| Action | Code |
|---|---|
| `Receive(m)` | the daemon takes a message and its handler opens a transaction (`matching-daemon.service.ts:86-117`) |
| `Fill` | one resting order is filled: `updateOrderLive` and `matchAfterAccount` (`stock-match.service.ts:141-215, 301-408`) |
| `FillDone` | no resting order or no volume is left |
| `Settle`, `SettleFails` | `createMatchHistory` and `matchAfterStockAccount` of one match, or its exception and the rollback (`419-443`) |
| `Finish` | `increaseMatchCnt`, the book, commit (`445-513`) |
| `QueryFails` | a query fails before the commit and the transaction is rolled back, for one that a row stays locked for longer than a query waits (`514-536` and the catch blocks of the other handlers) |
| `OpenRemainder`, `OpenFails` | the rest of the request becomes a live order, or cannot be paid for (`99-140, 463-499`) |
| `Modify`, `Cancel`, `Delete`, `HideItem` | the handlers of these names, each one transaction |
| `Refuse` | their checks fail and the transaction is rolled back |
| `Reply` | the result is sent, and a MATCH event if it lists matches |
| `Crash` | the process dies at any point; the database rolls back; the queue delivers the message again, which is another `Receive` of it |
| `BatchDeleteOrderVolumeZero` | the scheduler's hourly transaction, between any two steps |

A handler is broken where it awaits a query whose result decides what comes
next. `Modify`, `Cancel`, `Delete` and `HideItem` read and then write rows that
only the daemon writes; the book row is the exception, and the snapshot that
`upsertOrderBook` reads is explicit in `seen`.

`depositToPoint` and `widthdrawFromPoint` catch every error and return false: when
the account row is missing, or another connection keeps it locked for longer than
a query waits (outflows of `PointLedger` write the OS account and may leave their
transaction open). `matchingOrder` makes an exception of it (`QueryFails`).
`modifyOrder`, `cancelOrder`, `delete` and `hideItem` do not look at the result and
commit (`593, 715, 723, 888, 1008`): `Modify` and `Cancel` choose whether the refund
and the charge were made, `CloseOrders` chooses for each order.

*Reductions*, each with its reason:

* `matchingOrder` finds the orders to fill with two queries (those whose running
  sum is below the requested total, and the next one) and has a branch for an
  empty first list. All of it amounts to filling the oldest order at the price
  until nothing is left: prices are equal, so comparing totals is comparing
  volumes. The branch at lines 215-253 (the first order is smaller than the
  request, yet was not in the list) cannot be reached.
* Points are counted in units of `1/FeeDen`, which makes every fee exact: the
  rounding of `DECIMAL(60,2)` and of JavaScript numbers is left out.
* `is_deleted` and a status other than `WAIT` are set together in every place,
  so `IsLive` is one test.
* An unknown user or message type gets an answer and changes no table.
* The API's checks are not assumed: any user may send any well-formed message at
  any time, since the state it was checked in may be gone. Only what cannot
  change is kept: the order of a MODIFY or CANCEL message exists, the amounts
  are positive, HIDE_ITEM carries the id of the item's owner.
* The engine does not look at `item`: a BUY or SELL that was in the queue when
  the item was deleted is executed. This is in the model.
* A modified order with a new price is matched like a new request but stays live
  with its whole volume (`isModfyOrderFlag`). This is in the model, too.
* The daemon is the only writer of the OS accounts here. What the other writers
  of point accounts do to each other is `PointLedger` and `Market`.

### How `MatchQueue` corresponds to the code

A command is its UUID and so is its answer; what executing it does to the tables
is `StockMatch`, here executions are counted (`executed`). Both queues are SQS
FIFO queues with one message group, because one constant group id is passed for
each. Such a group gives messages out from its front, and gives out none while
one of them is in flight. The in queue is therefore the log `accepted` with the
number `deleted` at its front and the number `held` that are in flight; the out
queue is `outq` and `outHeld`. `daemon`, `next` and `last` are `batchConsume` and
its `for` loop over the positions of the batch, `waiter[r]` is one call of
`defferedResult`, `flush` the function of that name in the daemon.

| Code | Actions |
|---|---|
| `send` and `defferedResult` | `Send`, `SendFails` (null is waited for: the waiter is `deaf`) |
| `consumeByCommandUuid` | `ReceiveOwn`, `DeleteOwn`, `DeleteLate`, `ReceiveOther`, `PollFails` |
| `batchConsume` and the callback of `execute` | `Receive`, `Execute`, `Answer`, `AnswerFails`, `DeleteBatch`, `DaemonStops` |
| `flush` of daemon and consumer, `consume` | `FlushReceive`, `FlushDelete`, `FlushNothing`, `FlushFails` |
| SQS (external) | `InTimeout`, `BatchTimeout`, `OutTimeout`, `ReceiptTimeout` |
| processes (external) | `AppCrash`, `AdminCrash`, each with its restart |

The daemon and the flush live in the app process, whose crash also ends the
requests in `AppRequests`; the administration process has the others
(`admin-daemon.service.ts` is the same code). A queue that loses its receipts to
a timeout lets the old receipt delete nothing. A produced answer may be dropped
if the command was executed before: the queues deduplicate by content. Not here:
`daemonMap`, which these functions write and only the loop for the video queue
reads (`VideoJobs`), and the gateway events (`StockExchange`).


### How `PointLedger` corresponds to the code

The points of one account, `mc_account` with its history, as payments
(`payment.service.ts`), outflows (`transaction-action.service.ts:1230-1290`),
their settlement (`admin-payment.service.ts:560-716`), prompts
(`api-prompt.controller.ts`) and the price batch of the scheduler write them.
What is new here is the *connection*: `conn[c]` is a connection of the pool of
the app or of the administration, `open` says that it has a transaction, `work`
is the charge or settlement which that transaction has made, and `cancelled` are
the payments that plain updates on it have cancelled. A handler that returns its connection with the
transaction open leaves the work on it: the next START TRANSACTION on the
connection commits it, the death of the process rolls it back, and until then
its rows are locked for everybody else (`Locked`).

| Code | Actions |
|---|---|
| `createOutflow` of controller and service | `CreateOutflow`: no balance is checked in its transaction |
| `prepare`, `complete`, `cancel` of payments | `PreparePayment`, `CompletePayment`, `CompleteUnknown`, `CancelPayment`; a locked account row makes the deposit return false, which nobody looks at |
| the charge of a prompt | `PromptCheck`, `PromptCharge`, `PromptTimesOut` |
| `updateOutFlowStatus` | `UpdateCheck`, `UpdateWrite`, `UpdateTimesOut`: no path commits |
| the batches of `schedule.service.ts` | `BatchUpdateStockItemOpenPrice`: on a day without matches its transaction stays open |
| any other transaction on a connection | `OtherTransaction` |
| death of a process (external) | `Crash(pool)` |

Payments, outflows and the price batch are one transaction of increments and one
step each; prompts and settlements, which read before they write, are two. One
account is enough: nothing here moves points between users.

### How `Market` corresponds to the code

`item`, `shares`, `balance`, `history`, `sales`, `likes`, `cart` are the tables;
`req[r]` is a call of the API and what it has read. `StartPurchase` and
`StartBatch` are the guards of `ApiMarketController.purchase` and
`batchPurchase`, `Lookup` and `BatchNext` the read of the share account,
`PayOwner` and `PayHolders` the transaction of `MarketActionService.purchase`
without and with holders, `TransactionFails` its rollback, `UncartPaid` the
deletion of the cart rows after a batch. `StartUpdate`/`Save` and
`StartDelete`/`Unlist`/`MarkDeleted` are the owner's update and deletion of an
item: both this and a purchase ask for the owner's share account with the same
query, which finds none of a hidden item (`OwnerIsFound`), so that such an item is
deleted without the daemon and whoever holds its shares. `Like`, `Unlike`, `IncreaseLikeCnt`, `DecreaseLikeCnt` and
`IncreaseViewCnt` the rows and their counters. `Trade` is a transfer of shares
by the daemon and `ShowOrHide` a change by the administration.

* A purchase is one step after its lookups: its updates are increments, its
  reads of one snapshot, and the insert of the sale serialises purchases of one
  item.
* The bulk update is one CASE of which only the first WHEN of a user counts, so
  that the buyer pays the part of the first holder (`PayHolders`). A holder whose
  volume is zero still has a row, and makes a later purchase fail.
* A condition that is the whole entity misses the row once a column has
  changed; the purchase then rolls back (`TransactionFails`).
* Prices are in units in which every share of a price is whole; rounding is left
  out. The total of a batch is the number the client sent.

### How `StockExchange` corresponds to the code

The route of one request: `Send` is a handler of `ApiStockController` with all
its checks (`BuyRequests`, `CanSell` and so on) and the message; `Handle` the daemon;
`ReadRow` and `SendFastBook` the reads of book rows after the answer and the
event made of them; `Deliver` the gateway's loop, to all pages; `Detail` a page
that is loaded; `SendFails` a request whose message or event was not accepted.
Decimal columns arrive as texts: where the code adds or compares such values
without converting them the model does what JavaScript does with the texts
(`Digits`, `SellOverVolume`), with whole volumes. Points are left out, so that
`Handle(funded)` is free to refuse. A handler's checks and its sending are one
step; the daemon's message is one step (`StockMatch` has its transactions,
`MatchQueue` its faults). The event queue has no order, and an event may be lost
or, when its deletion fails, come again. There is one app process.

### How `Listing` corresponds to the code

Market item, stock item and video, as handlers that run without a transaction
change them, one phase of `job[j]` for each stretch between two awaits:

| Code | Actions |
|---|---|
| creating a market item | `StartCreate`, `CreateMarketItem` |
| `ApiStockController.init` | `StartInit`, `CreateStockItem`, then `SaveNext` for item, share account, order and book row |
| `detail`, `update`: reads, then `save` of the whole entity | `StartSave`, `Save` |
| orders and the owner's `delete`, sent to the daemon | `StartOrder`, `StartDelete`, `SendMessage` or `SendFails`, `Handle` |
| `updateShowStatus` of the administration: market item, stock item, transaction, message, mail | `StartStatus`, `GetStockItem`, `UpdateShowStatus`, `SendMessage` or `SendFails`, `SendEmail` |
| `rollbackShowStatus` | `RollbackShowStatus` |
| `send` returns null; the handler waits for an answer to nobody (`daemon/admin-daemon.service.ts:34-60`) | `SendFails` |
| a call of the queue of answers fails and `consumeByCommandUuid` returns null | `GiveUp` |
| `delete` of the administration | `StartAdminDelete`, `DeleteMarket`, `DeleteStock` |
| discarding a video (`api-workspace.controller.ts:340-380`) | `StartDiscard`, `Discard` |
| death of the process, a query that fails (external) | `Crash(j)` |

The administration reads the stock item before `updateShowStatus` reads it again: when
`init` commits in between, the item is hidden and `stockItem.id`
(`api-admin-market.controller.ts:132`) throws, so that no HIDE_ITEM is sent
(`known` in `UpdateShowStatus`). `unsent` notes the item, as it does when `send` fails.
Of trading only what touches the listing is here: an order opens, or is matched
when one is live. The save of a market item is in `Market`.

### How `VideoJobs` corresponds to the code

`Charge`, `Produce` and `Remember` are `ApiPromptController.execute` and `send`
of `app-daemon.service.ts`: the message is in the queue before its request is in
`daemonMap`. `Receive` starts the callback of `VideoDaemonService.execute`, which
returns nothing, and `DeleteMessage` deletes the message while the work goes on:
`PreparePrompt`, `PrepareVideo`, `Complete`, `ExtractMetadata`, `Upload`,
`UpdateRow`, `ProduceResult`. `Consume` is the loop over the answers. `Ready` is
the answer to the loading page; it changes nothing and is an operator. `Crash`,
`WorkFails` and `UploadFails` end the process, since an exception of the work is
caught by nobody; `Restart` starts it again.

Both loops are `SqsConsumerService.consume`, whose catch is outside its `while`: a
call of SQS that fails ends the loop for good, in a process that lives on
(`receiving`, `consuming`). `ReceiveFails` is a failed receive of a message,
`DeleteFails` a failed delete, after which SQS has deleted the message or delivers
it again while its work goes on, and `ConsumeFails` either of them in the loop over
the answers.

The query of Pexels is part of `Complete`, adding the watermark part of `Upload`.
A file is named after the millisecond in which it is made: `ExtractMetadata`
takes the one of the last file or a later one. A charge that is refused ends
the request and is left out. A message comes a second time only after a death or a
failed delete.

### How `Histories` corresponds to the code

The 33 paged lists of `transaction-action.service.ts`, `admin-payment.service.ts`,
`admin-user.service.ts`, `admin-market.service.ts`, `admin-support.service.ts`,
the market, stock and workspace lists and the prompts. Each list has one
operator for its rows, in order, and one for its total, after the conditions,
joins and order of its query; where total and rows differ in the code they
differ here. `Ranked` puts rows in the order of a query and `Newest` in that of falling
ids. `CurrentPage` is `PageRequest` (offset and limit), `IsLast` is
`PagenationRes`. `ReadTotal` and `ReadRows` are the two queries in the order in
which the function has them, `ShowPage` the client, who asks for the next page
until `isLast`. `Sell`, `Trade`, `Money` and `Desk` add or change rows
meanwhile, each a single committed step, `Tick` lets time pass. `Begin` chooses a
walk and its query; for each walk only what its list reads is changed, and what
happens after its last page is of no interest and cut off. A walk notes what
happens to its list: `kept` are the rows that stay, `came` and `left` whether some
came, went or changed places, `tied` whether rows had the same place in the order.

Tables (`Tables`, one record set for each table) keep what lists select, order and
count by; the first tables are given by the instance (`StartAssumption`). Conditions of the form
`where: { user }` are taken as the id of the user. Searches by names, and the
lines shown under a day of sales or matches, are left out; `salesList` of the
administration's market is called by nobody. Lists with a known fault are
excluded from `UndisturbedWalkIsExact` by name (`NumberedByOffset`, the cart, the
performance list); those that count first from `StayingIsSeen`; and a walk in which
two rows had the same place in the order from both, as the database may then
order each page differently.

### How `Profits` corresponds to the code

`TotalMarketProfit`, `TotalStockProfit`, the daily and monthly charts and the
overview (`transaction-action.service.ts:40-330`, the profit queries of
`stock-action.service.ts` and `market-action.service.ts`) are operators over
`sales` and `payouts`. `Sell` is a sale without shares, `BeginSharedSale` and
`PayOut` one with shares, whose payouts may get a later day; `AskLastMarket`,
`AskLastStock`, `AskMarket` and `AskStock` are the four queries of the overview,
between which sales happen. Days are numbers and months have the lengths of the
constant `Months`; `Zones` says whether the time of the process is ahead of UTC,
which moves the midnights that become keys of a chart. Process and database are
on the same date. `Number('true')`, by which a chart that is asked for by months
is one by days, is kept.

### How `Workspace` corresponds to the code

`keywords` is the list of the user, `tags` those of the videos. `StartEdit`,
`SaveKeywords`, then `FindDeleted` and `FindRenamed` with a `WriteRow` for each
video are `ApiWorkspaceController` with `deleteKeyword` and `updateKeyword`
(`video-action.service.ts:60-140`); `StartMove`, `FindMoved`, `WriteRow` tag
videos with a keyword; `Die` ends a request anywhere. Rows are read, changed in
the process and written one by one. `asked` is the abstract workspace, in which
each request is one step at its start; `blurred` collects what may keep a
request from being one: another request at the same time (`overlap`), a name that one
request gives and takes (`chain`), a loop that the code leaves early (`cut`), a
`crash`. A tab of the user (`Tabs`) makes one request after the other. The list is
sent by the page, which has one box for each keyword, to delete or rename it; what
follows for the edits is `EditsAssumption`. `Verified` says that the page sends each
keyword once. Special characters in the REGEXP and column lengths are left out.

### How `Desk` corresponds to the code

`Ask`, `GetReceivedEmailList`, `MailAdmin`, `Asked` are `createCustomerSupport`
and `createBussinessSupport` with their mails; `StartAnswer`, `SaveAnswer`,
`MailCustomer` the answer; `StartStatus`, `SaveStatus` the change of a status;
`Fail` a mail that throws or the death of the process. `save` compares with the
current row and writes the columns that differ: the whole row that was read.
Two routes of the controller have one path, so that the first handler answers
for both kinds of questions (`StartStatus`). The FAQ is written by single
statements and is in `Histories`.


## 3. Runs

One run for each component, and one for a claim of the code that does not hold.

| Run | Expected | What it shows |
|---|---|---|
| `engine` | passes, 1,335,057 states | the engine keeps its books, over all seven message types, crashes and cleanups |
| `usage_is_spent` | violated | the buyer of an incoming BUY pays nothing, though consumed points are recorded for it |
| `queue` | passes, 203,991 states | delivery, order and answers of commands with a fault at any point, and the liveness of daemon and requests |
| `points` | passes, 101,676 states | the account agrees with its history although connections keep work and locks; handlers return |
| `market` | passes, 463,356 states | sales, payouts, counters and cart under two requests, trades, hiding and a crash |
| `exchange` | passes, 588,218 states | what pages show and what may be offered, from request to event |
| `listing` | passes, 825,834 states | the flags and rows of a listing under four requests, the daemon and a death |
| `video_jobs` | passes, 773,328 states | rows, files and answers of video jobs with a death or a failed call at any step, and that requests end |
| `histories` | passes, 858,517 states | each of the 33 lists, walked while its rows come, change and go |
| `profits` | passes, 88,859 states | totals, charts and overview of sales over three months |
| `workspace` | passes, 969,960 states | two overlapping edits of keywords and tags with a crash |
| `desk` | passes, 92,199 states | questions, answers and their mails with a failure |

`CHECK_DEADLOCK FALSE` in all of them, because the requests, messages and
updates of an instance are bounded and everything stops when they are used up.
For every property a plausible bug in a definition of the model (the operators
marked `Fault`, or standing before the definition they are a variant of) is known
to break it in the same run; `mutants` in `PROJECT.json` has the pairs.

### The engine

* `BookFollowsLive`: the book equals the live volume for every side and price,
  through opens, partial fills, modifications and cancellations. It is stated up
  to the deletion of the item, which leaves the book, and but for a row that the
  hourly cleanup deletes between a handler's snapshot and its update (`swept`).
* `SharesConserved`: shares are moved, never created, also in a trade of a user
  with itself and when a later transfer of the same message fails.
* `LedgerBalanced`: the audit of the points. Two places create points and one kind
  of place loses them, a refund that was not made in a transaction that commits;
  the history variables `unpaid`, `unfunded` and `unrefunded` count exactly what,
  and every other step is balanced.
* `WealthKeptWithoutMatch`: opening, modifying and cancelling orders changes the
  sum of account and prepaid orders for nobody but the sender of the message, and
  for it by what was not charged less what was not given back, to the point.
* `CrossedOnlyIfRepriced`: the market is crossed at a price only by a
  modification.
* `PriceTimePriority`, `OrderRecordsAgree`, `ClosedStaysClosed`: the life of the
  orders. The second says of each order that what it was opened with is what was
  filled, cancelled and is left, and that a cancellation is recorded once.
* `TypeOK`: no account and no share account is overdrawn in any state.

*Bounds.* Two users (one the owner), prices and volumes {1, 2}, 3 shares, 3
points each, a fee of 1/2, three messages after the item is listed, any number
of crashes and cleanups. Two users give every combination of buyer and seller,
trades with oneself included; two prices a modification that moves an order to a
level with resting orders; two volumes exact, partial and multiple fills. Three
messages reach one request that fills two orders, a failed transfer after a
successful one (3 shares), a refused charge (3 points), a refund that is not made of
any order, or of some of the orders of a closed item, a repriced order that
crosses the market, a closed item with orders of both users, and a duplicate of
a message. No liveness is stated and no fairness assumed.

### The queue

* `NothingIsLost`, `RepeatsNeedFaults`: delivery is at least once, and how often
  is bounded by the faults.
* `ImplementsLog`: the queue is a `CommandLog`, with `ran` the set of executed
  commands. First executions keep the order of the queue, through redelivery.
* `AnswersFollowExecution`, `AnswersLeaveToTheirRequest`: the requests share one
  queue of answers, and none takes the answer of another.
* `EveryCommandIsExecuted`: a command in the queue is executed unless the loop
  has ended by an exception, which nothing repairs but a restart.
* `EveryAnswerIsTaken`: while nothing fails, a request that was sent after the
  flush is answered, although the others may receive its answer first and hide
  it for a visibility timeout. With a fault it need not be: an answer for nobody
  may stay at the front for good.

*Faults and fairness.* A fault is a crash, a failed call of SQS or of the user
query, or a deletion that comes later than the visibility timeout; `MaxFaults`
bounds them. Weak fairness is assumed of the loops (each awaits one call and goes
on), of the timers and of the visibility timeout of abandoned messages; strong
fairness of `ReceiveOwn`, because every waiting request polls again at once and
SQS does not always prefer the others. Sending and faults need not happen.

*Bounds.* Two commands of the app and one of the administration give a batch of
two with one behind it, and two requests of one process that compete with one of
the other; a flush of one; one fault of any kind at any point. The safety
properties are proved for any number of commands and faults.

### Points

* `LedgerBalanced`: in the committed tables the balance is what the history says,
  and each history row has its cause, whatever is open on a connection or lost.
* `OverdrawnOnlyUnchecked`: points sink below zero only by an outflow, which is
  not checked, or by a prompt whose balance sank after the check.
* `SettledAsAsked`: an outflow is not paid out or refunded more often than it was
  asked for, counting what is still open; a status has its effect.
* `HandlersReturn`: whoever waits for a row that another connection keeps locked
  returns, although nothing may ever unlock it.

*Fairness.* The event loop goes on with a handler and the database ends a wait
for a lock, by success or by its timeout; nobody is assumed to use a connection
again. *Bounds.* One outflow, one payment, two prompts, two connections per pool,
a balance of 1, two settlements, two payment calls, one death. Two connections
per pool give work that is left on one while the other is used; two settlements
a second decision on top of an uncommitted first; a balance of 1 two
prompts that both passed the check for it.

### Market

* `ProfitsAreWhole`: a shared sale pays out all that remains after the fee,
  whatever was traded, hidden or updated under way.
* `HistoryExplainsBalance`: the account history explains every balance up to
  what a buyer of shared sales was recorded for and never charged.
* `CountersAreSales`: the running total and the counter of an item add its sales
  up, but for an item of which an update wrote a stale row.
* `CartLeavesWithSale`: a cart row goes only with a sale or by its user.

*Bounds.* An owner and two users, two items, two open requests, prices 10 and 20,
two shares, two trades, one change of visibility. Two shares give the owner
alone, owner and holder, two holders, and a holder whose volume went back to
zero; two items a batch that fails between its purchases. The two users and
the requests are symmetric.

### Exchange

* `PageShowsBook`: a connected page shows the book, but for rows that a handler
  has yet to read or an event to bring, and those that were overtaken: an older
  value was on its way when the row changed, or no handler reads it.
* `OffersAreCovered`: the shares on offer stay within
  `STOCK_ORDER_MAX_VOLUME` and the owner's offers within its shares, unless a SELL
  was handled after a message that its checks did not see.
* `EveryTradeIsListed`: a MATCH event has one entry for each buyer and each
  seller, of exactly the volumes of its trades.

*Bounds.* Two users, two requests of five kinds after the owner's first order, five shares of which the owner keeps three, volumes 1 and 2, one lost or
repeated event. Two requests are what a stale check and overtaking events
take; 5 = 3 + 2 is the proportion of the constants (51 and 49) that lets the limits
bite. The handlers are symmetric.

### Listing

* `ItemIsComplete`: what `init` stores is stored in an order in which each row
  finds what it refers to, and is all there when no `init` is at work, unless a
  handler ended half-way.
* `ClosedIsClosed`: an item that is hidden has no live order when no one is at
  work on it, and one that its owner deleted belonged to the owner alone, also
  with a trade ahead of it in the queue. Left out are items to which a save
  wrote an older value back, those that an order overtook, and those of which the
  daemon was not told that they are hidden (`resaved`, `missed`, `unsent`): that such
  an item keeps its orders is a finding (section 5), not something the property rules out.
* `MatchesAreCounted`: a match is lost from the counter only to such a save.

*Bounds.* Two videos, two requests open at a time of four in all, two items of each
kind, one handler that ends half-way, any number of failed sends. Two videos let an
id of one kind be that of another; two stock items on one video come from deleting
and opening again.

### Video jobs

* `RowsHaveFiles`: a row that names a video follows a completed prompt, both its
  files are stored, and they are its own unless two were named in one millisecond.
* `CompleteIsStored`: the process that took a request says complete only of a
  stored video, whatever died.
* `RequestsEnd`: as long as one process receives, what was sent is made and stops
  loading, also when a message is left undeleted by a loop that ended, or was given
  up: its work ended with a process after the message was deleted, or the loop over
  the answers of a running process has ended.

*Fairness.* Calls that returned and loops go on; an answer can be sent. Nothing
says that a call fails, that a user asks, or that a process starts again, so that a
request may stay in the queue for good when every receiving loop has ended.
*Bounds.* One process with two prompts or two with one, one death or failed call,
two milliseconds to name files after. Two prompts in one process show what the
death of one job does to the other, two processes an answer that comes to the
wrong one.

### Lists

* `UndisturbedWalkIsExact`: a client who pages to the end has seen the list, in its
  order and nothing else, and was told its length, when nothing came or went.
* `StayingIsSeen`: what is in the list from the first page to the last is seen
  also when rows are added meanwhile.

*Bounds.* Pages of one and of two rows over tables with two or three rows for a
list, one row added, one changed, days of two moments, two of which are
asked for, and the day after. This gives walks of one page, of full pages only, and with a
last page that is not full, and a change between any two queries.

### Profits

* `ProfitCountedOnce`: what all are told to have earned until a day is never more
  than was sold until then, and at last all of it: a shared sale is counted by
  its payouts and not also by itself.
* `ChartsAgree`: daily charts add up to the totals, monthly ones too for whole
  months, except the last, and the two parts of a month's profit make a hundred, or
  one more by rounding, although four queries saw different sales.

*Bounds.* Months of one, two and one days, behaviours from the second day, two
sales of 1 or 199, both zones. A month of two days has an edge and an inside, and
a day that the next month has not; 1 and 199 round in both directions.

### Workspace

* `DoneAsAsked`: when requests do not overlap and are carried through, list and
  tags are what they would be had each request been one step.
* `TagsWereListed`: whatever overlaps or dies, a video has only tags that were once on
  the list, since the list is saved first.

*Bounds.* Three keywords, two videos, two requests, ten edits that delete, rename
(also to a name that exists) and add, one crash. Tabs and videos are symmetric.

### Desk

* `MailIsTrue`: who was told of success has reached every administrator; an answer
  that was mailed was stored, and the question shows an answer ever after unless
  two requests worked on it at once.

*Bounds.* Three requests, two at a time, two administrators, two texts, with or
without a question of each kind at the start, one failure of a mail or process. Requests and administrators are symmetric.

Symmetry is used in `market`, `exchange`, `listing`, `workspace` and `desk`, which
state no liveness.

## 4. Proofs

The theorems about the engine hold for every finite set of users, all positive prices and
volumes, every fee below 1 and any number of messages. They rest on the named
assumptions of `StockMatch`: the owner is a user and users are finitely many,
amounts and volumes are positive, the fee is a fraction below 1. No other
assumption is made.

* `TypeCorrect` (`Spec => []TypeOK`). `TypeOK` alone is not inductive: `TypeInv`
  adds `PhaseInv`, that inside a matching or modifying handler the price is one
  of `Amounts` and what is left of the request is no more than was asked, and
  that the order of a MODIFY or CANCEL exists. The subtractions stay natural
  because `Filled` takes the minimum of two volumes, `CanTransfer` and
  `CanWithdraw` guard their updates, and a fee is less than the price.
* `SharesAreConserved`. Inductive given `TypeInv`: only `Settle` changes the
  working shares, by a credit and a debit of one volume (`TransferKeepsTotal`,
  also when buyer and seller are one), and commits and rollbacks copy totals.
* `LedgerIsBalanced`. Strengthened to `LedgerInv`, the same equation for the
  working tables: a rollback replaces them by the committed ones, a commit the
  other way round. One lemma for each of `Fill`, `OpenRemainder`, `Modify`,
  `Cancel` and the two closings says how account, `Escrow`, fees and the three
  counters move, with what a deposit gave back named (`ModifyStep`, `CancelStep`,
  `CloseOrdersStep`); `EscrowUpdate`, `EscrowAppend` and `EscrowClosed` reduce the
  change of one order to the change of one row of a total (`SumChange`).
* `OrdersAreAccounted`, `CancellationsAreRecordedOnce`, which together are
  `OrderRecordsAlwaysAgree`, and `ClosedOrdersStayClosed`. `RowSound` is what holds of a single row and
  `RowKept` how a row may change; each operation has a lemma for one row. The
  invariant `OrdersInv` says both of the working and of the committed table and
  that the working table is a successor of the committed one, which gives the
  action property at a commit.
* `OrdersCrossOnlyByModify` (`CrossedOnlyIfRepriced`). `TxnInv` says what an open
  transaction has left alone: a message without a match works on the committed
  rows. `CrossInv` says of both tables that two live orders cross only if one
  was repriced, and that what is left of a request when its matches are settled
  finds no resting order. Without this last part a remainder could open against
  the other side.
* `OlderOrdersFirst` (`PriceTimePriority`). The property compares two commits, a
  step of the handler fills one order. `TurnInv` relates the working orders to
  the committed ones: every order that was filled since the last commit has all
  older ones of its side and price completed, and nothing but fills has happened.
* `WealthIsKept` (`WealthKeptWithoutMatch`). From `TxnInv`: a commit that raises no
  counter of matches had no fill, so only opening, modifying and cancelling are
  left, each with a lemma on one user's account and prepaid orders, and on what
  the step adds to `unfunded` and `unrefunded` (`Slip`).
* `BookAlwaysFollowsLive`. The book is written at the end of a transaction and
  the orders before it, so `BookInv` has three parts: the book shows the
  committed orders; the working orders offer less by what has been matched at
  the request's price; and the snapshot has the rows of the book, which makes
  update or insert the right choice. All of it is up to the cleanup between
  snapshot and update (`swept`), the case in which the code goes wrong.

The theorems about the queue (`MatchQueueProofs`) hold for any set of commands,
any batch and flush sizes and any number of faults; `QueueAssumption` is all they
assume.

* `QueueTypeCorrect` from `TypeInv`, which adds `BatchOK` (the batch begins after
  the deleted messages, and what is in flight ends where it ends) and
  `ReceiptOK` (a valid receipt is the only one and is for the message at the
  front; otherwise a deletion could remove another message).
* `NothingIsEverLost`, `RepeatsAreFaults`, `QueueImplementsLog` from `ExecInv`.
  `LogOK` says that the executed commands are a prefix of the log which contains
  the deleted messages and the handled part of the batch; so the next command is
  the first that was not executed or was executed before. `RepeatsOK` bounds the
  executions of a command still in the queue by the faults, with one more for
  those handled in this batch, and one less when the receipts of the batch have
  timed out already.
* `AnswersAreTrue` and `AnswersAreLeft` from the same invariants, by what each
  step does to the out queue (`OutqSteps`) and to the waiting requests.

The theorems about points (`PointLedgerProofs`) hold for any connections, outflows,
payments, prompts and amounts (`LedgerAssumption`: the ids are different and finitely
many, amounts are positive, the opening balance is not negative).

* `LedgerTypeCorrect`. The types include that a closed connection is clean and one
  that a handler uses has begun a transaction without work.
* `LocksStayApart` from `OwnInv`: no row is locked by two connections, a prompt is
  worked on by one connection, an outflow by none of the app's, and a prompt
  that is about to be charged has seen the balance for it.
* `AccountAgreesWithHistory`, `OverdraftsAreUnchecked`, `SettlementsAsAsked` from
  `SoundInv`. What is uncommitted on a connection reaches the tables at any later
  time, by another handler's START TRANSACTION. `Sound(d, S, u)` is therefore said of
  tables `d` and the connections `S` that are yet to commit on top of them: the
  balance agrees, the settlements in `d` and on `S` are no more than were asked,
  each prompt on `S` has its points left unless the account was lowered unchecked. A crash commits nothing and leaves
  the smaller `S`; a commit moves one connection from `S` to `d`. That commits do
  not meet on a row is `OwnInv`.

The theorems about the market (`MarketProofs`) hold for every finite set of users, any
items, requests, bounds and number of shares, and for all prices of which the fee and
each share are whole (`MarketAssumption`).

* `MarketTypeCorrect` with `SharesWhole` (an item has no share rows, or rows of
  different users that add up to all shares) and `CallsOK` (what a request has come
  to): together `Base`. A trade takes from one row what it adds to another or to a new one.
* `SharedProfitsAreWhole`: the parts of the holders add up to what remains of the
  price. The sum over users of the volumes of each is regrouped into the sum over
  rows (`SumGrouped`), and a common factor taken out (`SumScaled`).
* `HistoryAlwaysExplains`: each sale keeps the difference of history and balance
  equal to what was recorded and not charged; this needs `PaidOK`, that
  no sale charged more than its price.
* `CountersAlwaysAgree`: the cumulative amount of a sale is the sum of the prices
  up to it, and an item that no save overwrote counts its sales.
* `CartRowsLeaveWithSales` from `CallsOK`: a batch that takes rows out of the cart has
  a sale of its user for the item.

The theorems about listing (`ListingProofs`) hold for any videos, requests and bounds.
`ListingInv` is `TypeOK` with `InitInv` (an `init` finds the rows before its own and works
alone on its item) and `RowInv` (what holds of one item: its rows are there in their
order, it is closed and counted). `ClosedIsClosed` is kept because a step that hides an
item with orders in the book leaves a request about to send, a message in the queue or a
note in `unsent`, and only the daemon takes the message away.

* `ListingTypeCorrect`, `ItemsAreComplete`, `ClosedItemsAreClosed`, `MatchesAlwaysCounted`.
  Most steps change one row or one request; lemmas say what such a change leaves in order.

The theorems about video jobs (`VideoJobsProofs`) hold for any processes, deployments,
requests, deaths, failed calls and length of time (`JobsAssumption`). `VideoInv` says
how far each step of a job has come (`JobOK`), what a video row has (`RowOK`), that
only finished work is answered, and that a request is in `daemonMap` until a piece of
its work is done (`AnswerInv`).

* `VideoTypeCorrect`, `StoredBeforeNamed` (`RowsHaveFiles`), `CompletedIsStored`
  (`CompleteIsStored`). Files of one millisecond overwrite each other, so that
  "stored" is not kept by itself: `Grows` says what every step leaves behind, and
  `InStoreKept` that a file under a name is replaced only by one of the same name.

The theorems about the exchange (`NoticeProofs`) hold for finitely many users and
prices, any handlers, and all shares of which more are kept than sold, in the sum that
the constants 51 and 49 have (`ShareAssumption`).

* `ExchangeTypeCorrect` with `ExchangeTyped`: tables, handlers, the daemon's queue, events
  and counts. What an event carries is typed as what JavaScript makes of texts.
* `OffersStayCovered` from `OffersInv`. The book shows the live orders (`BookFollows`), so
  that the check of a handler, which reads the book, speaks of orders; a request that
  no other message was handled before still passes its check when it is handled
  (`FreshChecked`); and each request then offers no more than its check allowed.
  `AnswerOffers` says what any message does to what is on sale.
* `EveryTradeIsTold` (`EveryTradeIsListed`). The list of a MATCH event is made match by
  match. `Tallied` says what it has after the first k of them: for each user
  and side one entry at most, whose parts are the volumes of the user's matches so far.
* `PagesShowTheBook` (`PageShowsBook`) from `PageInv`, which follows one row of the book:
  the page has its volume, or an event brings it, or a handler has read it or has it
  yet to read (`Comes`); and every copy of a row that was not overtaken is current.

`DeskTypeCorrect`, `DeskTellsTheTruth` (also `NoticeProofs`, any requests, administrators
and texts): `DeskInv` adds what a request at work knows. The administrators it has no
longer to write to have their mail; the answer it is about to mail was stored and still
shows; the row it is about to write back is the current one, or the question is
marked as mixed; and two requests on one question have marked it (`Apart`), without
which the second save could remove the first one's answer unseen.

The theorems about profits (in `PointLedgerProofs`) hold for any months, of which there
are at least two, in either zone, and for any finite set of users.

* `ProfitsAreCountedOnce` from `ProfitInv`, whose part `PaidInFull` is that the payouts
  until any day are no more than the shared sales until then, and all of them today.
  The sums over users are regrouped into sums over rows.
* `ChartsAlwaysAgree`: a chart's bars divide the rows of its days (`BarFits`), so its sum
  is the total; the parts of an overview come from two numbers that are not both zero
  (`ReportOK`), and rounding each up at a half makes 100 or 101 (`PartsMakeHundred`).
* `ProfitTypeCorrect` adds that one sale at most is open, that no payout is empty,
  and that no growth is below minus a hundred (`GrowthIs`).

The theorems about the workspace (in `MarketProofs`) hold for finitely many keywords,
any videos and tabs, and any edits that the page can send (`EditsAssumption`). The
invariant `WorkspaceInv` has a part for each, and a step is done by what it does to
one request.

* `WorkspaceTypeCorrect` with `WorkspaceTyped`: rows are held only while they are written.
* `TagsAreOfTheList` (`TagsWereListed`) from `TagsInv`: what a request may still write was
  on the list, or is on the list it is about to save.
* `EditsAreDoneAsAsked` (`DoneAsAsked`) from `AskedInv`: while nothing blurs a request, the
  abstract workspace is the concrete one with what the request has left to do (`Due`):
  its rows written, then what is still to be deleted, then the pairs still to be
  renamed. Pairs in a chain would make the order of the pairs matter.

The theorems about lists (in `MatchQueueProofs`) hold for all tables with those columns,
pages of any positive size, any window of days and number of changes (`PageAssumption`,
`StartAssumption`).

* `HistoriesTypeCorrect`, which needs that each change of the site leaves tables. One
  lemma for each change (`PurchaseKeeps` and so on) says this, and which rows
  keep what their list is ordered by.
* `UndisturbedWalksAreExact` from `ExactWalk`: what was seen are the pages so far of the
  one order that the rows have. That order exists and is one by `OneOrder`, unless
  rows tie, for each list from its operator (`OrdersList`); the pages end where the list
  does by the arithmetic of `TotalPage` and `IsLast` (`LastPage`).
* `WhatStaysIsSeen` (`StayingIsSeen`) from `StayingWalk`. The place of a row is the number
  of rows ahead of it (`PlaceIsCount`). While none leaves, that number only grows
  (`AheadGrows`), so that a row that was not seen is on the next page or a later one, and
  the total that is read after the rows counts it.

No theorem assumes more of its constants than the named assumptions of its module.
Some properties are sums over sets of users or rows, or speak of sorted and filtered
tables. None of it needs a recursive operator in the models: a sum counts units (`Sums`)
or is a fold that is proved to give the same (`FoldIsSum`), and an order puts a row where
as many are ahead of it as its place says (`Ranked`). Facts about all finite sets are
proved with `SmallestSubset` of `TableLemmas`, a smallest counterexample, and those about
a list that grows step by step with the first place at which they fail, since an
induction theorem with an operator as parameter cannot be used.

*Only model-checked.* Liveness under fairness and `ENABLED` are out of the prover's
reach: `EveryCommandIsExecuted` and `EveryAnswerIsTaken` of the queue, `HandlersReturn`
of the points, `RequestsEnd` of the video jobs. Every invariant, action property and
refinement that a passing run checks is a theorem. What a theorem says is bounded by its
model all the same: section 6 lists what is left out.

## 5. Findings

One disagreement between the code and what the repository says of it is kept as
a run, `usage_is_spent`: consumed points are recorded for the buyer of a match
although the withdrawal is commented out (`stock-action.service.ts:236`). The
models keep what the code does everywhere, so the other properties are stated
around the places where it departs from its comments. These were found with the
same models, by stating the comment as a property:

| Where | What the code does |
|---|---|
| `stock-match.service.ts:723` | a MODIFY_BUY that cannot be paid is committed unpaid |
| `stock-match.service.ts:593`, `:715`, `:888`, `:1008` | a cancellation, modification, deletion or hiding is committed although its refund was not made |
| `stock-match.service.ts:888` | deleting or hiding an item refunds all buyers' orders to the sender of the message |
| `stock-match.service.ts:898` | deleting or hiding relabels completed orders |
| `stock-match.service.ts:534` | a rolled-back transaction announces its matches |
| `stock-action.service.ts:379` | the cleanup between a snapshot and an update loses volume of the book |
| `matching-daemon.service.ts:60`, `:64` | the flush deletes the answer of a request that waits for it, and stops before answers for nobody |
| `sqs-consumer.service.ts:178` | one exception ends the matching loop until a restart |
| `sqs-consumer.service.ts:124` | one failed call ends a loop of the app until a restart; with the last such loop prompts that were paid for stay in the queue |
| `admin-payment.service.ts:617` | a confirmed outflow is cancelled on top of an uncommitted confirmation |
| `admin-payment.service.ts:707` | a settlement that was reported by mail is rolled back with the process |
| `payment.service.ts:64` | a payment becomes PAID although the locked account was not credited |
| `api-market.controller.ts:412` | the owner deletes a hidden item although others hold its shares |
| `api-market.controller.ts:188` | a batch purchase of a hidden item pays the owner alone |
| `market-action.service.ts:131` | the buyer of a shared item pays the part of one holder |
| `market-action.service.ts:349` | two requests to unlike count down twice |
| `market-item.service.ts:147` | an update writes old counters back |
| `api-stock.controller.ts:663` | volumes are appended and compared as texts, so that a user may offer more than it has |
| `api-stock.controller.ts:644` | the owner's majority is checked without its live orders |
| `stock-action.service.ts:677` | the volumes of a MATCH event are appended as texts |
| `api-stock.controller.ts:225` | two `init` requests make two stock items of one market item |
| `admin-market.service.ts:117` | a stock item is looked up by its video, and a deleted one is hidden in place of the live one |
| `api-admin-market.controller.ts:132` | an item that `init` stores between two reads of the administration is hidden and keeps its live orders; so does one whose message is not sent |
| `admin-market.service.ts:211` | showing again an item without shares reports success and does nothing |
| `api-admin-market.controller.ts:233` | the stock item is removed by the id of the market item |
| `stock-item.service.ts:143` | counting a view writes an older number of matches back |
| `api-prompt.controller.ts:107` | after a death of the process a request without a video is complete |
| `app-daemon.service.ts:111` | an answer to a request of another process ends the loop over the answers |
| `video-action.service.ts:284` | two videos of one millisecond overwrite each other's files |
| `transaction-action.service.ts:928` | the volume that a user put up for sale includes its buy orders |
| `transaction-action.service.ts:72` | at the end of a month the month before it is the same month |
| `transaction-action.service.ts:286` | the last bar of a chart by months has none of its month's sales |
| `api-workspace.controller.ts:362` | the stock item of a video is looked up by the video's id, so that a traded video is discarded |
| `video-action.service.ts:127` | deleting keywords stops at the first that no video has |
| `video-action.service.ts:77` | renaming a to b and b to c gives c for a |
| `api-workspace.controller.ts:143` | the old list is checked for repetitions, not the new one |
| `api-admin-support.controller.ts:260` | the status of a business question never changes |
| `admin-support.service.ts:133` | changing a status writes an older answer back |

## 6. Plan

Next would be an abstract share register and point ledger, implemented by `StockMatch`
through a refinement mapping, as `CommandLog` is by `MatchQueue`: a commit is one step
that moves shares and points between users. `SharesAreConserved`, `LedgerIsBalanced`
and `WealthIsKept` are the parts of it that are proved.

Not modelled, and why:

* Sign-in, tokens, sessions and the accounts of administrators. Every module
  starts at a request that the guard has let in; tokens belong to libraries.
* Plain sums and counts of the administration (`getUsageHistorySummary`, whose
  condition on names refers to an alias that is not joined, `getChargeSummary`,
  `getOutflowSummary`, `getTopPurchaseMarketItemList`) and pages of one row:
  they are a single query, and have no state or order to get wrong.
* The item prices of the daily batch, titles, bank data, notes: updates of one
  column by one writer. That the price batch leaves a transaction open is in
  `PointLedger`.
* Canceled orders above 1000, whose rows are inserted in batches: beyond the size
  of an instance; `StockMatch` has the insert in one.
* Templates and the search for footage: read-only calls to outside services.
* S3, SES, ffmpeg, PortOne, Pexels and the websockets themselves: external, with
  the outcomes that the code distinguishes.
* Rounding of `DECIMAL` and JavaScript numbers, column lengths, and layout.
