--------------------------- MODULE ListingProofs ---------------------------
(***************************************************************************)
(* Theorems about Listing, for any videos and requests at a time and any   *)
(* number of requests and of handlers that end half-way: what init stores  *)
(* of an item is complete, what is closed is closed, and matches are       *)
(* counted.                                                                *)
(***************************************************************************)
EXTENDS Listing, TableLemmas, SequenceTheorems, TLAPS

----------------------------------------------------------------------------
(* Requests                                                                 *)

\* The requests of each kind.
Owns == [op : {"create", "discard"}, item : Videos, phase : {"upload", "update"}]
Inits == [op : {"init"}, item : Nat, phase : {"upload", "account", "order", "row"}]
Trading == [op : {"order", "delete"}, item : Nat, phase : {"send", "wait", "lost"}]
Saves == [op : {"detail", "update"}, item : Nat, phase : {"save"}, copy : Copies]
Statuses == [op : {"status"}, item : Nat, want : BOOLEAN, known : BOOLEAN,
             phase : {"find", "rollback", "change", "send", "wait", "lost", "mail"}]
Removals == [op : {"remove"}, item : Nat, want : BOOLEAN, phase : {"market", "stock"}]

\* A request is of the kind its operation says.
LEMMA Kinds ==
    ASSUME NEW r \in Requests
    PROVE  /\ r \in Owns \cup Inits \cup Trading \cup Saves \cup Statuses \cup Removals \cup {Idle}
           /\ r.op \in {"create", "discard"} => r \in Owns
           /\ r.op = "init" => r \in Inits
           /\ r.op \in {"order", "delete"} => r \in Trading
           /\ r.op \in {"detail", "update"} => r \in Saves
           /\ r.op = "status" => r \in Statuses
           /\ r.op = "remove" => r \in Removals
  BY DEF Requests, Idle, Owns, Inits, Trading, Saves, Statuses, Removals

\* What is of a kind is a request.
LEMMA KindsAreRequests ==
    Owns \cup Inits \cup Trading \cup Saves \cup Statuses \cup Removals \cup {Idle} \subseteq Requests
  BY DEF Requests, Idle, Owns, Inits, Trading, Saves, Statuses, Removals

\* A request that is idle works on nothing.
LEMMA IdleIsQuiet == ~OnStock(Idle) /\ ~OnMarket(Idle) /\ Idle \in Requests /\ Idle.op = "idle"
  BY DEF OnStock, OnMarket, Idle, Requests

----------------------------------------------------------------------------
(* Types                                                                    *)

MarketType == [video : Videos, show : BOOLEAN, deleted : BOOLEAN]

\* The parts of the type invariant.
TablesTyped ==
    /\ market \in Seq(MarketType) /\ stock \in Seq(StockType)
    /\ \A s \in Stocks : stock[s].market \in Markets
    /\ trades \in Seq(Nat) /\ DOMAIN trades = Stocks
    /\ resaved \cup missed \cup unsent \subseteq Stocks /\ discarded \subseteq Videos
    /\ crashes \in Nat /\ made \in Nat
JobsTyped ==
    /\ job \in [Jobs -> Requests]
    /\ \A j \in Jobs : /\ OnStock(job[j]) => job[j].item \in Stocks
                       /\ OnMarket(job[j]) => job[j].item \in Markets
QueueTyped == queue \in Seq(Messages) /\ \A n \in DOMAIN queue : queue[n].stock \in Stocks

\* They make up the type invariant.
LEMMA TypeParts == TypeOK <=> TablesTyped /\ JobsTyped /\ QueueTyped
  BY DEF TypeOK, TablesTyped, JobsTyped, QueueTyped, MarketType

\* The rows are numbered, and have their types.
LEMMA RowsTyped ==
    ASSUME TypeOK
    PROVE  /\ Stocks \subseteq Nat /\ Markets \subseteq Nat
           /\ \A s \in Stocks : stock[s] \in StockType
           /\ \A m \in Markets : market[m] \in MarketType
           /\ \A s \in Stocks : trades[s] \in Nat
           /\ \A n \in DOMAIN queue : queue[n] \in Messages
           /\ \A j \in Jobs : job[j] \in Requests
  <1>1. \A T : \A q \in Seq(T) : DOMAIN q \subseteq Nat /\ \A i \in DOMAIN q : q[i] \in T
    BY LenProperties, ElementOfSeq
  <1>2. Stocks \subseteq Nat /\ \A s \in Stocks : stock[s] \in StockType
    BY <1>1 DEF TypeOK, Stocks
  <1>3. Markets \subseteq Nat /\ \A m \in Markets : market[m] \in MarketType
    BY <1>1 DEF TypeOK, Markets, MarketType
  <1>4. \A s \in Stocks : trades[s] \in Nat
    BY <1>1 DEF TypeOK
  <1>5. \A n \in DOMAIN queue : queue[n] \in Messages
    BY <1>1 DEF TypeOK
  <1>6. \A j \in Jobs : job[j] \in Requests
    BY DEF TypeOK
  <1> QED
    BY <1>2, <1>3, <1>4, <1>5, <1>6

\* One request goes on, to what there is, and no table loses a row.
LEMMA JobMoves ==
    ASSUME TypeOK, NEW j \in Jobs, NEW r \in Requests, job' = [job EXCEPT ![j] = r],
           Stocks \subseteq Stocks', Markets \subseteq Markets',
           OnStock(r) => r.item \in Stocks', OnMarket(r) => r.item \in Markets'
    PROVE  /\ JobsTyped' /\ job'[j] = r
           /\ \A k \in Jobs \ {j} : job'[k] = job[k]
  BY DEF TypeOK, JobsTyped

\* The messages stay in order when nothing but the tables changes.
LEMMA QueueKept ==
    ASSUME TypeOK, queue' = queue, Stocks \subseteq Stocks'
    PROVE  QueueTyped'
  BY DEF TypeOK, QueueTyped

\* One row of a stock item is changed, but not the market item it belongs to.
LEMMA StockMoves ==
    ASSUME TypeOK, NEW s \in Stocks, NEW x \in StockType, x.market = stock[s].market,
           stock' = [stock EXCEPT ![s] = x]
    PROVE  /\ stock' \in Seq(StockType) /\ Stocks' = Stocks /\ stock'[s] = x
           /\ \A t \in Stocks \ {s} : stock'[t] = stock[t]
           /\ \A t \in Stocks : stock'[t].market \in Markets
  <1>1. /\ stock' \in Seq(StockType) /\ Stocks' = Stocks /\ stock'[s] = x
        /\ \A t \in Stocks \ {s} : stock'[t] = stock[t]
    BY Replaced DEF TypeOK, Stocks
  <1> QED
    BY <1>1 DEF TypeOK

\* One row of a market item is changed.
LEMMA MarketMoves ==
    ASSUME TypeOK, NEW m \in Markets, NEW x \in MarketType, market' = [market EXCEPT ![m] = x]
    PROVE  market' \in Seq(MarketType) /\ Markets' = Markets
  BY Replaced DEF TypeOK, Markets, MarketType

\* The first of the rows found is one of them.
LEMMA FirstFound ==
    ASSUME TypeOK, NEW S \in SUBSET Stocks, S # {}
    PROVE  First(S) \in S
  <1>1. S \in SUBSET Nat
    BY RowsTyped
  <1> QED
    BY <1>1, LowestId DEF First

----------------------------------------------------------------------------
(* The invariant                                                            *)

\* The request at work on the parts of an item finds those before it, works
\* alone, and the last part is still missing.
Working(j) == job[j].op = "init" /\ job[j].phase # "upload"
InitOK(j) ==
    Working(j) =>
        /\ ~stock[job[j].item].booked
        /\ job[j].phase \in {"order", "row"} => stock[job[j].item].account
        /\ job[j].phase = "row" => stock[job[j].item].ordered
        /\ \A k \in Jobs \ {j} : Working(k) => job[k].item # job[j].item

\* A stock item is complete, closed and counted; what is hidden or deleted had
\* its book row.
RowOK(s) ==
    /\ stock[s].ordered => stock[s].account
    /\ ~Creating(s) /\ crashes = 0 =>
          stock[s].account /\ stock[s].ordered /\ stock[s].booked
    /\ s \notin resaved \cup missed =>
          /\ ~stock[s].show \/ stock[s].deleted => stock[s].booked
          /\ ~stock[s].show /\ ~Hiding(s) /\ s \notin unsent /\ crashes = 0 => stock[s].live = 0
          /\ stock[s].deleted => ~stock[s].sold /\ stock[s].live = 0
    /\ s \notin resaved => stock[s].matches = trades[s]

InitInv == \A j \in Jobs : InitOK(j)
RowInv == \A s \in Stocks : RowOK(s)
ListingInv == TypeOK /\ InitInv /\ RowInv

\* An item that a step leaves alone is in order after it.
LEMMA RowKept ==
    ASSUME NEW s, RowOK(s), stock'[s] = stock[s], trades'[s] = trades[s],
           s \in resaved => s \in resaved', s \in missed => s \in missed',
           s \in unsent => s \in unsent',
           crashes' = 0 => crashes = 0 /\ (Creating(s) => Creating(s)') /\ (Hiding(s) => Hiding(s)')
    PROVE  RowOK(s)'
  BY DEF RowOK

\* Work on other items goes on: a request that does not work on the parts of an
\* item, before and after its step, keeps those that do in order.
LEMMA InitKept ==
    ASSUME TypeOK, InitInv, NEW j \in Jobs, job' = [job EXCEPT ![j] = job'[j]],
           ~Working(j)', Stocks \subseteq Stocks',
           \A s \in Stocks : /\ stock'[s].booked => stock[s].booked
                             /\ stock[s].account => stock'[s].account
                             /\ stock[s].ordered => stock'[s].ordered
    PROVE  InitInv'
  <1>1. \A k \in Jobs \ {j} : job'[k] = job[k]
    BY DEF TypeOK
  <1>2. ASSUME NEW k \in Jobs
        PROVE  InitOK(k)'
    <2>1. CASE k = j
      BY <2>1 DEF InitOK
    <2>2. CASE k # j /\ Working(k)
      <3>1. job'[k] = job[k] /\ job[k].item \in Stocks
        BY <1>1, <2>2 DEF TypeOK, OnStock, Working
      <3>2. InitOK(k)
        BY DEF InitInv
      <3>3. ASSUME NEW i \in Jobs \ {k}, Working(i)'
            PROVE  job'[i].item # job'[k].item
        BY <1>1, <2>2, <3>1, <3>2, <3>3 DEF InitOK, Working
      <3> QED
        BY <2>2, <3>1, <3>2, <3>3 DEF InitOK, Working
    <2>3. CASE k # j /\ ~Working(k)
      BY <1>1, <2>3 DEF InitOK, Working
    <2> QED
      BY <2>1, <2>2, <2>3
  <1> QED
    BY <1>2 DEF InitInv

\* A request goes on that neither works on the parts of an item nor is about to
\* hide one: of the others nothing changes.
Quiet(j) == ~Working(j) /\ ~(job[j].op = "status" /\ job[j].phase = "send")
LEMMA QuietKeeps ==
    ASSUME TypeOK, NEW j \in Jobs, Quiet(j), job' = [job EXCEPT ![j] = job'[j]],
           queue' = queue
    PROVE  /\ \A s : Creating(s) => Creating(s)'
           /\ \A s : Hiding(s) => Hiding(s)'
  <1>1. \A k \in Jobs \ {j} : job'[k] = job[k]
    BY DEF TypeOK
  <1>2. \A s : Creating(s) => Creating(s)'
    BY <1>1 DEF Creating, Quiet, Working
  <1>3. \A s : Hiding(s) => Hiding(s)'
    BY <1>1 DEF Hiding, Quiet
  <1> QED
    BY <1>2, <1>3

\* The parts of the type invariant make it up after a step.
LEMMA TypePartsNext == TablesTyped' /\ JobsTyped' /\ QueueTyped' => TypeOK'
  BY TypeParts, PTL

\* A quiet step that keeps the tables typed keeps the invariant, if the items it
\* does not leave alone are in order after it.
LEMMA QuietStep ==
    ASSUME ListingInv, NEW j \in Jobs, Quiet(j), NEW r \in Requests, job' = [job EXCEPT ![j] = r],
           ~(r.op = "init" /\ r.phase # "upload"),
           OnStock(r) => r.item \in Stocks, OnMarket(r) => r.item \in Markets,
           queue' = queue, crashes' = crashes, TablesTyped', Stocks' = Stocks,
           Markets \subseteq Markets', trades' = trades,
           resaved \subseteq resaved', missed \subseteq missed', unsent \subseteq unsent',
           \A s \in Stocks : /\ stock'[s].booked = stock[s].booked
                             /\ stock'[s].account = stock[s].account
                             /\ stock'[s].ordered = stock[s].ordered,
           \A s \in Stocks : stock'[s] = stock[s] \/ RowOK(s)'
    PROVE  ListingInv'
  <1>1. TypeOK /\ InitInv /\ RowInv
    BY DEF ListingInv
  <1>2. JobsTyped' /\ job'[j] = r
    BY <1>1, JobMoves
  <1>3. QueueTyped'
    BY <1>1, QueueKept
  <1>4. TypeOK'
    BY <1>2, <1>3, TypePartsNext
  <1>5. ~Working(j)' /\ job' = [job EXCEPT ![j] = job'[j]]
    BY <1>2 DEF Working
  <1>6. /\ \A s : Creating(s) => Creating(s)'
        /\ \A s : Hiding(s) => Hiding(s)'
    BY <1>1, <1>5, QuietKeeps
  <1>7. InitInv'
    BY <1>1, <1>5, InitKept
  <1>8. ASSUME NEW s \in Stocks
        PROVE  RowOK(s)'
    <2>1. CASE stock'[s] = stock[s]
      <3>1. RowOK(s)
        BY <1>1 DEF RowInv
      <3>2. trades'[s] = trades[s] /\ (Creating(s) => Creating(s)') /\ (Hiding(s) => Hiding(s)')
        BY <1>6
      <3> QED
        BY <2>1, <3>1, <3>2, RowKept
    <2> QED
      BY <2>1
  <1>9. RowInv'
    BY <1>8 DEF RowInv
  <1> QED
    BY <1>4, <1>6, <1>7, <1>9 DEF ListingInv

----------------------------------------------------------------------------
(* Requests that begin and end                                              *)

\* What a request begins with is typed.
LEMMA JobTyped ==
    /\ \A v \in Videos : /\ Job("create", v, "upload") \in Requests
                         /\ Job("discard", v, "update") \in Requests
    /\ \A n \in Nat : /\ Job("init", n, "upload") \in Requests
                      /\ Job("order", n, "send") \in Requests
                      /\ Job("delete", n, "send") \in Requests
  BY DEF Job, Requests

\* The request that begins, as if it took it from idle.
LEMMA BeginKeeps ==
    ASSUME ListingInv, NEW j \in Jobs, NEW r \in Requests, Begin(j, r),
           ~(r.op = "init" /\ r.phase # "upload"),
           OnStock(r) => r.item \in Stocks, OnMarket(r) => r.item \in Markets,
           UNCHANGED <<discarded, market, stock, queue, trades, resaved, missed, unsent, crashes>>
    PROVE  ListingInv'
  <1>1. TypeOK
    BY DEF ListingInv
  <1>2. Quiet(j)
    BY IdleIsQuiet DEF Begin, Quiet, Working
  <1>3. job' = [job EXCEPT ![j] = r] /\ made' \in Nat
    BY <1>1 DEF Begin, TypeOK
  <1>4. TablesTyped'
    BY <1>1, <1>3 DEF TypeOK, TablesTyped, MarketType, Stocks, Markets
  <1>5. Stocks' = Stocks /\ Markets' = Markets
    BY DEF Stocks, Markets
  <1> QED
    BY <1>2, <1>3, <1>4, <1>5, QuietStep

\* Every request begins in order.
LEMMA StartKeeps ==
    ASSUME ListingInv, NEW j \in Jobs, Start(j)
    PROVE  ListingInv'
  <1>1. Stocks \subseteq Nat /\ Markets \subseteq Nat /\ TypeOK
    BY RowsTyped DEF ListingInv
  <1>2. ASSUME NEW v \in Videos, StartCreate(j, v) \/ StartDiscard(j, v)
        PROVE  ListingInv'
    <2>1. PICK op \in {"create", "discard"}, phase \in {"upload", "update"} :
             Job(op, v, phase) \in Requests /\ Begin(j, Job(op, v, phase))
      BY <1>2, JobTyped DEF StartCreate, StartDiscard
    <2> DEFINE r == Job(op, v, phase)
    <2>2. ~OnStock(r) /\ ~OnMarket(r) /\ r.op # "init"
      BY DEF Job, OnStock, OnMarket
    <2>3. UNCHANGED <<discarded, market, stock, queue, trades, resaved, missed, unsent, crashes>>
      BY <1>2 DEF StartCreate, StartDiscard
    <2> HIDE DEF r
    <2> QED
      BY <2>1, <2>2, <2>3, BeginKeeps DEF r
  <1>3. ASSUME NEW m \in Markets, StartInit(j, m)
        PROVE  ListingInv'
    <2> DEFINE r == Job("init", m, "upload")
    <2>1. r \in Requests /\ ~OnStock(r) /\ r.item = m /\ r.phase = "upload"
      BY <1>1, JobTyped DEF Job, OnStock
    <2>2. /\ Begin(j, r)
          /\ UNCHANGED <<discarded, market, stock, queue, trades, resaved, missed, unsent, crashes>>
      BY <1>3 DEF StartInit
    <2> HIDE DEF r
    <2> QED
      BY <2>1, <2>2, BeginKeeps
  <1>4. ASSUME NEW s \in Stocks, NEW op \in {"order", "delete"}, Begin(j, Job(op, s, "send")),
               UNCHANGED <<discarded, market, stock, queue, trades, resaved, missed, unsent, crashes>>
        PROVE  ListingInv'
    <2> DEFINE r == Job(op, s, "send")
    <2>1. r \in Requests /\ ~OnMarket(r) /\ r.item = s /\ r.op # "init"
      BY <1>1, JobTyped DEF Job, OnMarket
    <2> HIDE DEF r
    <2> QED
      BY <1>4, <2>1, BeginKeeps DEF r
  <1>5. ASSUME NEW s \in Stocks, NEW op \in {"detail", "update"}, StartSave(j, op, s)
        PROVE  ListingInv'
    <2> DEFINE r == [op |-> op, item |-> s, phase |-> "save", copy |-> Columns(s)]
    <2>1. Columns(s) \in Copies
      BY <1>1, RowsTyped DEF Columns, Copies, StockType
    <2>2. r \in Requests /\ ~OnMarket(r) /\ r.item = s /\ r.op # "init"
      <3>1. r \in Saves
        BY <1>1, <2>1 DEF Saves
      <3> QED
        BY <3>1, KindsAreRequests DEF OnMarket
    <2>3. /\ Begin(j, r)
          /\ UNCHANGED <<discarded, market, stock, queue, trades, resaved, missed, unsent, crashes>>
      BY <1>5 DEF StartSave
    <2> HIDE DEF r
    <2> QED
      BY <2>2, <2>3, BeginKeeps
  <1>6. ASSUME NEW m \in Markets, NEW wanted \in BOOLEAN, StartStatus(j, m, wanted)
        PROVE  ListingInv'
    <2> DEFINE begin(phase) == [op |-> "status", item |-> m, want |-> wanted,
                                known |-> FALSE, phase |-> phase]
    <2>1. PICK phase \in {"rollback", "find"} : Begin(j, begin(phase))
      BY <1>6 DEF StartStatus
    <2> DEFINE r == begin(phase)
    <2>2. r \in Requests /\ ~OnStock(r) /\ r.item = m /\ r.op # "init"
      <3>1. r \in Statuses
        BY <1>1 DEF Statuses
      <3> QED
        BY <3>1, KindsAreRequests DEF OnStock
    <2>3. /\ Begin(j, r)
          /\ UNCHANGED <<discarded, market, stock, queue, trades, resaved, missed, unsent, crashes>>
      BY <1>6, <2>1 DEF StartStatus
    <2> HIDE DEF begin, r
    <2> QED
      BY <2>2, <2>3, BeginKeeps
  <1>7. ASSUME NEW m \in Markets, NEW wanted \in BOOLEAN, StartAdminDelete(j, m, wanted)
        PROVE  ListingInv'
    <2> DEFINE r == [op |-> "remove", item |-> m, want |-> wanted, phase |-> "market"]
    <2>1. r \in Requests /\ ~OnStock(r) /\ r.item = m /\ r.op # "init"
      <3>1. r \in Removals
        BY <1>1 DEF Removals
      <3> QED
        BY <3>1, KindsAreRequests DEF OnStock
    <2>2. /\ Begin(j, r)
          /\ UNCHANGED <<discarded, market, stock, queue, trades, resaved, missed, unsent, crashes>>
      BY <1>7 DEF StartAdminDelete
    <2> HIDE DEF r
    <2> QED
      BY <2>1, <2>2, BeginKeeps
  <1>8. ASSUME NEW s \in Stocks, StartOrder(j, s) \/ StartDelete(j, s)
        PROVE  ListingInv'
    BY <1>4, <1>8 DEF StartOrder, StartDelete
  <1> QED
    BY <1>2, <1>3, <1>5, <1>6, <1>7, <1>8 DEF Start

\* A request that is not waited for ends, and changes nothing but the market
\* items and the discarded videos.
LEMMA EndKeeps ==
    ASSUME ListingInv, NEW j \in Jobs, NEW r \in Requests, Quiet(j), job' = [job EXCEPT ![j] = r],
           ~(r.op = "init" /\ r.phase # "upload"), ~OnStock(r),
           OnMarket(r) => r.item \in Markets,
           market' \in Seq(MarketType), Markets \subseteq Markets', discarded' \subseteq Videos,
           UNCHANGED <<stock, queue, trades, resaved, missed, unsent, made, crashes>>
    PROVE  ListingInv'
  <1>1. TypeOK
    BY DEF ListingInv
  <1>2. Stocks' = Stocks
    BY DEF Stocks
  <1>3. \A s \in Stocks : stock'[s].market \in Markets'
    BY <1>1 DEF TypeOK
  <1>4. TablesTyped'
    BY <1>1, <1>2, <1>3 DEF TypeOK, TablesTyped
  <1> QED
    BY <1>2, <1>4, QuietStep

\* A market item is created; a mail is sent; a video is discarded; a market item
\* is removed; a stock item is looked for; a request waits no longer: the
\* invariant is kept.
LEMMA MarketKeeps ==
    ASSUME ListingInv, NEW j \in Jobs,
           \/ CreateMarketItem(j) \/ SendEmail(j) \/ Discard(j) \/ DeleteMarket(j)
           \/ GetStockItem(j) \/ GiveUp(j)
    PROVE  ListingInv'
  <1>1. TypeOK /\ job[j] \in Requests
    BY RowsTyped DEF ListingInv
  <1>2. /\ Quiet(j) /\ UNCHANGED <<stock, queue, trades, resaved, missed, unsent, made, crashes>>
        /\ market \in Seq(MarketType) /\ discarded \subseteq Videos
    BY <1>1 DEF CreateMarketItem, SendEmail, Discard, DeleteMarket, GetStockItem, GiveUp, At,
                Quiet, Working, history, TypeOK, MarketType
  <1>3. CASE SendEmail(j)
    BY <1>2, <1>3, IdleIsQuiet, EndKeeps DEF SendEmail, End, Markets
  <1>4. CASE Discard(j)
    <2>1. job[j] \in Owns
      BY <1>1, <1>4, Kinds DEF Discard, At
    <2>2. discarded' \subseteq Videos
      BY <1>2, <1>4, <2>1 DEF Discard, Owns
    <2> QED
      BY <1>2, <1>4, <2>2, IdleIsQuiet, EndKeeps DEF Discard, End, Markets
  <1>5. CASE CreateMarketItem(j)
    <2>1. job[j] \in Owns
      BY <1>1, <1>5, Kinds DEF CreateMarketItem, At
    <2> DEFINE x == [video |-> job[j].item, show |-> TRUE, deleted |-> FALSE]
    <2>2. x \in MarketType /\ market' = Append(market, x)
      BY <1>5, <2>1 DEF CreateMarketItem, Owns, MarketType
    <2> HIDE DEF x
    <2>3. market' \in Seq(MarketType) /\ Markets \subseteq Markets'
      BY <1>2, <2>2, Appended DEF Markets
    <2> QED
      BY <1>2, <1>5, <2>3, IdleIsQuiet, EndKeeps DEF CreateMarketItem, End
  <1>6. CASE DeleteMarket(j)
    <2>1. job[j] \in Removals /\ job[j].item \in Markets
      BY <1>1, <1>6, Kinds DEF DeleteMarket, At, TypeOK, OnMarket
    <2> DEFINE m == job[j].item
               x == [market[m] EXCEPT !.deleted = job[j].want]
               r == [job[j] EXCEPT !.phase = "stock"]
    <2>2. x \in MarketType
      BY <1>1, <2>1, RowsTyped DEF MarketType, Removals
    <2>3. market' = [market EXCEPT ![m] = x]
      BY <1>6 DEF DeleteMarket
    <2>4. r \in Removals /\ r.item = m /\ r.op = "remove"
      BY <2>1 DEF Removals
    <2>5. job' = [job EXCEPT ![j] = r] /\ r \in Requests /\ ~OnStock(r)
      BY <1>6, <2>4, KindsAreRequests DEF DeleteMarket, Goto, OnStock
    <2> HIDE DEF x, r
    <2>6. market' \in Seq(MarketType) /\ Markets' = Markets
      BY <1>1, <2>1, <2>2, <2>3, MarketMoves
    <2>7. discarded' \subseteq Videos
      BY <1>2, <1>6 DEF DeleteMarket
    <2> QED
      BY <1>2, <2>1, <2>4, <2>5, <2>6, <2>7, EndKeeps
  <1>7. CASE GetStockItem(j)
    <2> DEFINE known == OfVideo(market[job[j].item].video) # {}
               r == [job[j] EXCEPT !.phase = "change", !.known = known]
    <2>1. job[j] \in Statuses /\ job[j].item \in Markets
      BY <1>1, <1>7, Kinds DEF GetStockItem, At, TypeOK, OnMarket
    <2>2. job' = [job EXCEPT ![j] = r]
      BY <1>7 DEF GetStockItem
    <2> HIDE DEF known
    <2>3. r \in Statuses /\ r.item = job[j].item /\ r.op = "status" /\ r.phase = "change"
      <3>1. known \in BOOLEAN
        BY DEF known
      <3> QED
        BY <2>1, <3>1 DEF Statuses
    <2> HIDE DEF r
    <2>4. r \in Requests /\ ~OnStock(r)
      BY <2>3, KindsAreRequests DEF OnStock
    <2>5. market' = market /\ discarded' = discarded
      BY <1>7 DEF GetStockItem
    <2> QED
      BY <1>2, <2>1, <2>2, <2>3, <2>4, <2>5, EndKeeps DEF Markets
  <1>8. CASE GiveUp(j)
    BY <1>2, <1>8, IdleIsQuiet, EndKeeps DEF GiveUp, End, Markets
  <1> QED
    BY <1>3, <1>4, <1>5, <1>6, <1>7, <1>8

----------------------------------------------------------------------------
(* Requests that change one stock item                                      *)

\* A quiet step changes one row of the stock items, and no part that init stored.
LEMMA QuietRow ==
    ASSUME ListingInv, NEW j \in Jobs, Quiet(j), NEW r \in Requests, job' = [job EXCEPT ![j] = r],
           ~(r.op = "init" /\ r.phase # "upload"),
           OnStock(r) => r.item \in Stocks, OnMarket(r) => r.item \in Markets,
           market' \in Seq(MarketType), Markets' = Markets,
           NEW s \in Stocks, NEW x \in StockType, stock' = [stock EXCEPT ![s] = x],
           x.market = stock[s].market, x.booked = stock[s].booked,
           x.account = stock[s].account, x.ordered = stock[s].ordered,
           UNCHANGED <<discarded, queue, trades, made, crashes>>,
           resaved \subseteq resaved', missed \subseteq missed', unsent \subseteq unsent',
           resaved' \cup missed' \cup unsent' \subseteq Stocks,
           RowOK(s)'
    PROVE  ListingInv'
  <1>1. TypeOK
    BY DEF ListingInv
  <1>2. /\ stock' \in Seq(StockType) /\ Stocks' = Stocks /\ stock'[s] = x
        /\ \A t \in Stocks \ {s} : stock'[t] = stock[t]
        /\ \A t \in Stocks : stock'[t].market \in Markets
    BY <1>1, StockMoves
  <1>3. TablesTyped'
    BY <1>1, <1>2 DEF TypeOK, TablesTyped
  <1> QED
    BY <1>2, <1>3, QuietStep

\* The save of an entity that was read before keeps the invariant.
LEMMA SaveKeeps ==
    ASSUME ListingInv, NEW j \in Jobs, Save(j)
    PROVE  ListingInv'
  <1>0. PICK s : s = job[j].item
    OBVIOUS
  <1> DEFINE c == job[j].copy
             views == c.views + (IF job[j].op = "detail" THEN 1 ELSE 0)
             x == [stock[s] EXCEPT !.show = c.show, !.deleted = c.deleted,
                                   !.matches = c.matches, !.views = views]
  <1>1. TypeOK /\ RowInv /\ job[j] \in Requests
    BY RowsTyped DEF ListingInv
  <1>2. job[j] \in Saves /\ s \in Stocks /\ Quiet(j)
    BY <1>0, <1>1, Kinds DEF Save, TypeOK, OnStock, Quiet, Working
  <1>3. c \in Copies /\ stock[s] \in StockType
    BY <1>1, <1>2, RowsTyped DEF Saves
  <1>4. c.views \in Nat /\ views \in Nat
    BY <1>3 DEF Copies
  <1>5. /\ x \in StockType /\ x.market = stock[s].market /\ x.booked = stock[s].booked
        /\ x.account = stock[s].account /\ x.ordered = stock[s].ordered
        /\ x.live = stock[s].live /\ x.sold = stock[s].sold
        /\ x.show = c.show /\ x.deleted = c.deleted /\ x.matches = c.matches
    BY <1>3, <1>4 DEF StockType, Copies
  <1>6. /\ stock' = [stock EXCEPT ![s] = x]
        /\ resaved' = IF c # Columns(s) THEN resaved \cup {s} ELSE resaved
        /\ job' = [job EXCEPT ![j] = Idle]
        /\ UNCHANGED <<discarded, market, queue, trades, missed, unsent, made, crashes>>
    BY <1>0 DEF Save, End
  <1> HIDE DEF views, x
  <1>7. stock'[s] = x
    BY <1>1, <1>2, <1>6 DEF TypeOK, Stocks
  <1>8. /\ \A t : Creating(t) => Creating(t)'
        /\ \A t : Hiding(t) => Hiding(t)'
    <2>1. job'[j] = Idle
      BY <1>1, <1>6 DEF TypeOK
    <2> QED
      BY <1>1, <1>2, <1>6, <2>1, QuietKeeps DEF ListingInv
  <1>9. RowOK(s)'
    <2>1. RowOK(s)
      BY <1>1, <1>2 DEF RowInv
    <2>2. CASE c = Columns(s)
      <3>1. /\ x.show = stock[s].show /\ x.deleted = stock[s].deleted
            /\ x.matches = stock[s].matches
        BY <1>5, <2>2 DEF Columns
      <3> QED
        BY <1>5, <1>6, <1>7, <1>8, <2>1, <3>1 DEF RowOK
    <2>3. CASE c # Columns(s)
      <3>1. s \in resaved'
        BY <1>6, <2>3
      <3> QED
        BY <1>5, <1>6, <1>7, <1>8, <2>1, <3>1 DEF RowOK
    <2> QED
      BY <2>2, <2>3
  <1>10. market' \in Seq(MarketType) /\ Markets' = Markets
    BY <1>1, <1>6 DEF TypeOK, MarketType, Markets
  <1>11. resaved \subseteq resaved' /\ resaved' \cup missed' \cup unsent' \subseteq Stocks
    BY <1>1, <1>2, <1>6 DEF TypeOK
  <1> HIDE DEF c
  <1> QED
    BY <1>2, <1>5, <1>6, <1>9, <1>10, <1>11, IdleIsQuiet, QuietRow

\* The removal by the administration keeps the invariant.
LEMMA DeleteStockKeeps ==
    ASSUME ListingInv, NEW j \in Jobs, DeleteStock(j)
    PROVE  ListingInv'
  <1> DEFINE found == OfVideo(job[j].item)
  <1>0. PICK s : s = First(found)
    OBVIOUS
  <1> DEFINE x == [stock[s] EXCEPT !.deleted = job[j].want]
  <1>1. TypeOK /\ RowInv /\ job[j] \in Requests
    BY RowsTyped DEF ListingInv
  <1>2. job[j] \in Removals /\ Quiet(j)
    BY <1>1, Kinds DEF DeleteStock, At, Quiet, Working
  <1>3. /\ job' = [job EXCEPT ![j] = Idle] /\ job'[j] = Idle
        /\ UNCHANGED <<discarded, market, queue, trades, missed, unsent, made, crashes>>
        /\ market' \in Seq(MarketType) /\ Markets' = Markets
    BY <1>1 DEF DeleteStock, End, TypeOK, MarketType, Markets
  <1>4. CASE found = {}
    <2>1. UNCHANGED <<stock, resaved>>
      BY <1>4 DEF DeleteStock
    <2>2. discarded' \subseteq Videos
      BY <1>1, <1>3 DEF TypeOK
    <2> HIDE DEF found, x
    <2> QED
      BY <1>2, <1>3, <2>1, <2>2, IdleIsQuiet, EndKeeps
  <1>5. CASE found # {}
    <2>1. s \in Stocks
      BY <1>0, <1>1, <1>5, FirstFound DEF OfVideo
    <2>2. stock' = [stock EXCEPT ![s] = x] /\ resaved' = resaved \cup {s}
      BY <1>0, <1>5 DEF DeleteStock
    <2> HIDE DEF found
    <2>3. stock[s] \in StockType
      BY <1>1, <2>1, RowsTyped
    <2>4. /\ x \in StockType /\ x.market = stock[s].market /\ x.booked = stock[s].booked
          /\ x.account = stock[s].account /\ x.ordered = stock[s].ordered
      BY <1>2, <2>3 DEF StockType, Removals
    <2> HIDE DEF x
    <2>5. stock'[s] = x
      BY <1>1, <2>1, <2>2 DEF TypeOK, Stocks
    <2>6. \A t : Creating(t) => Creating(t)'
      BY <1>1, <1>2, <1>3, QuietKeeps DEF ListingInv
    <2>7. RowOK(s)
      BY <1>1, <2>1 DEF RowInv
    <2>8. RowOK(s)'
      BY <1>3, <2>2, <2>4, <2>5, <2>6, <2>7 DEF RowOK
    <2>9. resaved \subseteq resaved' /\ resaved' \cup missed' \cup unsent' \subseteq Stocks
      BY <1>1, <1>3, <2>1, <2>2 DEF TypeOK
    <2> QED
      BY <1>2, <1>3, <2>1, <2>2, <2>4, <2>8, <2>9, IdleIsQuiet, QuietRow
  <1> QED
    BY <1>4, <1>5

\* The change of what is shown keeps the invariant: an item that is hidden offers
\* nothing, or a message is about to be sent.
LEMMA UpdateShowStatusKeeps ==
    ASSUME ListingInv, NEW j \in Jobs, UpdateShowStatus(j)
    PROVE  ListingInv'
  <1>0. PICK m, s : m = job[j].item /\ s = First(OfVideo(market[m].video))
    OBVIOUS
  <1> DEFINE found == OfVideo(market[m].video)
             want == job[j].want
             y == [market[m] EXCEPT !.show = want]
             x == [stock[s] EXCEPT !.show = want]
             mail == [job[j] EXCEPT !.phase = "mail"]
             send == [job[j] EXCEPT !.phase = "send", !.item = s]
             next == IF ~OrdersLeft(s) THEN mail ELSE IF job[j].known THEN send ELSE Idle
  <1>1. TypeOK /\ RowInv /\ job[j] \in Requests
    BY RowsTyped DEF ListingInv
  <1>2. job[j] \in Statuses /\ m \in Markets /\ Quiet(j)
    BY <1>0, <1>1, Kinds DEF UpdateShowStatus, At, Quiet, Working, TypeOK, OnMarket
  <1>3. /\ want \in BOOLEAN /\ y \in MarketType
        /\ mail \in Statuses /\ mail.op = "status" /\ mail.phase = "mail"
    BY <1>1, <1>2, RowsTyped DEF Statuses, MarketType
  <1>4. mail \in Requests /\ ~OnStock(mail) /\ ~OnMarket(mail)
    BY <1>3, KindsAreRequests DEF OnStock, OnMarket
  <1>5. /\ UNCHANGED <<discarded, queue, trades, resaved, made, crashes>>
        /\ discarded' \subseteq Videos /\ market \in Seq(MarketType)
    BY <1>1 DEF UpdateShowStatus, TypeOK, MarketType
  <1>6. CASE ~market[m].show \/ market[m].deleted
    <2>1. UNCHANGED <<market, stock, missed, unsent>> /\ job' = [job EXCEPT ![j] = Idle]
      BY <1>0, <1>6 DEF UpdateShowStatus, End
    <2> HIDE DEF mail, next
    <2> QED
      BY <1>2, <1>5, <2>1, IdleIsQuiet, EndKeeps DEF Markets
  <1>7. CASE /\ ~(~market[m].show \/ market[m].deleted)
             /\ found = {}
    <2>1. /\ market' = [market EXCEPT ![m] = y] /\ UNCHANGED <<stock, missed, unsent>>
          /\ job' = [job EXCEPT ![j] = mail]
      BY <1>0, <1>7 DEF UpdateShowStatus, Goto
    <2> HIDE DEF y, mail
    <2>2. market' \in Seq(MarketType) /\ Markets' = Markets
      BY <1>1, <1>2, <1>3, <2>1, MarketMoves
    <2> QED
      BY <1>2, <1>3, <1>4, <1>5, <2>1, <2>2, EndKeeps
  <1>8. CASE /\ ~(~market[m].show \/ market[m].deleted)
             /\ found # {}
    <2>1. s \in Stocks
      BY <1>0, <1>1, <1>8, FirstFound DEF OfVideo
    <2>2. /\ market' = [market EXCEPT ![m] = y] /\ stock' = [stock EXCEPT ![s] = x]
          /\ missed' = IF stock[s].row < stock[s].live \/ ~stock[s].booked
                       THEN missed \cup {s} ELSE missed
          /\ unsent' = IF OrdersLeft(s) /\ ~job[j].known THEN unsent \cup {s} ELSE unsent
          /\ job' = [job EXCEPT ![j] = next]
      <3>1. /\ OrdersLeft(s) /\ job[j].known => job' = [job EXCEPT ![j] = send]
            /\ OrdersLeft(s) /\ ~job[j].known => job' = [job EXCEPT ![j] = Idle]
            /\ ~OrdersLeft(s) => job' = [job EXCEPT ![j] = mail]
        BY <1>0, <1>8 DEF UpdateShowStatus, Goto, End
      <3>2. /\ market' = [market EXCEPT ![m] = y] /\ stock' = [stock EXCEPT ![s] = x]
            /\ missed' = IF stock[s].row < stock[s].live \/ ~stock[s].booked
                         THEN missed \cup {s} ELSE missed
            /\ unsent' = IF OrdersLeft(s) /\ ~job[j].known THEN unsent \cup {s} ELSE unsent
        BY <1>0, <1>8 DEF UpdateShowStatus
      <3> QED
        BY <3>1, <3>2
    <2>3. stock[s] \in StockType /\ s \in Nat
      BY <1>1, <2>1, RowsTyped
    <2>4. /\ send \in Statuses /\ send.op = "status" /\ send.phase = "send" /\ send.item = s
          /\ send \in Requests /\ ~OnMarket(send)
      <3>1. send \in Statuses /\ send.op = "status" /\ send.phase = "send" /\ send.item = s
        BY <1>2, <2>3 DEF Statuses
      <3> QED
        BY <3>1, KindsAreRequests DEF OnMarket
    <2>5. /\ x \in StockType /\ x.market = stock[s].market /\ x.booked = stock[s].booked
          /\ x.account = stock[s].account /\ x.ordered = stock[s].ordered
          /\ x.live = stock[s].live /\ x.sold = stock[s].sold /\ x.show = want
          /\ x.deleted = stock[s].deleted /\ x.matches = stock[s].matches
      BY <1>3, <2>3 DEF StockType
    <2> HIDE DEF found, x, y, mail, send, want, next
    <2>6. market' \in Seq(MarketType) /\ Markets' = Markets
      BY <1>1, <1>2, <1>3, <2>2, MarketMoves
    <2>7. PICK r : job' = [job EXCEPT ![j] = r] /\ r = next
      BY <2>2
    <2>8. /\ r \in Requests /\ ~OnMarket(r) /\ (OnStock(r) => r.item \in Stocks) /\ r.op # "init"
          /\ job'[j] = r
      BY <1>1, <1>3, <1>4, <2>1, <2>4, <2>7, IdleIsQuiet DEF TypeOK, next
    <2>9. /\ \A t : Creating(t) => Creating(t)'
          /\ \A t : Hiding(t) => Hiding(t)'
      BY <1>1, <1>2, <1>5, <2>7, <2>8, QuietKeeps DEF ListingInv
    <2>10. stock'[s] = x
      BY <1>1, <2>1, <2>2 DEF TypeOK, Stocks
    <2>11. OrdersLeft(s) => Hiding(s)' \/ s \in unsent'
      BY <2>2, <2>4, <2>7, <2>8 DEF Hiding, next
    <2>12. s \notin missed' => stock[s].booked /\ (~OrdersLeft(s) => stock[s].live = 0)
      BY <2>2, <2>3 DEF StockType, OrdersLeft
    <2>13. RowOK(s)
      BY <1>1, <2>1 DEF RowInv
    <2>14. /\ missed \subseteq missed' /\ unsent \subseteq unsent'
           /\ resaved' \cup missed' \cup unsent' \subseteq Stocks
      BY <1>1, <1>5, <2>1, <2>2 DEF TypeOK
    <2>15. RowOK(s)'
      BY <1>5, <2>5, <2>9, <2>10, <2>11, <2>12, <2>13, <2>14 DEF RowOK
    <2> QED
      BY <1>2, <1>5, <2>1, <2>2, <2>5, <2>6, <2>7, <2>8, <2>14, <2>15, QuietRow
  <1> QED
    BY <1>6, <1>7, <1>8

\* The way back keeps the invariant: nothing is wrong with what is shown.
LEMMA RollbackKeeps ==
    ASSUME ListingInv, NEW j \in Jobs, RollbackShowStatus(j)
    PROVE  ListingInv'
  <1>0. PICK m, s : m = job[j].item /\ s = First(OfVideo(market[m].video))
    OBVIOUS
  <1> DEFINE found == OfVideo(market[m].video)
             y == [market[m] EXCEPT !.show = TRUE]
             x == [stock[s] EXCEPT !.show = TRUE]
  <1>1. TypeOK /\ RowInv /\ job[j] \in Requests
    BY RowsTyped DEF ListingInv
  <1>2. m \in Markets /\ Quiet(j)
    BY <1>0, <1>1 DEF RollbackShowStatus, At, Quiet, Working, TypeOK, OnMarket
  <1>3. /\ UNCHANGED <<discarded, queue, trades, resaved, missed, unsent, made, crashes>>
        /\ job' = [job EXCEPT ![j] = Idle] /\ job'[j] = Idle
        /\ discarded' \subseteq Videos /\ market \in Seq(MarketType)
    BY <1>1 DEF RollbackShowStatus, End, TypeOK, MarketType
  <1>4. CASE UNCHANGED <<market, stock>>
    BY <1>2, <1>3, <1>4, IdleIsQuiet, EndKeeps DEF Markets
  <1>5. CASE /\ found # {} /\ market' = [market EXCEPT ![m] = y]
             /\ stock' = [stock EXCEPT ![s] = x]
    <2>1. s \in Stocks
      BY <1>0, <1>1, <1>5, FirstFound DEF OfVideo
    <2>2. stock[s] \in StockType /\ y \in MarketType
      BY <1>1, <1>2, <2>1, RowsTyped DEF MarketType
    <2>3. /\ x \in StockType /\ x.market = stock[s].market /\ x.booked = stock[s].booked
          /\ x.account = stock[s].account /\ x.ordered = stock[s].ordered
          /\ x.live = stock[s].live /\ x.sold = stock[s].sold /\ x.show = TRUE
          /\ x.deleted = stock[s].deleted /\ x.matches = stock[s].matches
      BY <2>2 DEF StockType
    <2> HIDE DEF x, y, found
    <2>4. market' \in Seq(MarketType) /\ Markets' = Markets
      BY <1>1, <1>2, <1>5, <2>2, MarketMoves
    <2>5. stock'[s] = x
      BY <1>1, <1>5, <2>1 DEF TypeOK, Stocks
    <2>6. \A t : Creating(t) => Creating(t)'
      BY <1>1, <1>2, <1>3, QuietKeeps DEF ListingInv
    <2>7. RowOK(s)
      BY <1>1, <2>1 DEF RowInv
    <2>8. RowOK(s)'
      BY <1>3, <2>3, <2>5, <2>6, <2>7 DEF RowOK
    <2>9. resaved' \cup missed' \cup unsent' \subseteq Stocks
      BY <1>1, <1>3 DEF TypeOK
    <2> QED
      BY <1>2, <1>3, <1>5, <2>1, <2>3, <2>4, <2>8, <2>9, IdleIsQuiet, QuietRow
  <1>6. \/ UNCHANGED <<market, stock>>
        \/ found # {} /\ market' = [market EXCEPT ![m] = y] /\ stock' = [stock EXCEPT ![s] = x]
    BY <1>0 DEF RollbackShowStatus
  <1> QED
    BY <1>4, <1>5, <1>6

----------------------------------------------------------------------------
(* The parts of an item, one after the other                                *)

\* A new stock item keeps the invariant: the request goes on to work on it alone.
LEMMA CreateStockItemKeeps ==
    ASSUME ListingInv, NEW j \in Jobs, CreateStockItem(j)
    PROVE  ListingInv'
  <1>0. PICK n : n = Len(stock) + 1
    OBVIOUS
  <1> DEFINE x == NewStock(job[j].item)
             r == Job("init", n, "account")
  <1>1. TypeOK /\ RowInv /\ InitInv /\ job[j] \in Requests
    BY RowsTyped DEF ListingInv
  <1>2. /\ job[j] \in Inits /\ job[j].item \in Markets /\ Quiet(j)
        /\ market[job[j].item] \in MarketType /\ job[j].item \in Nat
    BY <1>1, Kinds, RowsTyped DEF CreateStockItem, At, Quiet, Working, TypeOK, OnMarket
  <1>3. /\ x \in StockType /\ x.market = job[j].item /\ x.show /\ ~x.deleted /\ ~x.booked
        /\ ~x.ordered /\ x.matches = 0
    BY <1>2 DEF NewStock, StockType, MarketType
  <1>4. /\ stock' = Append(stock, x) /\ job' = [job EXCEPT ![j] = r] /\ trades' = Append(trades, 0)
        /\ UNCHANGED <<discarded, market, queue, resaved, missed, unsent, made, crashes>>
    BY <1>0 DEF CreateStockItem
  <1> HIDE DEF x
  <1>5. /\ stock' \in Seq(StockType) /\ n \notin Stocks /\ Stocks' = Stocks \cup {n}
        /\ stock'[n] = x /\ \A t \in Stocks : stock'[t] = stock[t]
        /\ n \in Nat
    BY <1>0, <1>1, <1>3, <1>4, Appended DEF TypeOK, Stocks
  <1>6. /\ trades' \in Seq(Nat) /\ DOMAIN trades' = Stocks' /\ trades'[n] = 0
        /\ \A t \in Stocks : trades'[t] = trades[t]
    <2>1. Len(trades) = Len(stock)
      BY <1>1, LenProperties DEF TypeOK, Stocks
    <2>2. DOMAIN trades = Stocks /\ 0 \in Nat /\ trades \in Seq(Nat)
      BY <1>1 DEF TypeOK
    <2> QED
      BY <1>0, <1>4, <1>5, <2>1, <2>2, Appended
  <1>7. TablesTyped'
    <2>1. Markets' = Markets
      BY <1>4 DEF Markets
    <2>2. \A t \in Stocks' : stock'[t].market \in Markets'
      BY <1>1, <1>2, <1>3, <1>5, <2>1 DEF TypeOK
    <2>3. /\ market' \in Seq(MarketType) /\ discarded' \subseteq Videos
          /\ resaved' \cup missed' \cup unsent' \subseteq Stocks' /\ crashes' \in Nat /\ made' \in Nat
      BY <1>1, <1>4, <1>5 DEF TypeOK, MarketType
    <2> QED
      BY <1>5, <1>6, <2>2, <2>3 DEF TablesTyped
  <1>8. /\ r \in Inits /\ r.item = n /\ r.op = "init" /\ r.phase = "account"
        /\ r \in Requests /\ ~OnMarket(r)
    <2>1. r \in Inits /\ r.item = n /\ r.op = "init" /\ r.phase = "account"
      BY <1>5 DEF Job, Inits
    <2> QED
      BY <2>1, KindsAreRequests DEF OnMarket
  <1> HIDE DEF r
  <1>9. JobsTyped' /\ job'[j] = r /\ \A k \in Jobs \ {j} : job'[k] = job[k]
    <2>1. Stocks \subseteq Stocks' /\ Markets \subseteq Markets' /\ r.item \in Stocks'
      BY <1>4, <1>5, <1>8 DEF Markets
    <2> QED
      BY <1>1, <1>4, <1>8, <2>1, JobMoves
  <1>10. TypeOK'
    <2>1. QueueTyped'
      BY <1>1, <1>4, <1>5, QueueKept
    <2> QED
      BY <1>7, <1>9, <2>1, TypePartsNext
  <1>11. /\ \A t : Creating(t) => Creating(t)'
         /\ \A t : Hiding(t) => Hiding(t)'
    BY <1>1, <1>2, <1>4, <1>9, QuietKeeps
  <1>12. RowInv'
    <2>1. RowOK(n)'
      <3>1. Creating(n)'
        BY <1>8, <1>9 DEF Creating
      <3>2. n \notin resaved' \cup missed' \/ n \in resaved' \cup missed'
        OBVIOUS
      <3> QED
        BY <1>3, <1>5, <1>6, <3>1 DEF RowOK
    <2>2. ASSUME NEW t \in Stocks
          PROVE  RowOK(t)'
      BY <1>1, <1>4, <1>5, <1>6, <1>11, RowKept DEF RowInv
    <2> QED
      BY <1>5, <2>1, <2>2 DEF RowInv
  <1>13. InitInv'
    <2>1. ASSUME NEW k \in Jobs \ {j}, Working(k)
          PROVE  job[k].item \in Stocks /\ InitOK(k)
      BY <1>1, <2>1 DEF TypeOK, OnStock, Working, InitInv
    <2>2. InitOK(j)'
      <3>1. \A k \in Jobs \ {j} : Working(k)' => job'[k].item # n
        BY <1>5, <1>9, <2>1 DEF Working
      <3> QED
        BY <1>3, <1>5, <1>8, <1>9, <3>1 DEF InitOK
    <2>3. ASSUME NEW k \in Jobs \ {j}
          PROVE  InitOK(k)'
      <3>1. CASE ~Working(k)
        BY <1>9, <3>1 DEF InitOK, Working
      <3>2. CASE Working(k)
        <4>1. /\ job'[k] = job[k] /\ job[k].item \in Stocks /\ InitOK(k)
              /\ stock'[job[k].item] = stock[job[k].item] /\ job'[j].item # job[k].item
          BY <1>5, <1>8, <1>9, <2>1, <3>2
        <4>2. \A i \in Jobs \ {k} : Working(i)' => job'[i].item # job[k].item
          BY <1>9, <3>2, <4>1 DEF InitOK, Working
        <4> QED
          BY <3>2, <4>1, <4>2 DEF InitOK
      <3> QED
        BY <3>1, <3>2
    <2> QED
      BY <2>2, <2>3 DEF InitInv
  <1> QED
    BY <1>10, <1>11, <1>12, <1>13 DEF ListingInv

\* The next part of an item keeps the invariant.
LEMMA SaveNextKeeps ==
    ASSUME ListingInv, NEW j \in Jobs, SaveNext(j)
    PROVE  ListingInv'
  <1>0. PICK s, what : s = job[j].item /\ what = job[j].phase
    OBVIOUS
  <1> DEFINE x == Saved(stock[s], what)
  <1>1. TypeOK /\ RowInv /\ InitInv /\ job[j] \in Requests
    BY RowsTyped DEF ListingInv
  <1>2. /\ job[j] \in Inits /\ s \in Stocks /\ Working(j) /\ InitOK(j)
        /\ what \in {"account", "order", "row"}
    BY <1>0, <1>1, Kinds DEF SaveNext, Working, TypeOK, OnStock, InitInv
  <1>3. stock[s] \in StockType
    BY <1>1, <1>2, RowsTyped
  <1>4. /\ x \in StockType /\ x.market = stock[s].market /\ x.show = stock[s].show
        /\ x.deleted = stock[s].deleted /\ x.matches = stock[s].matches
        /\ x.sold = stock[s].sold
        /\ x.account <=> stock[s].account \/ what = "account"
        /\ x.ordered <=> stock[s].ordered \/ what = "order"
        /\ x.booked <=> stock[s].booked \/ what = "row"
    <2>1. CASE what = "account"
      <3>1. x = [stock[s] EXCEPT !.account = TRUE]
        BY <2>1 DEF Saved
      <3> HIDE DEF x
      <3> QED
        BY <1>3, <2>1, <3>1 DEF StockType
    <2>2. CASE what = "order"
      <3>1. PICK n \in Nat : n = stock[s].live + 1
        BY <1>3 DEF StockType
      <3>2. x = [stock[s] EXCEPT !.ordered = TRUE, !.live = n]
        BY <2>2, <3>1 DEF Saved
      <3> HIDE DEF x
      <3>3. x \in StockType
        BY <1>3, <3>2 DEF StockType
      <3> QED
        BY <1>3, <2>2, <3>2, <3>3 DEF StockType
    <2>3. CASE what = "row"
      <3>1. PICK n \in Nat : n = stock[s].row + 1
        BY <1>3 DEF StockType
      <3>2. x = [stock[s] EXCEPT !.booked = TRUE, !.row = n]
        BY <2>3, <3>1 DEF Saved
      <3> HIDE DEF x
      <3>3. x \in StockType
        BY <1>3, <3>2 DEF StockType
      <3> QED
        BY <1>3, <2>3, <3>2, <3>3 DEF StockType
    <2> QED
      BY <1>2, <2>1, <2>2, <2>3
  <1>5. PICK r : /\ job' = [job EXCEPT ![j] = r]
                 /\ r = CASE what = "account" -> [job[j] EXCEPT !.phase = "order"]
                          [] what = "order" -> [job[j] EXCEPT !.phase = "row"]
                          [] what = "row" -> Idle
    BY <1>0, <1>2 DEF SaveNext, Goto, End
  <1>6. /\ r \in Requests /\ ~OnMarket(r)
        /\ what = "row" => r = Idle
        /\ what # "row" => r.op = "init" /\ r.item = s /\ r.phase # "upload"
        /\ what = "account" => r.phase = "order"
        /\ what = "order" => r.phase = "row"
    <2>1. CASE what = "row"
      BY <1>5, <2>1, IdleIsQuiet
    <2>2. CASE what \in {"account", "order"}
      <3>1. /\ r \in Inits /\ r.op = "init" /\ r.item = s
            /\ r.phase = IF what = "account" THEN "order" ELSE "row"
        BY <1>0, <1>2, <1>5, <2>2 DEF Inits
      <3> QED
        BY <2>2, <3>1, KindsAreRequests DEF OnMarket
    <2> QED
      BY <1>2, <2>1, <2>2
  <1>7. /\ stock' = [stock EXCEPT ![s] = x]
        /\ UNCHANGED <<discarded, market, queue, trades, resaved, missed, unsent, made, crashes>>
    BY <1>0 DEF SaveNext, history
  <1> HIDE DEF x
  <1>8. /\ stock' \in Seq(StockType) /\ Stocks' = Stocks /\ stock'[s] = x
        /\ \A t \in Stocks \ {s} : stock'[t] = stock[t]
        /\ \A t \in Stocks : stock'[t].market \in Markets
    BY <1>1, <1>2, <1>4, <1>7, StockMoves
  <1>9. Markets' = Markets
    BY <1>7 DEF Markets
  <1>10. /\ JobsTyped' /\ job'[j] = r /\ \A k \in Jobs \ {j} : job'[k] = job[k]
    <2>1. OnStock(r) => r.item \in Stocks'
      BY <1>2, <1>6, <1>8, IdleIsQuiet
    <2> QED
      BY <1>1, <1>5, <1>6, <1>8, <1>9, <2>1, JobMoves
  <1>11. TypeOK'
    <2>1. QueueTyped'
      BY <1>1, <1>7, <1>8, QueueKept
    <2>2. TablesTyped'
      BY <1>1, <1>7, <1>8, <1>9 DEF TypeOK, TablesTyped, MarketType
    <2> QED
      BY <1>10, <2>1, <2>2, TypePartsNext
  <1>12. \A t : Hiding(t) => Hiding(t)'
    BY <1>2, <1>7, <1>10 DEF Hiding, Working
  <1>13. \A t : t # s /\ Creating(t) => Creating(t)'
    BY <1>0, <1>10 DEF Creating
  <1>14. what # "row" => Creating(s)'
    BY <1>6, <1>10 DEF Creating
  <1>15. RowOK(s)'
    <2>1. RowOK(s)
      BY <1>1, <1>2 DEF RowInv
    <2>2. /\ ~stock[s].booked
          /\ what \in {"order", "row"} => stock[s].account
          /\ what = "row" => stock[s].ordered
      BY <1>0, <1>2 DEF InitOK
    <2>3. x.ordered => x.account
      BY <1>2, <1>4, <2>1, <2>2 DEF RowOK
    <2>4. ~Creating(s)' => x.account /\ x.ordered /\ x.booked
      BY <1>4, <1>14, <2>2
    <2>5. s \notin resaved \cup missed => x.show /\ ~x.deleted
      BY <1>4, <2>1, <2>2 DEF RowOK
    <2>6. s \notin resaved => x.matches = trades[s]
      BY <1>4, <2>1 DEF RowOK
    <2> QED
      BY <1>7, <1>8, <2>3, <2>4, <2>5, <2>6 DEF RowOK
  <1>16. RowInv'
    <2>1. ASSUME NEW t \in Stocks \ {s}
          PROVE  RowOK(t)'
      <3>1. stock'[t] = stock[t] /\ RowOK(t)
        BY <1>1, <1>8 DEF RowInv
      <3> QED
        BY <1>7, <1>12, <1>13, <3>1, RowKept
    <2> QED
      BY <1>8, <1>15, <2>1 DEF RowInv
  <1>17. InitInv'
    <2>1. \A k \in Jobs \ {j} : Working(k) => job[k].item # s
      BY <1>0, <1>2 DEF InitOK
    <2>2. InitOK(j)'
      <3>1. CASE what = "row"
        BY <1>6, <1>10, <3>1, IdleIsQuiet DEF InitOK, Working
      <3>2. CASE what # "row"
        <4>1. \A k \in Jobs \ {j} : Working(k)' => job'[k].item # s
          BY <1>10, <2>1 DEF Working
        <4>2. ~x.booked /\ (r.phase \in {"order", "row"} => x.account)
              /\ (r.phase = "row" => x.ordered)
          BY <1>0, <1>2, <1>4, <1>6, <3>2 DEF InitOK
        <4> QED
          BY <1>6, <1>8, <1>10, <3>2, <4>1, <4>2 DEF InitOK
      <3> QED
        BY <3>1, <3>2
    <2>3. ASSUME NEW k \in Jobs \ {j}
          PROVE  InitOK(k)'
      <3>1. CASE ~Working(k)
        BY <1>10, <3>1 DEF InitOK, Working
      <3>2. CASE Working(k)
        <4>1. /\ job'[k] = job[k] /\ job[k].item \in Stocks \ {s} /\ InitOK(k)
              /\ stock'[job[k].item] = stock[job[k].item]
          BY <1>1, <1>8, <1>10, <2>1, <3>2 DEF InitInv, TypeOK, OnStock, Working
        <4>2. \A i \in Jobs \ {k} : Working(i)' => job'[i].item # job[k].item
          <5>1. \A i \in Jobs \ {k} : i # j /\ Working(i)' => job'[i].item # job[k].item
            BY <1>10, <3>2, <4>1 DEF InitOK, Working
          <5>2. Working(j)' => job'[j].item = s
            BY <1>6, <1>10, IdleIsQuiet DEF Working
          <5> QED
            BY <4>1, <5>1, <5>2
        <4> QED
          BY <3>2, <4>1, <4>2 DEF InitOK
      <3> QED
        BY <3>1, <3>2
    <2> QED
      BY <2>2, <2>3 DEF InitInv
  <1> QED
    BY <1>11, <1>16, <1>17 DEF ListingInv

----------------------------------------------------------------------------
(* Messages, the daemon and handlers that end half-way                      *)

\* Nothing but requests and messages changes in the tables.
LEMMA TablesKept ==
    ASSUME TypeOK, UNCHANGED <<market, stock, trades, resaved, missed, discarded, made>>,
           unsent' \subseteq Stocks, crashes' \in Nat
    PROVE  TablesTyped' /\ Stocks' = Stocks /\ Markets' = Markets
  BY DEF TypeOK, TablesTyped, MarketType, Stocks, Markets

\* A message that is sent keeps the invariant: who was about to hide an item has
\* a message in the queue now.
LEMMA SendMessageKeeps ==
    ASSUME ListingInv, NEW j \in Jobs, SendMessage(j)
    PROVE  ListingInv'
  <1>0. PICK n : n = Len(queue) + 1
    OBVIOUS
  <1> DEFINE msg == [type |-> job[j].op, stock |-> job[j].item, job |-> j]
             r == [job[j] EXCEPT !.phase = "wait"]
  <1>1. TypeOK /\ RowInv /\ InitInv /\ job[j] \in Requests
    BY RowsTyped DEF ListingInv
  <1>2. /\ job[j].op \in {"order", "delete", "status"} /\ job[j].phase = "send"
        /\ job[j].item \in Stocks /\ job[j] \in Trading \cup Statuses /\ ~Working(j)
    BY <1>1, Kinds DEF SendMessage, TypeOK, OnStock, Working
  <1>3. /\ queue' = Append(queue, msg) /\ job' = [job EXCEPT ![j] = r]
        /\ UNCHANGED <<discarded, market, stock, trades, resaved, missed, unsent, made, crashes>>
        /\ unsent' \subseteq Stocks
    BY <1>1 DEF SendMessage, Goto, history, TypeOK
  <1>4. /\ r \in Trading \cup Statuses /\ r.op = job[j].op /\ r.item = job[j].item
        /\ r.phase = "wait"
    BY <1>2 DEF Trading, Statuses
  <1>5. r \in Requests /\ ~OnMarket(r)
    BY <1>2, <1>4, KindsAreRequests DEF OnMarket
  <1>6. msg \in Messages /\ msg.type = job[j].op /\ msg.stock = job[j].item /\ msg.job = j
    <2>1. job[j].item \in Nat
      BY <1>1, <1>2, RowsTyped
    <2> QED
      BY <1>2, <2>1 DEF Messages
  <1> HIDE DEF msg, r
  <1>7. /\ queue' \in Seq(Messages) /\ DOMAIN queue' = DOMAIN queue \cup {n}
        /\ n \notin DOMAIN queue /\ queue'[n] = msg /\ \A i \in DOMAIN queue : queue'[i] = queue[i]
    BY <1>0, <1>1, <1>3, <1>6, Appended DEF TypeOK
  <1>8. TablesTyped' /\ Stocks' = Stocks /\ Markets' = Markets
    BY <1>1, <1>3, TablesKept DEF TypeOK
  <1>9. JobsTyped' /\ job'[j] = r /\ \A k \in Jobs \ {j} : job'[k] = job[k]
    BY <1>1, <1>2, <1>3, <1>4, <1>5, <1>8, JobMoves
  <1>10. TypeOK'
    <2>1. QueueTyped'
      BY <1>1, <1>2, <1>6, <1>7, <1>8 DEF QueueTyped, TypeOK
    <2> QED
      BY <1>8, <1>9, <2>1, TypePartsNext
  <1>11. \A t : Creating(t) => Creating(t)'
    BY <1>2, <1>9 DEF Creating, Working
  <1>12. \A t : Hiding(t) => Hiding(t)'
    <2>1. ASSUME NEW t, NEW k \in Jobs, job[k].op = "status", job[k].phase = "send", job[k].item = t
          PROVE  Hiding(t)'
      <3>1. CASE k = j
        BY <1>6, <1>7, <2>1, <3>1 DEF Hiding
      <3>2. CASE k # j
        BY <1>9, <2>1, <3>2 DEF Hiding
      <3> QED
        BY <3>1, <3>2
    <2>2. ASSUME NEW t, NEW i \in DOMAIN queue, queue[i].type = "status", queue[i].stock = t
          PROVE  Hiding(t)'
      BY <1>7, <2>2 DEF Hiding
    <2> QED
      BY <2>1, <2>2 DEF Hiding
  <1>13. RowInv'
    <2>1. ASSUME NEW t \in Stocks
          PROVE  RowOK(t)'
      BY <1>1, <1>3, <1>11, <1>12, RowKept DEF RowInv
    <2> QED
      BY <1>8, <2>1 DEF RowInv
  <1>14. InitInv'
    <2>1. ~Working(j)' /\ job' = [job EXCEPT ![j] = job'[j]]
      BY <1>2, <1>3, <1>4, <1>9 DEF Working
    <2> QED
      BY <1>1, <1>3, <1>8, <2>1, InitKept
  <1> QED
    BY <1>10, <1>13, <1>14 DEF ListingInv

\* A message that is not sent keeps the invariant: of an item that was hidden it
\* is noted.
LEMMA SendFailsKeeps ==
    ASSUME ListingInv, NEW j \in Jobs, SendFails(j)
    PROVE  ListingInv'
  <1> DEFINE r == [job[j] EXCEPT !.phase = "lost"]
  <1>1. TypeOK /\ RowInv /\ InitInv /\ job[j] \in Requests
    BY RowsTyped DEF ListingInv
  <1>2. /\ job[j].op \in {"order", "delete", "status"} /\ job[j].phase = "send"
        /\ job[j].item \in Stocks /\ job[j] \in Trading \cup Statuses /\ ~Working(j)
    BY <1>1, Kinds DEF SendFails, TypeOK, OnStock, Working
  <1>3. /\ job' = [job EXCEPT ![j] = r]
        /\ unsent' = IF job[j].op = "status" THEN unsent \cup {job[j].item} ELSE unsent
        /\ UNCHANGED <<discarded, market, stock, queue, trades, resaved, missed, made, crashes>>
    BY DEF SendFails, Goto
  <1>4. r \in Trading \cup Statuses /\ r.op = job[j].op /\ r.item = job[j].item /\ r.phase = "lost"
    BY <1>2 DEF Trading, Statuses
  <1>5. r \in Requests /\ ~OnMarket(r)
    BY <1>2, <1>4, KindsAreRequests DEF OnMarket
  <1> HIDE DEF r
  <1>6. TablesTyped' /\ Stocks' = Stocks /\ Markets' = Markets
    <2>1. unsent' \subseteq Stocks /\ crashes' \in Nat
      BY <1>1, <1>2, <1>3 DEF TypeOK
    <2> QED
      BY <1>1, <1>3, <2>1, TablesKept
  <1>7. JobsTyped' /\ job'[j] = r /\ \A k \in Jobs \ {j} : job'[k] = job[k]
    BY <1>1, <1>2, <1>3, <1>4, <1>5, <1>6, JobMoves
  <1>8. TypeOK'
    <2>1. QueueTyped'
      BY <1>1, <1>3, <1>6, QueueKept
    <2> QED
      BY <1>6, <1>7, <2>1, TypePartsNext
  <1>9. \A t : Creating(t) => Creating(t)'
    BY <1>2, <1>7 DEF Creating, Working
  <1>10. \A t : Hiding(t) => Hiding(t)' \/ t \in unsent'
    BY <1>3, <1>7 DEF Hiding
  <1>11. RowInv'
    <2>1. ASSUME NEW t \in Stocks
          PROVE  RowOK(t)'
      BY <1>1, <1>3, <1>9, <1>10 DEF RowInv, RowOK
    <2> QED
      BY <1>6, <2>1 DEF RowInv
  <1>12. InitInv'
    <2>1. ~Working(j)' /\ job' = [job EXCEPT ![j] = job'[j]]
      BY <1>2, <1>3, <1>4, <1>7 DEF Working
    <2> QED
      BY <1>1, <1>3, <1>6, <2>1, InitKept
  <1> QED
    BY <1>8, <1>11, <1>12 DEF ListingInv

\* A handler that ends half-way keeps the invariant.
LEMMA CrashKeeps ==
    ASSUME ListingInv, NEW j \in Jobs, Crash(j)
    PROVE  ListingInv'
  <1>1. TypeOK /\ RowInv /\ InitInv
    BY DEF ListingInv
  <1>2. /\ job' = [job EXCEPT ![j] = Idle] /\ crashes' \in Nat /\ crashes' # 0
        /\ UNCHANGED <<discarded, market, stock, queue, trades, resaved, missed, unsent, made>>
        /\ unsent' \subseteq Stocks
    BY <1>1 DEF Crash, End, TypeOK
  <1>3. TablesTyped' /\ Stocks' = Stocks /\ Markets' = Markets
    BY <1>1, <1>2, TablesKept
  <1>4. JobsTyped' /\ job'[j] = Idle
    BY <1>1, <1>2, <1>3, IdleIsQuiet, JobMoves
  <1>5. TypeOK'
    <2>1. QueueTyped'
      BY <1>1, <1>2, <1>3, QueueKept
    <2> QED
      BY <1>3, <1>4, <2>1, TypePartsNext
  <1>6. RowInv'
    <2>1. ASSUME NEW t \in Stocks
          PROVE  RowOK(t)'
      BY <1>1, <1>2, RowKept DEF RowInv
    <2> QED
      BY <1>3, <2>1 DEF RowInv
  <1>7. InitInv'
    <2>1. ~Working(j)' /\ job' = [job EXCEPT ![j] = job'[j]]
      BY <1>2, <1>4, IdleIsQuiet DEF Working
    <2> QED
      BY <1>1, <1>2, <1>3, <2>1, InitKept
  <1> QED
    BY <1>5, <1>6, <1>7 DEF ListingInv

\* What the daemon makes of an item: of the parts that init stored it changes
\* none, and what it hides or closes offers nothing.
LEMMA DaemonMoves ==
    ASSUME NEW x \in StockType
    PROVE  /\ \A y \in {Opened(x), Closed(x), Hidden(x)} :
                /\ y \in StockType /\ y.market = x.market /\ y.booked = x.booked
                /\ y.account = x.account /\ y.ordered = x.ordered /\ y.matches = x.matches
                /\ y.sold = x.sold
           /\ Opened(x).show = x.show /\ Opened(x).deleted = x.deleted
           /\ Hidden(x).show = FALSE /\ Hidden(x).deleted = x.deleted /\ Hidden(x).live = 0
           /\ x.sold => Closed(x) = x
           /\ ~x.sold => ~Closed(x).show /\ Closed(x).live = 0
           /\ x.live > 0 =>
                /\ Matched(x) \in StockType /\ Matched(x).market = x.market
                /\ Matched(x).booked = x.booked /\ Matched(x).account = x.account
                /\ Matched(x).ordered = x.ordered /\ Matched(x).matches = x.matches + 1
                /\ Matched(x).show = x.show /\ Matched(x).deleted = x.deleted
  <1>1. x.live \in Nat /\ x.row \in Nat /\ x.matches \in Nat /\ x.row + 1 \in Nat /\ x.matches + 1 \in Nat
    BY DEF StockType
  <1>2. /\ Opened(x) \in StockType /\ Opened(x).market = x.market /\ Opened(x).booked = x.booked
        /\ Opened(x).account = x.account /\ Opened(x).ordered = x.ordered
        /\ Opened(x).matches = x.matches /\ Opened(x).sold = x.sold
        /\ Opened(x).show = x.show /\ Opened(x).deleted = x.deleted
    <2>1. PICK l, n \in Nat : l = 1 /\ n = x.row + 1
      BY <1>1
    <2>2. Opened(x) = [x EXCEPT !.live = l, !.row = n]
      BY <2>1 DEF Opened
    <2>3. Opened(x) \in StockType
      BY <2>2 DEF StockType
    <2> QED
      BY <2>2, <2>3 DEF StockType
  <1>3. /\ Hidden(x) \in StockType /\ Hidden(x).market = x.market /\ Hidden(x).booked = x.booked
        /\ Hidden(x).account = x.account /\ Hidden(x).ordered = x.ordered
        /\ Hidden(x).matches = x.matches /\ Hidden(x).sold = x.sold
        /\ Hidden(x).show = FALSE /\ Hidden(x).deleted = x.deleted /\ Hidden(x).live = 0
    <2>1. PICK l, n \in Nat : l = 0 /\ n = IF x.live > 0 THEN 0 ELSE x.row
      BY <1>1
    <2>2. Hidden(x) = [x EXCEPT !.show = FALSE, !.live = l, !.row = n]
      BY <2>1 DEF Hidden
    <2>3. Hidden(x) \in StockType
      BY <2>2 DEF StockType
    <2> QED
      BY <2>1, <2>2, <2>3 DEF StockType
  <1>4. /\ Closed(x) \in StockType /\ Closed(x).market = x.market /\ Closed(x).booked = x.booked
        /\ Closed(x).account = x.account /\ Closed(x).ordered = x.ordered
        /\ Closed(x).matches = x.matches /\ Closed(x).sold = x.sold
        /\ x.sold => Closed(x) = x
        /\ ~x.sold => ~Closed(x).show /\ Closed(x).live = 0
    BY DEF Closed, StockType
  <1>5. ASSUME x.live > 0
        PROVE  /\ Matched(x) \in StockType /\ Matched(x).market = x.market
               /\ Matched(x).booked = x.booked /\ Matched(x).account = x.account
               /\ Matched(x).ordered = x.ordered /\ Matched(x).matches = x.matches + 1
               /\ Matched(x).show = x.show /\ Matched(x).deleted = x.deleted
    <2>1. PICK l, m, n \in Nat : /\ l = x.live - 1 /\ m = x.matches + 1
                                 /\ n = IF x.row > 0 THEN x.row - 1 ELSE 0
      <3>1. x.live - 1 \in Nat /\ (IF x.row > 0 THEN x.row - 1 ELSE 0) \in Nat
        BY <1>1, <1>5
      <3> QED
        BY <1>1, <3>1
    <2>2. Matched(x) = [x EXCEPT !.live = l, !.sold = TRUE, !.matches = m, !.row = n]
      BY <2>1 DEF Matched
    <2> QED
      BY <2>1, <2>2 DEF StockType
  <1> QED
    BY <1>2, <1>3, <1>4, <1>5

\* The first message is taken out of the queue.
LEMMA Tailed ==
    ASSUME TypeOK, queue # <<>>, queue' = Tail(queue)
    PROVE  /\ Head(queue) \in Messages /\ Head(queue) = queue[1] /\ 1 \in DOMAIN queue
           /\ queue' \in Seq(Messages)
           /\ \A n \in DOMAIN queue' : n + 1 \in DOMAIN queue /\ n + 1 # 1 /\ queue'[n] = queue[n + 1]
           /\ \A n \in DOMAIN queue \ {1} :
                \E i \in DOMAIN queue' : n = i + 1 /\ queue'[i] = queue[n]
           /\ \A n, i \in DOMAIN queue' : n + 1 = i + 1 => n = i
  <1>1. queue \in Seq(Messages)
    BY DEF TypeOK
  <1>2. /\ Head(queue) \in Messages /\ queue' \in Seq(Messages) /\ Len(queue') = Len(queue) - 1
        /\ \A n \in 1 .. Len(queue') : queue'[n] = queue[n + 1]
    BY <1>1, HeadTailProperties
  <1>3. /\ Len(queue) \in Nat /\ DOMAIN queue = 1 .. Len(queue) /\ Len(queue') \in Nat
        /\ DOMAIN queue' = 1 .. Len(queue')
    BY <1>1, <1>2, LenProperties
  <1>4. Head(queue) = queue[1]
    BY DEF Head
  <1>5. ASSUME NEW n \in DOMAIN queue \ {1}
        PROVE  \E i \in DOMAIN queue' : n = i + 1 /\ queue'[i] = queue[n]
    <2>1. n - 1 \in DOMAIN queue' /\ n = (n - 1) + 1
      BY <1>2, <1>3
    <2> QED
      BY <1>2, <1>3, <2>1
  <1> QED
    BY <1>2, <1>3, <1>4, <1>5

\* What a message makes of its item.
After(x, type) ==
    CASE type = "order" -> IF x.live > 0 THEN Matched(x) ELSE Opened(x)
      [] type = "delete" -> Closed(x)
      [] type = "status" -> Hidden(x)

\* The message that is handled keeps the invariant.
LEMMA HandleKeeps ==
    ASSUME ListingInv, Handle
    PROVE  ListingInv'
  <1>0. PICK msg, s, j, x : msg = Head(queue) /\ s = msg.stock /\ j = msg.job /\ x = stock[s]
    OBVIOUS
  <1> DEFINE isTrade == msg.type = "order" /\ x.live > 0
             y == After(x, msg.type)
             answered == Answered(msg, Tail(queue))
             r == IF ~answered THEN job[j]
                  ELSE IF msg.type = "status" THEN [job[j] EXCEPT !.phase = "mail"] ELSE Idle
  <1>1. TypeOK /\ RowInv /\ InitInv
    BY DEF ListingInv
  <1>2. /\ queue # <<>> /\ queue' = Tail(queue)
        /\ UNCHANGED <<discarded, market, resaved, made, crashes>>
    BY DEF Handle
  <1>3. /\ msg \in Messages /\ msg = queue[1] /\ 1 \in DOMAIN queue /\ queue' \in Seq(Messages)
        /\ \A n \in DOMAIN queue' : n + 1 \in DOMAIN queue /\ n + 1 # 1 /\ queue'[n] = queue[n + 1]
        /\ \A n \in DOMAIN queue \ {1} :
             \E i \in DOMAIN queue' : n = i + 1 /\ queue'[i] = queue[n]
        /\ \A n, i \in DOMAIN queue' : n + 1 = i + 1 => n = i
    BY <1>0, <1>1, <1>2, Tailed
  <1>4. /\ s \in Stocks /\ j \in Jobs /\ msg.type \in {"order", "delete", "status"}
        /\ x \in StockType /\ job[j] \in Requests
    <2>1. s \in Stocks /\ j \in Jobs /\ msg.type \in {"order", "delete", "status"}
      BY <1>0, <1>1, <1>3 DEF TypeOK, Messages
    <2> QED
      BY <1>0, <1>1, <2>1, RowsTyped
  <1>5. /\ stock' = [stock EXCEPT ![s] = y]
        /\ trades' = (IF isTrade THEN [trades EXCEPT ![s] = @ + 1] ELSE trades)
        /\ missed' = (IF ~x.booked \/ (msg.type = "order" /\ (~x.show \/ x.deleted))
                      THEN missed \cup {s} ELSE missed)
        /\ unsent' = (IF msg.type = "status" THEN unsent \ {s} ELSE unsent)
    <2>1. stock' = [stock EXCEPT ![s] =
                 CASE msg.type = "order" -> IF isTrade THEN Matched(x) ELSE Opened(x)
                   [] msg.type = "delete" -> Closed(x)
                   [] msg.type = "status" -> Hidden(x)]
      BY <1>0 DEF Handle
    <2>2. y = CASE msg.type = "order" -> IF isTrade THEN Matched(x) ELSE Opened(x)
                [] msg.type = "delete" -> Closed(x)
                [] msg.type = "status" -> Hidden(x)
      BY <1>4 DEF After
    <2> HIDE DEF y
    <2> QED
      BY <1>0, <2>1, <2>2 DEF Handle
  <1>6. job' = [job EXCEPT ![j] = r]
    <2>1. job' = IF ~answered THEN job
                 ELSE [job EXCEPT ![j] =
                          IF msg.type = "status" THEN [@ EXCEPT !.phase = "mail"] ELSE Idle]
      BY <1>0 DEF Handle
    <2> QED
      BY <1>1, <1>4, <2>1 DEF TypeOK
  <1>7. /\ y \in StockType /\ y.market = x.market /\ y.booked = x.booked
        /\ y.account = x.account /\ y.ordered = x.ordered
        /\ y.matches = IF isTrade THEN x.matches + 1 ELSE x.matches
    BY <1>4, DaemonMoves DEF After
  <1>8. /\ msg.type = "order" => y.show = x.show /\ y.deleted = x.deleted
        /\ msg.type = "status" =>
             ~y.show /\ y.deleted = x.deleted /\ y.live = 0 /\ y.sold = x.sold
        /\ msg.type = "delete" =>
             /\ x.sold => y = x
             /\ ~x.sold => ~y.show /\ y.live = 0 /\ ~y.sold
    <2>1. /\ msg.type = "status" => y = Hidden(x)
          /\ msg.type = "delete" => y = Closed(x)
          /\ msg.type = "order" => y = IF isTrade THEN Matched(x) ELSE Opened(x)
      BY <1>4 DEF After
    <2>2. isTrade => x.live > 0
      BY <1>4
    <2>3. /\ Hidden(x).sold = x.sold /\ Closed(x).sold = x.sold
          /\ Hidden(x).show = FALSE /\ Hidden(x).deleted = x.deleted /\ Hidden(x).live = 0
          /\ x.sold => Closed(x) = x
          /\ ~x.sold => ~Closed(x).show /\ Closed(x).live = 0
      BY <1>4, DaemonMoves
    <2>4. /\ Opened(x).show = x.show /\ Opened(x).deleted = x.deleted
          /\ x.live > 0 => Matched(x).show = x.show /\ Matched(x).deleted = x.deleted
      BY <1>4, DaemonMoves
    <2> QED
      BY <2>1, <2>2, <2>3, <2>4
  <1>9. answered => job[j].op = msg.type /\ job[j].phase = "wait"
    BY <1>0 DEF Answered
  <1>10. answered => /\ r \in Requests /\ ~OnStock(r) /\ ~OnMarket(r) /\ r.op # "init"
                     /\ r.op = "status" => r.phase = "mail"
    <2>1. CASE answered /\ msg.type = "status"
      <3>1. job[j] \in Statuses
        BY <1>4, <1>9, <2>1, Kinds
      <3>2. r \in Statuses /\ r.op = "status" /\ r.phase = "mail"
        BY <2>1, <3>1 DEF Statuses
      <3> QED
        BY <2>1, <3>2, KindsAreRequests DEF OnStock, OnMarket
    <2>2. CASE answered /\ msg.type # "status"
      BY <2>2, IdleIsQuiet
    <2> QED
      BY <2>1, <2>2
  <1>11. ~answered => r = job[j]
    OBVIOUS
  <1> HIDE DEF y, r, answered
  <1>12. /\ stock' \in Seq(StockType) /\ Stocks' = Stocks /\ stock'[s] = y
         /\ \A t \in Stocks \ {s} : stock'[t] = stock[t]
         /\ \A t \in Stocks : stock'[t].market \in Markets
    BY <1>0, <1>1, <1>4, <1>5, <1>7, StockMoves
  <1>13. /\ trades' \in Seq(Nat) /\ DOMAIN trades' = Stocks
         /\ trades'[s] = IF isTrade THEN trades[s] + 1 ELSE trades[s]
         /\ \A t \in Stocks \ {s} : trades'[t] = trades[t]
    <2>1. CASE isTrade
      <3>1. trades \in Seq(Nat) /\ DOMAIN trades = Stocks /\ trades[s] \in Nat
        BY <1>1, <1>4, RowsTyped DEF TypeOK
      <3>2. PICK n \in Nat : n = trades[s] + 1
        BY <3>1
      <3>3. trades' = [trades EXCEPT ![s] = n]
        BY <1>5, <2>1, <3>2
      <3>4. /\ trades' \in Seq(Nat) /\ DOMAIN trades' = DOMAIN trades /\ trades'[s] = n
            /\ \A t \in DOMAIN trades \ {s} : trades'[t] = trades[t]
        BY <1>4, <3>1, <3>3, Replaced
      <3> QED
        BY <2>1, <3>1, <3>2, <3>4
    <2>2. CASE ~isTrade
      BY <1>1, <1>5, <2>2 DEF TypeOK
    <2> QED
      BY <2>1, <2>2
  <1> HIDE DEF isTrade
  <1>14. /\ missed \subseteq missed' /\ resaved \cup missed' \cup unsent' \subseteq Stocks
         /\ \A t \in Stocks \ {s} : t \in unsent => t \in unsent'
         /\ msg.type # "status" => unsent' = unsent
    BY <1>1, <1>4, <1>5 DEF TypeOK
  <1>15. Markets' = Markets
    BY <1>2 DEF Markets
  <1>16. JobsTyped' /\ job'[j] = r /\ \A k \in Jobs \ {j} : job'[k] = job[k]
    <2>1. r \in Requests /\ (OnStock(r) => r.item \in Stocks) /\ (OnMarket(r) => r.item \in Markets)
      BY <1>1, <1>4, <1>10, <1>11 DEF TypeOK
    <2> QED
      BY <1>1, <1>4, <1>6, <1>12, <1>15, <2>1, JobMoves
  <1>17. TypeOK'
    <2>1. QueueTyped'
      BY <1>1, <1>3, <1>12 DEF QueueTyped, TypeOK
    <2>2. TablesTyped'
      BY <1>1, <1>2, <1>12, <1>13, <1>14, <1>15 DEF TypeOK, TablesTyped, MarketType
    <2> QED
      BY <1>16, <2>1, <2>2, TypePartsNext
  <1>18. \A t : Creating(t) => Creating(t)'
    <2>1. \A k \in Jobs : job[k].op = "init" => job'[k] = job[k]
      BY <1>4, <1>9, <1>11, <1>16
    <2> QED
      BY <2>1 DEF Creating
  <1>19. ASSUME NEW t, crashes = 0, Hiding(t), t # s \/ msg.type # "status"
         PROVE  Hiding(t)'
    <2>1. ASSUME NEW k \in Jobs, job[k].op = "status", job[k].phase = "send", job[k].item = t
          PROVE  Hiding(t)'
      <3>1. job'[k] = job[k]
        BY <1>9, <1>11, <1>16, <2>1
      <3> QED
        BY <2>1, <3>1 DEF Hiding
    <2>2. ASSUME NEW n \in DOMAIN queue, queue[n].type = "status", queue[n].stock = t
          PROVE  Hiding(t)'
      <3>1. n # 1
        BY <1>0, <1>3, <1>19, <2>2
      <3> QED
        BY <1>3, <2>2, <3>1 DEF Hiding
    <2> QED
      BY <1>19, <2>1, <2>2 DEF Hiding
  <1>20. RowOK(s)'
    <2>1. RowOK(s)
      BY <1>1, <1>4 DEF RowInv
    <2>2. s \notin resaved \cup missed' =>
            /\ x.booked
            /\ msg.type = "order" => x.show /\ ~x.deleted
      BY <1>5
    <2>3. s \notin resaved \cup missed' /\ y.deleted => ~y.sold /\ y.live = 0
      <3>1. CASE msg.type = "order"
        BY <1>8, <2>2, <3>1
      <3>2. CASE msg.type = "status"
        BY <1>0, <1>8, <1>14, <2>1, <3>2 DEF RowOK
      <3>3. CASE msg.type = "delete"
        BY <1>0, <1>8, <1>14, <2>1, <3>3 DEF RowOK
      <3> QED
        BY <1>4, <3>1, <3>2, <3>3
    <2>4. s \notin resaved \cup missed' /\ ~y.show /\ ~Hiding(s)' /\ s \notin unsent' /\ crashes = 0
            => y.live = 0
      <3>1. CASE msg.type = "order"
        BY <1>8, <2>2, <3>1
      <3>2. CASE msg.type = "status"
        BY <1>8, <3>2
      <3>3. CASE msg.type = "delete"
        BY <1>0, <1>8, <1>14, <1>19, <2>1, <3>3 DEF RowOK
      <3> QED
        BY <1>4, <3>1, <3>2, <3>3
    <2>5. s \notin resaved => y.matches = trades'[s]
      <3>1. x.matches \in Nat /\ trades[s] \in Nat
        BY <1>1, <1>4, RowsTyped DEF StockType
      <3> QED
        BY <1>0, <1>7, <1>13, <2>1, <3>1 DEF RowOK
    <2>6. /\ y.ordered => y.account
          /\ ~Creating(s)' /\ crashes = 0 => y.account /\ y.ordered /\ y.booked
      BY <1>0, <1>7, <1>18, <2>1 DEF RowOK
    <2> QED
      BY <1>2, <1>7, <1>12, <2>2, <2>3, <2>4, <2>5, <2>6 DEF RowOK
  <1>21. RowInv'
    <2>1. ASSUME NEW t \in Stocks \ {s}
          PROVE  RowOK(t)'
      <3>1. RowOK(t) /\ stock'[t] = stock[t] /\ trades'[t] = trades[t]
        BY <1>1, <1>12, <1>13 DEF RowInv
      <3>2. crashes' = 0 =>
              crashes = 0 /\ (Creating(t) => Creating(t)') /\ (Hiding(t) => Hiding(t)')
        BY <1>2, <1>18, <1>19
      <3> QED
        BY <1>2, <1>14, <3>1, <3>2, RowKept
    <2> QED
      BY <1>12, <1>20, <2>1 DEF RowInv
  <1>22. InitInv'
    <2>1. \A t \in Stocks : /\ stock'[t].booked => stock[t].booked
                            /\ stock[t].account => stock'[t].account
                            /\ stock[t].ordered => stock'[t].ordered
      BY <1>0, <1>7, <1>12
    <2>2. ASSUME NEW k \in Jobs
          PROVE  job'[k] = job[k] \/ (~Working(k) /\ ~Working(k)')
      <3>1. CASE k = j /\ answered
        BY <1>4, <1>9, <1>10, <1>16, <3>1 DEF Working
      <3>2. CASE k = j /\ ~answered
        BY <1>11, <1>16, <3>2
      <3>3. CASE k # j
        BY <1>16, <3>3
      <3> QED
        BY <3>1, <3>2, <3>3
    <2>3. ASSUME NEW k \in Jobs, Working(k)'
          PROVE  InitOK(k)'
      <3>1. Working(k) /\ job'[k] = job[k] /\ job[k].item \in Stocks /\ InitOK(k)
        BY <1>1, <2>2, <2>3 DEF Working, TypeOK, OnStock, InitInv
      <3>2. \A i \in Jobs \ {k} : Working(i)' => job'[i].item # job[k].item
        BY <2>2, <3>1 DEF InitOK, Working
      <3> QED
        BY <2>1, <3>1, <3>2 DEF InitOK
    <2> QED
      BY <2>3 DEF InitInv, InitOK
  <1> QED
    BY <1>17, <1>21, <1>22 DEF ListingInv

----------------------------------------------------------------------------
(* The specification                                                        *)

\* One market item, with a complete stock item or none, is in order.
LEMMA ListingInit == Init => ListingInv
  <1> SUFFICES ASSUME Init PROVE ListingInv
    OBVIOUS
  <1>1. PICK v \in Videos : market = <<[video |-> v, show |-> TRUE, deleted |-> FALSE]>>
    BY DEF Init
  <1>2. /\ market \in Seq(MarketType) /\ Markets = {1} /\ market[1].video = v
    BY <1>1 DEF MarketType, Markets
  <1>3. /\ job \in [Jobs -> Requests] /\ \A j \in Jobs : job[j] = Idle
        /\ queue = <<>> /\ queue \in Seq(Messages) /\ DOMAIN queue = {}
        /\ resaved = {} /\ missed = {} /\ unsent = {} /\ discarded = {} /\ crashes = 0 /\ made = 0
    BY IdleIsQuiet DEF Init
  <1>4. /\ Complete(1) \in StockType /\ Complete(1).market = 1 /\ Complete(1).show
        /\ ~Complete(1).deleted /\ Complete(1).matches = 0 /\ Complete(1).account
        /\ Complete(1).ordered /\ Complete(1).booked
    BY <1>2 DEF Complete, NewStock, StockType
  <1>5. CASE stock = <<>> /\ trades = <<>>
    <2>1. Stocks = {} /\ stock \in Seq(StockType) /\ trades \in Seq(Nat) /\ DOMAIN trades = {}
      BY <1>5 DEF Stocks
    <2>2. TypeOK
      BY <1>2, <1>3, <2>1, IdleIsQuiet DEF TypeOK, MarketType
    <2>3. RowInv /\ InitInv
      BY <1>3, <2>1, IdleIsQuiet DEF RowInv, InitInv, InitOK, Working
    <2> QED
      BY <2>2, <2>3 DEF ListingInv
  <1>6. CASE stock = <<Complete(1)>> /\ trades = <<0>>
    <2>1. /\ Stocks = {1} /\ stock[1] = Complete(1) /\ trades[1] = 0 /\ trades \in Seq(Nat)
          /\ DOMAIN trades = {1}
      BY <1>6 DEF Stocks
    <2>2. stock \in Seq(StockType)
      BY <1>4, <1>6
    <2>3. TypeOK
      BY <1>2, <1>3, <1>4, <2>1, <2>2, IdleIsQuiet DEF TypeOK, MarketType
    <2>4. RowOK(1)
      BY <1>3, <1>4, <2>1 DEF RowOK
    <2>5. RowInv /\ InitInv
      BY <1>3, <2>1, <2>4, IdleIsQuiet DEF RowInv, InitInv, InitOK, Working
    <2> QED
      BY <2>3, <2>5 DEF ListingInv
  <1> QED
    BY <1>5, <1>6 DEF Init

\* A step that changes nothing keeps the invariant.
LEMMA StutterKeeps ==
    ASSUME ListingInv, UNCHANGED vars
    PROVE  ListingInv'
  BY DEF ListingInv, vars, TypeOK, InitInv, InitOK, Working, RowInv, RowOK, Creating, Hiding,
         Stocks, Markets

\* Every step keeps the invariant.
LEMMA ListingNext == ListingInv /\ [Next]_vars => ListingInv'
  <1> SUFFICES ASSUME ListingInv, [Next]_vars PROVE ListingInv'
    OBVIOUS
  <1>1. CASE UNCHANGED vars
    BY <1>1, StutterKeeps
  <1>2. CASE Handle
    BY <1>2, HandleKeeps
  <1>3. ASSUME NEW j \in Jobs, Start(j)
        PROVE  ListingInv'
    BY <1>3, StartKeeps
  <1>4. ASSUME NEW j \in Jobs, \/ CreateMarketItem(j) \/ SendEmail(j) \/ Discard(j)
                           \/ DeleteMarket(j) \/ GetStockItem(j) \/ GiveUp(j)
        PROVE  ListingInv'
    BY <1>4, MarketKeeps
  <1>5. ASSUME NEW j \in Jobs, CreateStockItem(j) \/ SaveNext(j)
        PROVE  ListingInv'
    BY <1>5, CreateStockItemKeeps, SaveNextKeeps
  <1>6. ASSUME NEW j \in Jobs, Save(j) \/ DeleteStock(j)
        PROVE  ListingInv'
    BY <1>6, SaveKeeps, DeleteStockKeeps
  <1>7. ASSUME NEW j \in Jobs, UpdateShowStatus(j) \/ RollbackShowStatus(j)
        PROVE  ListingInv'
    BY <1>7, UpdateShowStatusKeeps, RollbackKeeps
  <1>8. ASSUME NEW j \in Jobs, SendMessage(j) \/ SendFails(j) \/ Crash(j)
        PROVE  ListingInv'
    BY <1>8, SendMessageKeeps, SendFailsKeeps, CrashKeeps
  <1> QED
    BY <1>1, <1>2, <1>3, <1>4, <1>5, <1>6, <1>7, <1>8 DEF Next

\* The invariant holds always.
LEMMA ListingAlways == Spec => []ListingInv
  <1> QED
    BY ListingInit, ListingNext, PTL DEF Spec

\* Every variable has its type, and every request and message is about an item
\* that there is (ApiStockController, AdminMarketService, MatchingDaemonService).
THEOREM ListingTypeCorrect == Spec => []TypeOK
  <1>1. ListingInv => TypeOK
    BY DEF ListingInv
  <1> QED
    BY <1>1, ListingAlways, PTL

\* What init stores of an item refers to what is there, and all of it is there
\* when no init is at work on the item, unless a handler ended half-way, with whatever
\* other requests run in between (ApiStockController.init).
THEOREM ItemsAreComplete == Spec => []ItemIsComplete
  <1>1. ListingInv => ItemIsComplete
    BY DEF ListingInv, RowInv, RowOK, ItemIsComplete
  <1> QED
    BY <1>1, ListingAlways, PTL

\* An item that is not shown offers nothing once the request that hid it is
\* through, and one that was deleted belonged to its owner alone: but for what the
\* daemon handled behind the item's back, a save of an older value, and a hiding
\* of which the daemon was not told, because its message was not sent or the
\* handler did not know the item yet (updateShowStatus, delete and the daemon's
\* DELETE and HIDE_ITEM).
THEOREM ClosedItemsAreClosed == Spec => []ClosedIsClosed
  <1>1. ListingInv => ClosedIsClosed
    BY DEF ListingInv, RowInv, RowOK, ClosedIsClosed, HiddenHasNoOrders, DeletedIsWhole
  <1> QED
    BY <1>1, ListingAlways, PTL

\* match_cnt loses a match only to a save of an older value
\* (MatchingDaemonService.execute, ApiStockController.detail and update).
THEOREM MatchesAlwaysCounted == Spec => []MatchesAreCounted
  <1>1. ListingInv => MatchesAreCounted
    BY DEF ListingInv, RowInv, RowOK, MatchesAreCounted
  <1> QED
    BY <1>1, ListingAlways, PTL

============================================================================
