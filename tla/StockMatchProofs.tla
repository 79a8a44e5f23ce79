-------------------------- MODULE StockMatchProofs --------------------------
(***************************************************************************)
(* Theorems about the matching engine for every set of users, prices and   *)
(* volumes, every fee and every number of messages: its types, the life of *)
(* an order and its turn, and then shares, points and book.  What is said  *)
(* of the tables holds of the working ones and of the committed ones, and  *)
(* a handler step either works on the tables, commits or restores them.    *)
(***************************************************************************)
EXTENDS StockMatch, TableLemmas

BookType == [Keys -> Nat \cup {NoRow}]

-----------------------------------------------------------------------------
\* Lemmas about the operators of the model.

\* A cost is a number of points, and its fee is a part of it.
LEMMA CostType ==
    ASSUME NEW a \in Nat, NEW v \in Nat
    PROVE  /\ Cost(a, v) \in Nat /\ Fee(a, v) \in Nat
           /\ Cost(a, v) - Fee(a, v) \in Nat
  <1> DEFINE x == a * v
  <1>1. x \in Nat
    OBVIOUS
  <1> HIDE DEF x
  <1>2. FeeDen * x \in Nat /\ FeeNum * x \in Nat
    BY <1>1, FeeAssumption
  <1>3. (FeeDen - FeeNum) * x \in Nat /\ FeeDen - FeeNum \in Nat
    BY <1>1, FeeAssumption
  <1>4. FeeDen * x - FeeNum * x = (FeeDen - FeeNum) * x
    BY <1>1, FeeAssumption
  <1> QED
    BY <1>2, <1>3, <1>4 DEF Cost, Fee, x

\* The cost of two parts of a volume is the cost of the volume.
LEMMA CostSplit ==
    ASSUME NEW a \in Nat, NEW v \in Nat, NEW w \in Nat
    PROVE  Cost(a, v + w) = Cost(a, v) + Cost(a, w)
  <1>1. a * (v + w) = a * v + a * w
    OBVIOUS
  <1> DEFINE x == a * v
             y == a * w
  <1>2. x \in Nat /\ y \in Nat
    OBVIOUS
  <1> HIDE DEF x, y
  <1>3. FeeDen * (x + y) = FeeDen * x + FeeDen * y
    BY <1>2, FeeAssumption
  <1> QED
    BY <1>1, <1>3 DEF Cost, x, y

\* The oldest of some ids exists: it is one of them and none is below it.
LEMMA OldestIsFirst ==
    ASSUME NEW ids \in SUBSET Nat, ids # {}
    PROVE  /\ Oldest(ids) \in ids
           /\ \A j \in ids : Oldest(ids) <= j
  BY LowestId DEF Oldest

\* The key that a well-formed request matches is a key of the book.
LEMMA MatchKeyType ==
    ASSUME NEW m, m = msg, m.amount \in Amounts
    PROVE  MatchKey \in Keys
  BY DEF MatchKey, Keys, Sides, Opposite, Side

\* upsertOrderBook leaves a book of natural numbers.
LEMMA UpsertType ==
    ASSUME NEW b \in BookType, NEW k \in Keys, NEW v \in Nat, NEW open \in BOOLEAN
    PROVE  UpsertOrderBook(b, k, v, open) \in BookType
  BY DEF UpsertOrderBook, BookType, AbsOf, NoRow

\* The rows of a table of orders are finitely many.
LEMMA DomainFinite ==
    ASSUME NEW T, NEW os \in Seq(T)
    PROVE  IsFiniteSet(DOMAIN os) /\ DOMAIN os \subseteq Nat
  <1>1. DOMAIN os = 1..Len(os) /\ Len(os) \in Nat
    BY LenProperties
  <1> QED
    BY <1>1, FS_Interval

\* What one order holds, and what all of them hold, is a natural number.
LEMMA HeldType ==
    ASSUME NEW o \in OrderType
    PROVE  Held(o) \in Nat
  <1>1. o.amount \in Nat /\ o.volume \in Nat
    BY AmountsAssumption DEF OrderType
  <1> QED
    BY <1>1, CostType DEF Held

\* The points held by live BUY orders are a natural number.
LEMMA EscrowType ==
    ASSUME NEW os \in Seq(OrderType)
    PROVE  /\ Escrow(os) \in Nat
           /\ \A some \in SUBSET DOMAIN os :
                 /\ HeldBy(os, some) \in Nat /\ HeldBy(os, DOMAIN os \ some) \in Nat
                 /\ HeldBy(os, some) + HeldBy(os, DOMAIN os \ some) = Escrow(os)
  <1> DEFINE f == [i \in DOMAIN os |-> Held(os[i])]
  <1>1. ASSUME NEW i \in DOMAIN os
        PROVE  f[i] \in Nat
    BY ElementOfSeq, LenProperties, HeldType
  <1>2. IsFiniteSet(DOMAIN os)
    BY DomainFinite
  <1> HIDE DEF f
  <1>3. SumOver(DOMAIN os, f) \in Nat
    BY <1>1, <1>2, SumNat
  <1>4. ASSUME NEW some \in SUBSET DOMAIN os
        PROVE  /\ SumOver(some, f) \in Nat /\ SumOver(DOMAIN os \ some, f) \in Nat
               /\ SumOver(some, f) + SumOver(DOMAIN os \ some, f) = SumOver(DOMAIN os, f)
    <2> DEFINE rest == DOMAIN os \ some
    <2>1. /\ IsFiniteSet(some) /\ IsFiniteSet(rest)
          /\ some \cap rest = {} /\ some \cup rest = DOMAIN os
      BY <1>2, FS_Subset
    <2> HIDE DEF rest
    <2>2. \A i \in some \cup rest : f[i] \in Nat
      BY <1>1, <2>1
    <2>3. SumOver(some \cup rest, f) = SumOver(some, f) + SumOver(rest, f)
      BY <2>1, <2>2, SumUnion
    <2>4. SumOver(some, f) \in Nat /\ SumOver(rest, f) \in Nat
      BY <2>1, <2>2, SumNat
    <2> QED
      BY <2>1, <2>3, <2>4 DEF rest
  <1> QED
    BY <1>3, <1>4 DEF Escrow, HeldBy, f

\* Closing the orders of an item leaves a table of orders of the same length.
LEMMA ClosedType ==
    ASSUME NEW os \in Seq(OrderType), NEW status \in Statuses
    PROVE  /\ Closed(os, status) \in Seq(OrderType)
           /\ DOMAIN Closed(os, status) = DOMAIN os
  <1>1. DOMAIN os = 1..Len(os) /\ Len(os) \in Nat
    BY LenProperties
  <1>2. ASSUME NEW i \in DOMAIN os
        PROVE  [os[i] EXCEPT !.status = status,
                  !.cancelRows = IF IsLive(os[i]) THEN @ + 1 ELSE @] \in OrderType
    <2>1. os[i] \in OrderType
      BY <1>1, ElementOfSeq
    <2>2. (IF IsLive(os[i]) THEN os[i].cancelRows + 1 ELSE os[i].cancelRows) \in Nat
      BY <2>1 DEF OrderType
    <2> DEFINE c == IF IsLive(os[i]) THEN os[i].cancelRows + 1 ELSE os[i].cancelRows
    <2>3. [os[i] EXCEPT !.status = status, !.cancelRows = c] \in OrderType
      <3> HIDE DEF c
      <3> QED
        BY <2>1, <2>2 DEF OrderType, c
    <2> QED
      BY <2>3
  <1>3. Closed(os, status) \in [1..Len(os) -> OrderType]
    BY <1>1, <1>2 DEF Closed
  <1> QED
    BY <1>1, <1>3, SeqDef

\* A new order is an order.
LEMMA NewOrderType ==
    ASSUME NEW user \in Users, NEW side \in Sides, NEW amount \in Amounts,
           NEW volume \in Nat
    PROVE  NewOrder(user, side, amount, volume) \in OrderType
  BY DEF NewOrder, OrderType, Statuses

\* What a match does to an order that has the volume.
LEMMA FilledType ==
    ASSUME NEW o \in OrderType, NEW volume \in Nat, volume <= o.volume
    PROVE  Filled(o, volume) \in OrderType
  <1> DEFINE v == o.volume - volume
             f == o.filled + volume
             s == IF volume = o.volume THEN "COMPLETE" ELSE o.status
  <1>1. v \in Nat /\ f \in Nat /\ s \in Statuses
    BY DEF OrderType, Statuses
  <1> HIDE DEF v, f, s
  <1>2. [o EXCEPT !.volume = v, !.filled = f, !.status = s] \in OrderType
    BY <1>1 DEF OrderType
  <1> QED
    BY <1>2 DEF Filled, v, f, s

-----------------------------------------------------------------------------
\* Type correctness.  The types of the tables do not depend on one another,
\* except that the message under way names an order, a price and a volume
\* that exist and that no more than its volume is left of it.
PhaseInv ==
    /\ phase \in {"fill", "settle", "modify"} =>
           msg.amount \in Amounts /\ msg.volume \in Volumes /\ rem <= msg.volume
    /\ phase \in {"modify", "cancel"} => msg.order \in DOMAIN orders

\* The types of the tables one by one.
WorkingType ==
    /\ orders \in Seq(OrderType) /\ book \in BookType
    /\ balance \in [Users -> Nat] /\ shares \in [Users -> Nat]
    /\ item \in [isDeleted : BOOLEAN, isShow : BOOLEAN]
    /\ matchCnt \in Nat /\ fees \in Nat /\ unpaid \in Nat

\* The variables of the handler.
HandlerType ==
    /\ seen \subseteq Keys
    /\ phase \in {"idle", "fill", "settle", "modify", "cancel", "delete",
                  "hide", "reply"}
    /\ msg \in MsgType
    /\ rem \in Nat /\ settled \in Nat
    /\ fills \in Seq(FillType)
    /\ received \in Nat /\ announced \in Nat /\ unfunded \in Nat /\ unrefunded \in Nat
    /\ repriced \subseteq Nat /\ swept \in BOOLEAN

TypeInv == WorkingType /\ committed \in TablesType /\ HandlerType /\ PhaseInv

\* The working tables are typed exactly when each of them is.
LEMMA TablesTyped == Tables \in TablesType <=> WorkingType
  BY DEF Tables, TablesType, WorkingType, BookType

\* A rollback gives the tables the types of their committed values.
LEMMA RestoreTyped ==
    ASSUME committed \in TablesType, Restore
    PROVE  WorkingType' /\ committed' \in TablesType
  BY DEF Restore, TablesType, WorkingType, BookType

\* A commit gives the committed values the types of the tables.
LEMMA CommitTyped ==
    ASSUME WorkingType', Commit
    PROVE  committed' \in TablesType
  BY DEF Commit, Tables, TablesType, WorkingType, BookType

\* Messages have the type of msg.
LEMMA MessagesTyped ==
    ASSUME WorkingType, NEW m \in Messages
    PROVE  /\ m \in MsgType
           /\ m.type # "NONE"
           /\ m.type \in {"BUY", "SELL", "MODIFY_BUY", "MODIFY_SELL"} =>
                  m.amount \in Amounts /\ m.volume \in Volumes
           /\ m.type \in {"MODIFY_BUY", "MODIFY_SELL", "CANCEL"} =>
                  m.order \in DOMAIN orders
  <1>1. DOMAIN orders \subseteq Nat
    BY DomainFinite DEF WorkingType
  <1> USE UsersAssumption, AmountsAssumption
  <1>2. QED
    <2>1. CASE m \in [type : {"BUY", "SELL"} \cap MsgTypes, user : Users, order : {0},
                      amount : Amounts, volume : Volumes]
      <3>1. /\ m.type \in {"BUY", "SELL"} /\ m.user \in Users
            /\ m.order = 0 /\ m.amount \in Amounts /\ m.volume \in Volumes
            /\ m = [type |-> m.type, user |-> m.user, order |-> m.order,
                    amount |-> m.amount, volume |-> m.volume]
        BY <2>1
      <3>2. m.order \in Nat /\ m.amount \in Nat /\ m.volume \in Nat
        BY <3>1
      <3>3. m \in MsgType
        BY <3>1, <3>2 DEF MsgType
      <3> QED
        BY <3>1, <3>3
    <2>2. CASE m \in [type : {"MODIFY_BUY", "MODIFY_SELL"} \cap MsgTypes, user : Users,
                      order : DOMAIN orders, amount : Amounts, volume : Volumes]
      <3>1. /\ m.type \in {"MODIFY_BUY", "MODIFY_SELL"} /\ m.user \in Users
            /\ m.order \in DOMAIN orders /\ m.amount \in Amounts /\ m.volume \in Volumes
            /\ m = [type |-> m.type, user |-> m.user, order |-> m.order,
                    amount |-> m.amount, volume |-> m.volume]
        BY <2>2
      <3>2. m.order \in Nat /\ m.amount \in Nat /\ m.volume \in Nat
        BY <1>1, <3>1
      <3>3. m \in MsgType
        BY <3>1, <3>2 DEF MsgType
      <3> QED
        BY <3>1, <3>3
    <2>3. CASE m \in [type : {"CANCEL"} \cap MsgTypes, user : Users,
                      order : DOMAIN orders, amount : {0}, volume : {0}]
      BY <1>1, <2>3 DEF MsgType
    <2>4. CASE m \in [type : {"DELETE"} \cap MsgTypes, user : Users, order : {0},
                      amount : {0}, volume : {0}]
      BY <2>4 DEF MsgType
    <2>5. CASE m \in [type : {"HIDE_ITEM"} \cap MsgTypes, user : {Owner}, order : {0},
                      amount : {0}, volume : {0}]
      BY <2>5 DEF MsgType
    <2> QED
      BY <2>1, <2>2, <2>3, <2>4, <2>5 DEF Messages

\* The inductive invariant contains the type invariant.
LEMMA TypeInvImplies == TypeInv => TypeOK
  BY TablesTyped DEF TypeInv, HandlerType, TypeOK

\* The initial states are typed.
LEMMA TypeInit == Init => TypeInv
  <1> SUFFICES ASSUME Init
               PROVE  TypeInv
    OBVIOUS
  <1>1. PICK volume \in Volumes, amount \in Amounts :
           /\ orders = <<NewOrder(Owner, "SELL", amount, volume)>>
           /\ book = [k \in Keys |-> IF k = <<"SELL", amount>> THEN volume ELSE NoRow]
    BY DEF Init
  <1>2. NewOrder(Owner, "SELL", amount, volume) \in OrderType
    BY NewOrderType, UsersAssumption, AmountsAssumption DEF Sides
  <1>3. orders \in Seq(OrderType)
    BY <1>1, <1>2
  <1>4. book \in BookType
    BY <1>1, AmountsAssumption DEF BookType
  <1>5. FeeDen * Funds \in Nat
    BY FeeAssumption, SharesAssumption
  <1>6. WorkingType
    BY <1>3, <1>4, <1>5, SharesAssumption DEF Init, WorkingType
  <1>7. committed \in TablesType
    BY <1>6, TablesTyped DEF Init
  <1>8. HandlerType
    <2>1. msg \in MsgType
      BY UsersAssumption DEF Init, NoMsg, MsgType
    <2>2. fills \in Seq(FillType)
      BY DEF Init
    <2> QED
      BY <2>1, <2>2 DEF Init, HandlerType
  <1> QED
    BY <1>6, <1>7, <1>8 DEF TypeInv, PhaseInv, Init

\* Receiving a message keeps the types: the message is well formed.
LEMMA TypeReceive ==
    ASSUME TypeInv, NEW m \in Messages, Receive(m)
    PROVE  TypeInv'
  <1>1. WorkingType' /\ committed' \in TablesType
    BY DEF TypeInv, WorkingType, Receive, tables
  <1>2. /\ m \in MsgType
        /\ m.type # "NONE"
        /\ m.type \in {"BUY", "SELL", "MODIFY_BUY", "MODIFY_SELL"} =>
               m.amount \in Amounts /\ m.volume \in Volumes
        /\ m.type \in {"MODIFY_BUY", "MODIFY_SELL", "CANCEL"} =>
               m.order \in DOMAIN orders
    BY MessagesTyped DEF TypeInv
  <1>3. m.volume \in Nat
    BY <1>2 DEF MsgType
  <1>4. HandlerType'
    BY <1>2, <1>3 DEF TypeInv, HandlerType, Receive, RowsOf, IsModify
  <1>5. PhaseInv'
    BY <1>2, <1>3 DEF PhaseInv, Receive, IsModify, tables
  <1> QED
    BY <1>1, <1>4, <1>5 DEF TypeInv

\* What a match is made of: the oldest of the resting orders at the price, and
\* a volume that the order has and the request still asks for.
Filling(i, volume, buyer, seller) ==
    /\ i \in DOMAIN orders /\ orders[i] \in OrderType
    /\ i \in Resting /\ \A j \in Resting : i <= j
    /\ volume <= rem /\ volume <= orders[i].volume
    /\ orders[i].volume > 0 => volume > 0
    /\ orders' = [orders EXCEPT ![i] = Filled(orders[i], volume)]
    /\ balance' = [balance EXCEPT ![seller] =
                      @ + (Cost(orders[i].amount, volume) - Fee(orders[i].amount, volume))]
    /\ fees' = fees + Fee(orders[i].amount, volume)
    /\ unpaid' = unpaid + (IF orders[i].type = "SELL"
                           THEN Cost(orders[i].amount, volume) ELSE 0)
    /\ fills' = Append(fills, [order |-> i, buyer |-> buyer,
                               seller |-> seller, volume |-> volume])
    /\ rem' = rem - volume

\* Fill, with its order, volume, buyer and seller named.
LEMMA FillStep ==
    ASSUME TypeInv, Fill
    PROVE  \E i \in Nat, volume \in Nat, buyer \in Users, seller \in Users :
              Filling(i, volume, buyer, seller)
  <1> DEFINE i == Oldest(Resting)
             o == orders[i]
             volume == IF rem < o.volume THEN rem ELSE o.volume
             buyer == IF Side(msg) = "BUY" THEN msg.user ELSE o.user
             seller == IF Side(msg) = "BUY" THEN o.user ELSE msg.user
  <1>1. Resting \subseteq DOMAIN orders /\ DOMAIN orders \subseteq Nat
    BY DomainFinite DEF Resting, LiveAt, TypeInv, WorkingType
  <1>2. i \in Resting /\ \A j \in Resting : i <= j
    BY <1>1, OldestIsFirst DEF Fill
  <1>3. i \in DOMAIN orders /\ i \in Nat /\ o \in OrderType
    BY <1>1, <1>2, LenProperties, ElementOfSeq DEF TypeInv, WorkingType
  <1>4. o.volume \in Nat /\ rem \in Nat /\ rem > 0
    BY <1>3 DEF OrderType, TypeInv, HandlerType, Fill
  <1>5. o.user \in Users /\ msg.user \in Users
    BY <1>3 DEF OrderType, TypeInv, HandlerType, MsgType
  <1>6. /\ orders' = [orders EXCEPT ![i] = Filled(o, volume)]
        /\ balance' = DepositToPoint(seller, Cost(o.amount, volume) - Fee(o.amount, volume), TRUE)
        /\ fees' = fees + Fee(o.amount, volume)
        /\ unpaid' = unpaid + (IF o.type = "SELL" THEN Cost(o.amount, volume) ELSE 0)
        /\ fills' = Append(fills, [order |-> i, buyer |-> buyer,
                                   seller |-> seller, volume |-> volume])
        /\ rem' = rem - volume
    BY DEF Fill
  <1>7. buyer \in Users /\ seller \in Users
    BY <1>5
  <1>8. /\ volume \in Nat /\ volume <= rem /\ volume <= o.volume
        /\ o.volume > 0 => volume > 0
    BY <1>4
  <1> HIDE DEF volume, buyer, seller, i
  <1>9. Filling(i, volume, buyer, seller)
    BY <1>2, <1>3, <1>6, <1>8 DEF Filling, DepositToPoint
  <1> QED
    BY <1>3, <1>7, <1>8, <1>9

\* A match keeps the types: no order has less than it gives.
LEMMA TypeFill ==
    ASSUME TypeInv, Fill
    PROVE  TypeInv'
  <1>1. PICK i \in Nat, volume \in Nat, buyer \in Users, seller \in Users :
           Filling(i, volume, buyer, seller)
    BY FillStep
  <1> DEFINE o == orders[i]
             cost == Cost(o.amount, volume)
             fee == Fee(o.amount, volume)
  <1>2. i \in DOMAIN orders /\ o \in OrderType /\ volume <= o.volume
    BY <1>1 DEF Filling
  <1>3. cost \in Nat /\ fee \in Nat /\ cost - fee \in Nat
    BY <1>2, AmountsAssumption, CostType DEF OrderType
  <1>4. Filled(o, volume) \in OrderType
    BY <1>2, FilledType
  <1>5. orders' \in Seq(OrderType) /\ DOMAIN orders' = DOMAIN orders
    BY <1>1, <1>2, <1>4, ExceptSeq, LenProperties DEF Filling, TypeInv, WorkingType
  <1> HIDE DEF cost, fee
  <1>6. balance' = [balance EXCEPT ![seller] = @ + (cost - fee)]
    BY <1>1 DEF Filling, cost, fee
  <1>7. balance' \in [Users -> Nat]
    BY <1>3, <1>6 DEF TypeInv, WorkingType
  <1>8. fees' \in Nat /\ unpaid' \in Nat
    <2>1. fees' = fees + fee
      BY <1>1 DEF Filling, fee
    <2>2. unpaid' = unpaid + (IF o.type = "SELL" THEN cost ELSE 0)
      BY <1>1 DEF Filling, cost
    <2> QED
      BY <1>3, <2>1, <2>2 DEF TypeInv, WorkingType
  <1>9. WorkingType'
    BY <1>5, <1>7, <1>8 DEF TypeInv, WorkingType, Fill
  <1>10. fills' \in Seq(FillType)
    <2>1. [order |-> i, buyer |-> buyer, seller |-> seller, volume |-> volume] \in FillType
      BY DEF FillType
    <2> QED
      BY <1>1, <2>1, AppendProperties DEF Filling, TypeInv, HandlerType
  <1>11. rem' \in Nat /\ rem' <= rem
    BY <1>1 DEF Filling, TypeInv, HandlerType
  <1>12. HandlerType'
    BY <1>10, <1>11 DEF TypeInv, HandlerType, Fill, history
  <1>13. PhaseInv'
    <2>1. msg.volume \in Nat /\ rem \in Nat
      BY DEF TypeInv, HandlerType, MsgType
    <2> QED
      BY <1>5, <1>11, <2>1 DEF TypeInv, PhaseInv, Fill
  <1> QED
    BY <1>9, <1>12, <1>13 DEF TypeInv, Fill

\* The end of the matching loop keeps the types.
LEMMA TypeFillDone ==
    ASSUME TypeInv, FillDone
    PROVE  TypeInv'
  BY DEF TypeInv, WorkingType, HandlerType, PhaseInv, FillDone, tables, history

\* A transfer of shares keeps the types: the seller holds what is sold.
LEMMA TypeSettle ==
    ASSUME TypeInv, Settle
    PROVE  TypeInv'
  <1> DEFINE f == fills[settled + 1]
  <1>1. f \in FillType
    BY ElementOfSeq, LenProperties DEF Settle, TypeInv, HandlerType
  <1>2. f.buyer \in Users /\ f.seller \in Users /\ f.volume \in Nat
    BY <1>1 DEF FillType
  <1> HIDE DEF f
  <1>3. Credit(f) \in [Users -> Nat]
    BY <1>2 DEF Credit, TypeInv, WorkingType
  <1>4. shares' \in [Users -> Nat]
    BY <1>2, <1>3 DEF Settle, Transfer, CanTransfer, f
  <1>5. WorkingType' /\ HandlerType' /\ PhaseInv'
    BY <1>4 DEF TypeInv, WorkingType, HandlerType, PhaseInv, Settle, history
  <1> QED
    BY <1>5 DEF TypeInv, Settle

\* A rollback ends the handler with the committed tables.
LEMMA TypeRollback ==
    ASSUME TypeInv, Rollback
    PROVE  TypeInv'
  <1>1. WorkingType' /\ committed' \in TablesType
    BY RestoreTyped DEF TypeInv, Rollback
  <1>2. HandlerType' /\ PhaseInv'
    BY DEF TypeInv, HandlerType, PhaseInv, Rollback, history
  <1> QED
    BY <1>1, <1>2 DEF TypeInv

\* The book after the matches is a book: no more is taken from it than the
\* request asked for.
LEMMA MatchedBookType ==
    ASSUME TypeInv, phase = "settle"
    PROVE  MatchedBook \in BookType
  <1>1. msg.amount \in Amounts /\ msg.volume \in Nat /\ rem \in Nat /\ rem <= msg.volume
    BY DEF TypeInv, PhaseInv, HandlerType, MsgType
  <1>2. MatchKey \in Keys
    BY <1>1, MatchKeyType
  <1>3. msg.volume - rem \in Nat
    BY <1>1
  <1>4. UpsertOrderBook(book, MatchKey, msg.volume - rem, FALSE) \in BookType
    BY <1>2, <1>3, UpsertType DEF TypeInv, WorkingType
  <1> QED
    BY <1>4 DEF MatchedBook, TypeInv, WorkingType

\* A commit without a new order keeps the types.
LEMMA TypeFinish ==
    ASSUME TypeInv, Finish
    PROVE  TypeInv'
  <1>1. book' \in BookType
    BY MatchedBookType DEF Finish, AllSettled
  <1>2. Len(fills) \in Nat
    BY LenProperties DEF TypeInv, HandlerType
  <1>3. WorkingType'
    BY <1>1, <1>2 DEF TypeInv, WorkingType, Finish
  <1>4. committed' \in TablesType
    BY <1>3, CommitTyped DEF Finish
  <1>5. HandlerType' /\ PhaseInv'
    BY DEF TypeInv, HandlerType, PhaseInv, Finish, history
  <1> QED
    BY <1>3, <1>4, <1>5 DEF TypeInv

\* A new order keeps the types: its BUY price can be withdrawn.
LEMMA TypeOpenRemainder ==
    ASSUME TypeInv, OpenRemainder
    PROVE  TypeInv'
  <1> DEFINE cost == Cost(msg.amount, rem)
             new == NewOrder(msg.user, Side(msg), msg.amount, rem)
  <1>1. /\ phase = "settle" /\ msg.amount \in Amounts /\ msg.user \in Users
        /\ rem \in Nat /\ Side(msg) \in Sides
    BY DEF OpenRemainder, OpensRemainder, AllSettled, TypeInv, HandlerType, PhaseInv,
           MsgType, Side, Sides
  <1>2. cost \in Nat
    BY <1>1, AmountsAssumption, CostType
  <1>3. new \in OrderType
    BY <1>1, NewOrderType
  <1> HIDE DEF cost, new
  <1>4. orders' \in Seq(OrderType)
    BY <1>3, AppendProperties DEF OpenRemainder, TypeInv, WorkingType, new
  <1>5. <<Side(msg), msg.amount>> \in Keys
    BY <1>1 DEF Keys
  <1>6. book' \in BookType
    BY <1>1, <1>5, MatchedBookType, UpsertType DEF OpenRemainder
  <1>7. balance' \in [Users -> Nat]
    <2>1. balance' = IF Side(msg) = "BUY"
                     THEN [balance EXCEPT ![msg.user] = @ - cost] ELSE balance
      BY DEF OpenRemainder, cost
    <2>2. Side(msg) = "BUY" => balance[msg.user] >= cost
      BY DEF OpenRemainder, CanWithdraw, cost
    <2> QED
      BY <1>1, <1>2, <2>1, <2>2 DEF TypeInv, WorkingType
  <1>8. Len(fills) \in Nat
    BY LenProperties DEF TypeInv, HandlerType
  <1>9. WorkingType'
    <2>1. /\ shares' = shares /\ item' = item /\ fees' = fees /\ unpaid' = unpaid
          /\ matchCnt' = matchCnt + Len(fills)
      BY DEF OpenRemainder
    <2> QED
      BY <1>4, <1>6, <1>7, <1>8, <2>1 DEF TypeInv, WorkingType
  <1>10. committed' \in TablesType
    BY <1>9, CommitTyped DEF OpenRemainder
  <1>11. HandlerType' /\ PhaseInv'
    BY DEF TypeInv, HandlerType, PhaseInv, OpenRemainder, history
  <1> QED
    BY <1>9, <1>10, <1>11 DEF TypeInv

\* What modifyOrder does, with the refund and the charge it manages to make.
Modifying(i, new, given, charged) ==
    /\ i = msg.order /\ i \in DOMAIN orders /\ orders[i] \in OrderType
    /\ Modifiable(msg)
    /\ msg.user \in Users /\ msg.amount \in Amounts /\ msg.volume \in Volumes
    /\ rem <= msg.volume
    /\ new = Cost(msg.amount, msg.volume) /\ charged \in {0, new}
    /\ orders' = [orders EXCEPT ![i] = Modified(orders[i], msg)]
    /\ Refund(orders[i]) \in Nat /\ given \in {0, Refund(orders[i])}
    /\ orders[i].type = "BUY" =>
          /\ balance' = [u \in Users |->
                IF u = msg.user THEN balance[u] + given - charged ELSE balance[u]]
          /\ charged <= balance[msg.user] + given
          /\ unfunded' = unfunded + (new - charged)
          /\ unrefunded' = unrefunded + (Refund(orders[i]) - given)
    /\ orders[i].type # "BUY" =>
          balance' = balance /\ unfunded' = unfunded /\ unrefunded' = unrefunded

\* Modify, with its order, new price and charge named.
LEMMA ModifyStep ==
    ASSUME TypeInv, Modify
    PROVE  \E i \in Nat, new \in Nat, given \in Nat, charged \in Nat :
              Modifying(i, new, given, charged)
  <1> DEFINE i == msg.order
             o == orders[i]
             new == Cost(msg.amount, msg.volume)
  <1>0. PICK back, paid \in BOOLEAN :
           LET refunded == DepositToPoint(msg.user, Refund(o), back)
               charged == IF paid /\ refunded[msg.user] >= new THEN new ELSE 0
           IN  /\ orders' = [orders EXCEPT ![i] = Modified(o, msg)]
               /\ o.type = "BUY" =>
                     /\ balance' = [refunded EXCEPT ![msg.user] = @ - charged]
                     /\ unfunded' = unfunded + (new - charged)
                     /\ unrefunded' = unrefunded + Missed(Refund(o), back)
               /\ o.type # "BUY" =>
                     balance' = balance /\ unfunded' = unfunded /\ unrefunded' = unrefunded
    BY DEF Modify
  <1> DEFINE refunded == DepositToPoint(msg.user, Refund(o), back)
             charged == IF paid /\ refunded[msg.user] >= new THEN new ELSE 0
             given == IF back THEN Refund(o) ELSE 0
  <1>1. /\ i \in DOMAIN orders /\ i \in Nat /\ o \in OrderType
    BY DomainFinite, LenProperties, ElementOfSeq DEF Modify, TypeInv, PhaseInv, WorkingType
  <1>2. /\ msg.user \in Users /\ msg.amount \in Amounts /\ msg.volume \in Volumes
        /\ rem <= msg.volume
    BY DEF Modify, TypeInv, PhaseInv, HandlerType, MsgType
  <1>3. new \in Nat
    BY <1>2, AmountsAssumption, CostType
  <1>4. Refund(o) \in Nat /\ given \in Nat /\ Missed(Refund(o), back) = Refund(o) - given
    <2>1. Refund(o) \in Nat
      BY <1>1, AmountsAssumption, CostType DEF Refund, OrderType
    <2> HIDE DEF o
    <2>2. CASE back
      BY <2>1, <2>2 DEF Missed
    <2>3. CASE ~back
      BY <2>1, <2>3 DEF Missed
    <2> QED
      BY <2>1, <2>2, <2>3
  <1>5. /\ refunded = [balance EXCEPT ![msg.user] = balance[msg.user] + given]
        /\ refunded[msg.user] = balance[msg.user] + given
        /\ balance[msg.user] \in Nat /\ balance \in [Users -> Nat]
    <2>1. balance[msg.user] \in Nat /\ balance \in [Users -> Nat]
      BY <1>2 DEF TypeInv, WorkingType
    <2> HIDE DEF o
    <2>2. CASE back
      BY <1>2, <1>4, <2>1, <2>2 DEF DepositToPoint
    <2>3. CASE ~back
      BY <1>2, <1>4, <2>1, <2>3 DEF DepositToPoint
    <2> QED
      BY <2>2, <2>3
  <1>6. /\ orders' = [orders EXCEPT ![i] = Modified(o, msg)]
        /\ given \in {0, Refund(o)}
    BY <1>0
  <1>7. /\ o.type = "BUY" =>
             /\ balance' = [refunded EXCEPT ![msg.user] = @ - charged]
             /\ unfunded' = unfunded + (new - charged)
             /\ unrefunded' = unrefunded + (Refund(o) - given)
        /\ o.type # "BUY" =>
              balance' = balance /\ unfunded' = unfunded /\ unrefunded' = unrefunded
    BY <1>0, <1>4
  <1>8. Modifiable(msg)
    BY DEF Modify
  <1> HIDE DEF new, refunded, given
  <1>9. charged \in {0, new} /\ charged \in Nat /\ charged <= balance[msg.user] + given
    BY <1>3, <1>4, <1>5
  <1> HIDE DEF charged
  <1>10. [refunded EXCEPT ![msg.user] = @ - charged]
           = [u \in Users |-> IF u = msg.user THEN balance[u] + given - charged
                              ELSE balance[u]]
    <2>1. DOMAIN refunded = Users
      BY <1>5
    <2>2. \A u \in Users : refunded[u] = IF u = msg.user THEN balance[u] + given
                                         ELSE balance[u]
      BY <1>5
    <2>3. [refunded EXCEPT ![msg.user] = @ - charged]
            = [u \in Users |-> IF u = msg.user THEN refunded[u] - charged ELSE refunded[u]]
      BY <2>1
    <2>4. \A u \in Users :
             (IF u = msg.user THEN refunded[u] - charged ELSE refunded[u])
               = IF u = msg.user THEN balance[u] + given - charged ELSE balance[u]
      <3> TAKE u \in Users
      <3>1. CASE u = msg.user
        BY <1>4, <1>5, <1>9, <2>2, <3>1
      <3>2. CASE u # msg.user
        BY <2>2, <3>2
      <3> QED
        BY <3>1, <3>2
    <2>5. [u \in Users |-> IF u = msg.user THEN refunded[u] - charged ELSE refunded[u]]
            = [u \in Users |-> IF u = msg.user THEN balance[u] + given - charged
                               ELSE balance[u]]
      BY <2>4, Zenon
    <2> QED
      BY <2>3, <2>5
  <1>11. Modifying(i, new, given, charged)
    BY <1>1, <1>2, <1>4, <1>6, <1>7, <1>8, <1>9, <1>10 DEF Modifying, new
  <1> QED
    BY <1>1, <1>3, <1>4, <1>9, <1>11

\* A modified order is an order.
LEMMA ModifiedType ==
    ASSUME NEW o \in OrderType, NEW m, m.amount \in Amounts, m.volume \in Volumes
    PROVE  Modified(o, m) \in OrderType
  <1> DEFINE origin == IF o.volume # m.volume THEN m.volume ELSE o.originVolume
  <1>1. origin \in Nat /\ m.volume \in Nat
    BY AmountsAssumption DEF OrderType
  <1> HIDE DEF origin
  <1>2. [o EXCEPT !.amount = m.amount, !.volume = m.volume, !.originVolume = origin]
          \in OrderType
    BY <1>1 DEF OrderType
  <1> QED
    BY <1>2 DEF Modified, origin

\* A cancelled order is an order.
LEMMA CanceledType ==
    ASSUME NEW o \in OrderType
    PROVE  Canceled(o) \in OrderType
  <1> DEFINE c == o.cancelRows + 1
  <1>1. c \in Nat
    BY DEF OrderType
  <1> HIDE DEF c
  <1>2. [o EXCEPT !.status = "CANCELED", !.cancelRows = c] \in OrderType
    BY <1>1 DEF OrderType, Statuses
  <1> QED
    BY <1>2 DEF Canceled, c

\* A modification keeps the types: a charge is withdrawn only if it can be.
LEMMA TypeModify ==
    ASSUME TypeInv, Modify
    PROVE  TypeInv'
  <1>1. PICK i \in Nat, new \in Nat, given \in Nat, charged \in Nat :
           Modifying(i, new, given, charged)
    BY ModifyStep
  <1> DEFINE o == orders[i]
  <1>2. /\ i = msg.order /\ i \in DOMAIN orders /\ o \in OrderType
        /\ msg.user \in Users /\ msg.amount \in Amounts /\ msg.volume \in Volumes
        /\ charged \in {0, new} /\ rem <= msg.volume
    BY <1>1 DEF Modifying
  <1>3. orders' \in Seq(OrderType) /\ DOMAIN orders' = DOMAIN orders
    <2> DEFINE e == Modified(o, msg)
    <2>1. e \in OrderType
      BY <1>2, ModifiedType
    <2>2. orders' = [orders EXCEPT ![i] = e]
      BY <1>1 DEF Modifying
    <2> HIDE DEF e
    <2> QED
      BY <1>2, <2>1, <2>2, ExceptSeq, LenProperties DEF TypeInv, WorkingType
  <1>4. book' \in BookType
    <2>1. <<o.type, o.amount>> \in Keys /\ <<o.type, msg.amount>> \in Keys /\ o.volume \in Nat
          /\ msg.volume \in Nat
      BY <1>2, AmountsAssumption DEF OrderType, Keys
    <2> DEFINE removed == UpsertOrderBook(book, <<o.type, o.amount>>, o.volume, FALSE)
    <2>2. removed \in BookType
      BY <2>1, UpsertType DEF TypeInv, WorkingType
    <2>3. book' = UpsertOrderBook(removed, <<o.type, msg.amount>>, msg.volume, TRUE)
      BY <1>2 DEF Modify
    <2> HIDE DEF removed
    <2> QED
      BY <2>1, <2>2, <2>3, UpsertType
  <1>5. balance' \in [Users -> Nat] /\ unfunded' \in Nat /\ unrefunded' \in Nat
    <2>1. balance \in [Users -> Nat] /\ unfunded \in Nat /\ unrefunded \in Nat
      BY DEF TypeInv, WorkingType, HandlerType
    <2>2. Refund(o) \in Nat /\ given \in {0, Refund(o)}
      BY <1>1 DEF Modifying
    <2>3. CASE o.type = "BUY"
      <3>1. /\ balance' = [u \in Users |->
                              IF u = msg.user THEN balance[u] + given - charged ELSE balance[u]]
            /\ charged <= balance[msg.user] + given
            /\ unfunded' = unfunded + (new - charged)
            /\ unrefunded' = unrefunded + (Refund(o) - given)
        BY <1>1, <2>3 DEF Modifying
      <3> QED
        BY <1>2, <2>1, <2>2, <3>1
    <2>4. CASE o.type # "BUY"
      BY <1>1, <2>1, <2>4 DEF Modifying
    <2> QED
      BY <2>3, <2>4
  <1>6. WorkingType'
    <2>1. UNCHANGED <<shares, item, matchCnt, fees, unpaid>>
      BY DEF Modify
    <2> QED
      BY <1>3, <1>4, <1>5, <2>1 DEF TypeInv, WorkingType
  <1>7. committed' \in TablesType
    BY <1>6, CommitTyped DEF Modify
  <1>8. phase' \in {"fill", "reply"} /\ repriced' \subseteq Nat
    <2>1. i = msg.order
      BY <1>2
    <2>2. \/ phase' = "fill" /\ repriced' = repriced \cup {msg.order}
          \/ phase' = "reply" /\ repriced' = repriced
      BY DEF Modify
    <2> QED
      BY <2>1, <2>2 DEF TypeInv, HandlerType
  <1>9. /\ seen' = RowsOf(book')
        /\ UNCHANGED <<msg, rem, fills, settled, received, announced, swept>>
    BY DEF Modify
  <1>10. HandlerType'
    BY <1>5, <1>8, <1>9 DEF TypeInv, HandlerType, RowsOf
  <1>11. PhaseInv'
    BY <1>2, <1>8, <1>9 DEF PhaseInv
  <1> QED
    BY <1>6, <1>7, <1>10, <1>11 DEF TypeInv

\* What cancelOrder gives back of a BUY order: all of it or nothing.
GivingBack(o, given) ==
    /\ given \in {0, Refund(o)}
    /\ o.type = "BUY" =>
          /\ balance' = [balance EXCEPT ![msg.user] = @ + given]
          /\ unrefunded' = unrefunded + (Refund(o) - given)
    /\ o.type # "BUY" => balance' = balance /\ unrefunded' = unrefunded

\* Cancel, with its refund named.
LEMMA CancelStep ==
    ASSUME TypeInv, Cancel
    PROVE  \E given \in Nat : GivingBack(orders[msg.order], given)
  <1> DEFINE o == orders[msg.order]
  <1>1. o \in OrderType /\ msg.user \in Users /\ balance \in [Users -> Nat]
    BY LenProperties, ElementOfSeq
       DEF Cancel, TypeInv, PhaseInv, WorkingType, HandlerType, MsgType
  <1>2. Refund(o) \in Nat
    BY <1>1, AmountsAssumption, CostType DEF Refund, OrderType
  <1>3. PICK back \in BOOLEAN :
           IF o.type = "BUY"
           THEN /\ balance' = DepositToPoint(msg.user, Refund(o), back)
                /\ unrefunded' = unrefunded + Missed(Refund(o), back)
           ELSE UNCHANGED <<balance, unrefunded>>
    BY DEF Cancel
  <1> HIDE DEF o
  <1>4. CASE back
    <2>1. GivingBack(o, Refund(o))
      BY <1>2, <1>3, <1>4 DEF GivingBack, DepositToPoint, Missed
    <2> QED
      BY <1>2, <2>1 DEF o
  <1>5. CASE ~back
    <2>1. balance = [balance EXCEPT ![msg.user] = @ + 0]
      BY <1>1
    <2>2. GivingBack(o, 0)
      BY <1>2, <1>3, <1>5, <2>1 DEF GivingBack, DepositToPoint, Missed
    <2> QED
      BY <2>2 DEF o
  <1> QED
    BY <1>4, <1>5

\* A cancellation keeps the types.
LEMMA TypeCancel ==
    ASSUME TypeInv, Cancel
    PROVE  TypeInv'
  <1> DEFINE i == msg.order
             o == orders[i]
  <1>1. i \in DOMAIN orders /\ o \in OrderType /\ msg.user \in Users
    BY LenProperties, ElementOfSeq
       DEF Cancel, TypeInv, PhaseInv, WorkingType, HandlerType, MsgType
  <1>2. Refund(o) \in Nat
    BY <1>1, AmountsAssumption, CostType DEF Refund, OrderType
  <1>3. orders' \in Seq(OrderType)
    <2> DEFINE e == Canceled(o)
    <2>1. e \in OrderType
      BY <1>1, CanceledType
    <2>2. orders' = [orders EXCEPT ![i] = e]
      BY DEF Cancel
    <2> HIDE DEF e
    <2> QED
      BY <1>1, <2>1, <2>2, ExceptSeq, LenProperties DEF TypeInv, WorkingType
  <1>4. book' \in BookType
    <2>1. <<o.type, o.amount>> \in Keys /\ o.volume \in Nat
      BY <1>1 DEF OrderType, Keys
    <2>2. book' = UpsertOrderBook(book, <<o.type, o.amount>>, o.volume, FALSE)
      BY DEF Cancel
    <2> QED
      BY <2>1, <2>2, UpsertType DEF TypeInv, WorkingType
  <1>5. balance' \in [Users -> Nat] /\ unrefunded' \in Nat
    <2>1. PICK given \in Nat : GivingBack(o, given)
      BY CancelStep
    <2>2. balance \in [Users -> Nat] /\ unrefunded \in Nat /\ Refund(o) - given \in Nat
      BY <1>2, <2>1 DEF TypeInv, WorkingType, HandlerType, GivingBack
    <2> QED
      BY <1>1, <2>1, <2>2 DEF GivingBack
  <1>6. /\ UNCHANGED <<shares, item, matchCnt, fees, unpaid>>
        /\ UNCHANGED <<seen, msg, rem, fills, settled, received, announced, repriced,
                       unfunded, swept>>
        /\ phase' = "reply"
    BY DEF Cancel
  <1>7. WorkingType'
    BY <1>3, <1>4, <1>5, <1>6 DEF TypeInv, WorkingType
  <1>8. committed' \in TablesType
    BY <1>7, CommitTyped DEF Cancel
  <1>9. HandlerType' /\ PhaseInv'
    BY <1>5, <1>6 DEF TypeInv, HandlerType, PhaseInv
  <1> QED
    BY <1>7, <1>8, <1>9 DEF TypeInv

\* CloseOrders, with what is given back of the BUY orders, and what is not, named.
LEMMA CloseOrdersStep ==
    ASSUME TypeInv, NEW status, CloseOrders(status), AnyLive
    PROVE  \E given \in Nat, lost \in Nat :
              /\ given + lost = Escrow(orders)
              /\ balance' = [balance EXCEPT ![msg.user] = @ + given]
              /\ unrefunded' = unrefunded + lost
  <1>1. orders \in Seq(OrderType)
    BY DEF TypeInv, WorkingType
  <1>2. PICK back \in SUBSET {i \in DOMAIN orders : Held(orders[i]) # 0} :
           /\ balance' = [balance EXCEPT ![msg.user] = @ + HeldBy(orders, back)]
           /\ unrefunded' = unrefunded + HeldBy(orders, DOMAIN orders \ back)
    BY DEF CloseOrders
  <1>3. back \in SUBSET DOMAIN orders
    OBVIOUS
  <1>4. /\ HeldBy(orders, back) \in Nat /\ HeldBy(orders, DOMAIN orders \ back) \in Nat
        /\ HeldBy(orders, back) + HeldBy(orders, DOMAIN orders \ back) = Escrow(orders)
    BY <1>1, <1>3, EscrowType
  <1> QED
    BY <1>2, <1>4

\* Closing the orders of the item keeps the types of orders and accounts.
LEMMA CloseOrdersType ==
    ASSUME TypeInv, NEW status \in Statuses, CloseOrders(status)
    PROVE  orders' \in Seq(OrderType) /\ balance' \in [Users -> Nat] /\ unrefunded' \in Nat
  <1>1. /\ orders \in Seq(OrderType) /\ balance \in [Users -> Nat] /\ msg.user \in Users
        /\ unrefunded \in Nat
    BY DEF TypeInv, WorkingType, HandlerType, MsgType
  <1>2. Closed(orders, status) \in Seq(OrderType)
    BY <1>1, ClosedType
  <1>3. CASE AnyLive
    <2>1. orders' = Closed(orders, status)
      BY <1>3 DEF CloseOrders
    <2>2. PICK given \in Nat, lost \in Nat :
             /\ balance' = [balance EXCEPT ![msg.user] = @ + given]
             /\ unrefunded' = unrefunded + lost
      BY <1>3, CloseOrdersStep
    <2> QED
      BY <1>1, <1>2, <2>1, <2>2
  <1>4. CASE ~AnyLive
    BY <1>1, <1>4 DEF CloseOrders
  <1> QED
    BY <1>3, <1>4

\* Deleting or hiding the item keeps the types.
LEMMA TypeClose ==
    ASSUME TypeInv, Delete \/ HideItem
    PROVE  TypeInv'
  <1>1. orders' \in Seq(OrderType) /\ balance' \in [Users -> Nat] /\ unrefunded' \in Nat
    BY CloseOrdersType DEF Delete, HideItem, Statuses
  <1>2. book' \in BookType
    BY DEF Delete, HideItem, TypeInv, WorkingType, BookType
  <1>3. item' \in [isDeleted : BOOLEAN, isShow : BOOLEAN]
    <2>1. item \in [isDeleted : BOOLEAN, isShow : BOOLEAN]
      BY DEF TypeInv, WorkingType
    <2>2. CASE Delete
      BY <2>2 DEF Delete
    <2>3. CASE HideItem
      <3>1. item' = [item EXCEPT !.isShow = FALSE]
        BY <2>3 DEF HideItem
      <3> QED
        BY <2>1, <3>1
    <2> QED
      BY <2>2, <2>3
  <1>4. /\ UNCHANGED <<shares, matchCnt, fees, unpaid>>
        /\ UNCHANGED <<seen, msg, rem, fills, settled, received, announced, repriced,
                       unfunded, swept>>
        /\ phase' = "reply"
    BY DEF Delete, HideItem
  <1>5. WorkingType'
    BY <1>1, <1>2, <1>3, <1>4 DEF TypeInv, WorkingType
  <1>6. committed' \in TablesType
    BY <1>5, CommitTyped DEF Delete, HideItem
  <1>7. HandlerType' /\ PhaseInv'
    BY <1>1, <1>4 DEF TypeInv, HandlerType, PhaseInv
  <1> QED
    BY <1>5, <1>6, <1>7 DEF TypeInv

\* The message is done with.
LEMMA EndMessageType ==
    ASSUME EndMessage
    PROVE  /\ phase' = "idle" /\ msg' \in MsgType /\ rem' \in Nat
           /\ fills' \in Seq(FillType) /\ settled' \in Nat /\ seen' \subseteq Keys
  <1>1. msg' \in MsgType
    BY UsersAssumption DEF EndMessage, NoMsg, MsgType
  <1>2. fills' \in Seq(FillType)
    BY DEF EndMessage
  <1> QED
    BY <1>1, <1>2 DEF EndMessage

\* Sending the result keeps the types.
LEMMA TypeReply ==
    ASSUME TypeInv, Reply
    PROVE  TypeInv'
  <1>1. Len(fills) \in Nat
    BY LenProperties DEF TypeInv, HandlerType
  <1>2. WorkingType' /\ committed' \in TablesType
    BY DEF TypeInv, WorkingType, Reply, tables
  <1>3. HandlerType' /\ PhaseInv'
    BY <1>1, EndMessageType DEF TypeInv, HandlerType, PhaseInv, Reply
  <1> QED
    BY <1>2, <1>3 DEF TypeInv

\* A crash keeps the types.
LEMMA TypeCrash ==
    ASSUME TypeInv, Crash
    PROVE  TypeInv'
  <1>1. WorkingType' /\ committed' \in TablesType
    BY RestoreTyped DEF TypeInv, Crash
  <1>2. HandlerType' /\ PhaseInv'
    BY EndMessageType DEF TypeInv, HandlerType, PhaseInv, Crash, history
  <1> QED
    BY <1>1, <1>2 DEF TypeInv

\* The cleanup of the book's zero rows keeps the types.
LEMMA TypeBatchDelete ==
    ASSUME TypeInv, BatchDeleteOrderVolumeZero
    PROVE  TypeInv'
  <1>1. ASSUME NEW b \in BookType
        PROVE  WithoutZeroRows(b) \in BookType
    BY DEF WithoutZeroRows, BookType
  <1>2. book' \in BookType
    BY <1>1 DEF BatchDeleteOrderVolumeZero, TypeInv, WorkingType
  <1>3. committed.book \in BookType
    BY DEF TypeInv, TablesType, BookType
  <1>4. committed' \in TablesType
    BY <1>1, <1>3 DEF BatchDeleteOrderVolumeZero, TypeInv, TablesType, BookType
  <1>5. UNCHANGED <<orders, balance, shares, item, matchCnt, fees, unpaid,
                    handler, received, announced, repriced, unfunded, unrefunded>>
    BY DEF BatchDeleteOrderVolumeZero
  <1>6. swept' \in BOOLEAN
    BY DEF BatchDeleteOrderVolumeZero
  <1>7. WorkingType'
    BY <1>2, <1>5 DEF TypeInv, WorkingType
  <1>8. HandlerType' /\ PhaseInv'
    BY <1>5, <1>6 DEF TypeInv, HandlerType, PhaseInv, handler
  <1> QED
    BY <1>4, <1>7, <1>8 DEF TypeInv

\* Every step keeps the types.
LEMMA TypeNext == TypeInv /\ [Next]_vars => TypeInv'
  <1> SUFFICES ASSUME TypeInv, [Next]_vars
               PROVE  TypeInv'
    OBVIOUS
  <1>1. CASE \E m \in Messages : Receive(m)
    BY <1>1, TypeReceive
  <1>2. CASE Fill \/ FillDone
    BY <1>2, TypeFill, TypeFillDone
  <1>3. CASE Settle
    BY <1>3, TypeSettle
  <1>4. CASE SettleFails \/ OpenFails \/ QueryFails \/ Refuse
    BY <1>4, TypeRollback DEF SettleFails, OpenFails, QueryFails, Refuse
  <1>5. CASE Finish \/ OpenRemainder
    BY <1>5, TypeFinish, TypeOpenRemainder
  <1>6. CASE Modify \/ Cancel
    BY <1>6, TypeModify, TypeCancel
  <1>7. CASE Delete \/ HideItem
    BY <1>7, TypeClose
  <1>8. CASE Reply \/ Crash
    BY <1>8, TypeReply, TypeCrash
  <1>9. CASE BatchDeleteOrderVolumeZero
    BY <1>9, TypeBatchDelete
  <1>10. CASE UNCHANGED vars
    BY <1>10 DEF vars, tables, handler, history, TypeInv, WorkingType, HandlerType, PhaseInv
  <1> QED
    BY <1>1, <1>2, <1>3, <1>4, <1>5, <1>6, <1>7, <1>8, <1>9, <1>10 DEF Next

\* Every reachable state is typed.
LEMMA TypeAlways == Spec => []TypeInv
  BY TypeInit, TypeNext, PTL DEF Spec

\* No account and no share account is ever overdrawn, whatever is ordered,
\* refused, rolled back or delivered again: the checks of widthdrawFromPoint
\* and decreaseVolume suffice in every state the engine reaches.
THEOREM TypeCorrect == Spec => []TypeOK
  BY TypeAlways, TypeInvImplies, PTL

-----------------------------------------------------------------------------
\* Transactions.

\* What a step can do to the committed tables.
LEMMA CommittedStep ==
    ASSUME [Next]_vars
    PROVE  \/ committed' = Tables'
           \/ committed' = committed
           \/ committed' = [committed EXCEPT !.book = WithoutZeroRows(@)]
  BY DEF Next, vars, Receive, Fill, FillDone, Settle, SettleFails, Finish,
         OpenRemainder, OpenFails, QueryFails, Modify, Cancel, Delete, HideItem, Refuse, Reply,
         Crash, BatchDeleteOrderVolumeZero, Rollback, Restore, Commit

\* A rollback makes the working tables the committed ones.
LEMMA Restored ==
    ASSUME TypeInv, Restore
    PROVE  Tables' = committed /\ committed' = committed
  BY DEF Restore, Tables, TypeInv, TablesType

-----------------------------------------------------------------------------
(* The life of an order: what the live table says of it agrees with the rows   *)
(* recorded for it, and an order that is closed stays closed.  Both are facts  *)
(* of single rows, RowSound and RowKept, which every operation of the engine   *)
(* on a row preserves.  Then how orders meet: by price and age.                *)

RowSound(o) ==
    /\ o.status = "WAIT" => o.volume > 0
    /\ o.status = "COMPLETE" => o.volume = 0
    /\ o.originVolume <= o.volume + o.filled
    /\ o.cancelRows <= 1
    /\ IsLive(o) => o.cancelRows = 0

\* n may follow o as the row of one order.
RowKept(o, n) ==
    ~IsLive(o) => /\ ~IsLive(n)
                  /\ n.volume = o.volume
                  /\ n.filled = o.filled
                  /\ n.cancelRows = o.cancelRows

RowsSound(os) == \A i \in DOMAIN os : RowSound(os[i])
RowsKept(os, ns) == \A i \in DOMAIN os : i \in DOMAIN ns /\ RowKept(os[i], ns[i])

-----------------------------------------------------------------------------
\* The operations of the engine on one row.

\* updateOrderLive on a live order.
LEMMA FilledRow ==
    ASSUME NEW o \in OrderType, NEW volume \in Nat, volume <= o.volume,
           IsLive(o), RowSound(o)
    PROVE  RowSound(Filled(o, volume)) /\ RowKept(o, Filled(o, volume))
  <1> DEFINE n == Filled(o, volume)
  <1>1. /\ o.volume \in Nat /\ o.originVolume \in Nat /\ o.filled \in Nat
        /\ o.cancelRows \in Nat /\ o.status = "WAIT"
    BY DEF OrderType, IsLive
  <1>2. /\ n.volume = o.volume - volume /\ n.filled = o.filled + volume
        /\ n.status = IF volume = o.volume THEN "COMPLETE" ELSE o.status
        /\ n.originVolume = o.originVolume /\ n.cancelRows = o.cancelRows
    BY DEF Filled, OrderType
  <1> HIDE DEF n
  <1>3. RowSound(n)
    BY <1>1, <1>2 DEF RowSound, IsLive
  <1> QED
    BY <1>3 DEF RowKept, n

\* The update of modifyOrder on a live order.
LEMMA ModifiedRow ==
    ASSUME NEW o \in OrderType, NEW m, m.amount \in Amounts, m.volume \in Volumes,
           IsLive(o), RowSound(o)
    PROVE  RowSound(Modified(o, m)) /\ RowKept(o, Modified(o, m))
  <1> DEFINE n == Modified(o, m)
  <1>1. /\ o.volume \in Nat /\ o.originVolume \in Nat /\ o.filled \in Nat
        /\ m.volume \in Nat /\ m.volume > 0
    <2>1. o.volume \in Nat /\ o.originVolume \in Nat /\ o.filled \in Nat
      BY DEF OrderType
    <2>2. \A v \in Volumes : v \in Nat /\ v > 0
      BY AmountsAssumption
    <2> QED
      BY <2>1, <2>2
  <1>2. /\ n.volume = m.volume /\ n.filled = o.filled /\ n.status = o.status
        /\ n.originVolume = (IF o.volume # m.volume THEN m.volume ELSE o.originVolume)
        /\ n.cancelRows = o.cancelRows
    BY DEF Modified, OrderType
  <1> HIDE DEF n
  <1>3. RowSound(n)
    BY <1>1, <1>2 DEF RowSound, IsLive
  <1> QED
    BY <1>3 DEF RowKept, n

\* cancelOrder on a live order.
LEMMA CanceledRow ==
    ASSUME NEW o \in OrderType, IsLive(o), RowSound(o)
    PROVE  RowSound(Canceled(o)) /\ RowKept(o, Canceled(o))
  <1> DEFINE n == Canceled(o)
  <1>1. /\ n.volume = o.volume /\ n.filled = o.filled /\ n.status = "CANCELED"
        /\ n.originVolume = o.originVolume /\ n.cancelRows = o.cancelRows + 1
    BY DEF Canceled, OrderType
  <1> HIDE DEF n
  <1>2. RowSound(n)
    BY <1>1 DEF RowSound, IsLive
  <1> QED
    BY <1>2 DEF RowKept, n

\* openOrder, for what is left of a request.
LEMMA NewRow ==
    ASSUME NEW user, NEW side, NEW amount, NEW volume \in Nat, volume > 0
    PROVE  RowSound(NewOrder(user, side, amount, volume))
  BY DEF RowSound, NewOrder, IsLive

\* delete and hideItem relabel every row, and write a cancel row for the live
\* ones only.
LEMMA ClosedRows ==
    ASSUME NEW os \in Seq(OrderType), NEW status \in {"CANCELED", "HIDE"},
           RowsSound(os)
    PROVE  RowsSound(Closed(os, status)) /\ RowsKept(os, Closed(os, status))
  <1> DEFINE ns == Closed(os, status)
  <1>1. DOMAIN ns = DOMAIN os
    BY DEF Closed
  <1>2. ASSUME NEW i \in DOMAIN os
        PROVE  RowSound(ns[i]) /\ RowKept(os[i], ns[i])
    <2> DEFINE o == os[i]
               n == ns[i]
               c == IF IsLive(o) THEN o.cancelRows + 1 ELSE o.cancelRows
    <2>1. o \in OrderType /\ RowSound(o)
      BY ElementOfSeq, LenProperties DEF RowsSound
    <2>2. n = [o EXCEPT !.status = status, !.cancelRows = c]
      BY DEF Closed
    <2> HIDE DEF o, n, c
    <2>3. /\ n.volume = o.volume /\ n.filled = o.filled /\ n.status = status
          /\ n.originVolume = o.originVolume /\ n.cancelRows = c
      BY <2>1, <2>2 DEF OrderType
    <2>4. RowSound(n)
      BY <2>1, <2>3 DEF RowSound, IsLive, c
    <2>5. RowKept(o, n)
      BY <2>3 DEF RowKept, IsLive, c
    <2> QED
      BY <2>4, <2>5 DEF o, n
  <1> QED
    BY <1>1, <1>2 DEF RowsSound, RowsKept

-----------------------------------------------------------------------------
\* The operations on the table.

\* A table may follow itself.
LEMMA KeptReflexive ==
    ASSUME NEW os
    PROVE  RowsKept(os, os)
  BY DEF RowsKept, RowKept

\* What two steps keep, both together keep.
LEMMA KeptTransitive ==
    ASSUME NEW os, NEW ns, NEW ms, RowsKept(os, ns), RowsKept(ns, ms)
    PROVE  RowsKept(os, ms)
  BY DEF RowsKept, RowKept

\* One row is replaced by a sound successor.
LEMMA ReplaceRow ==
    ASSUME NEW os \in Seq(OrderType), RowsSound(os), NEW i \in DOMAIN os, NEW n,
           RowSound(n), RowKept(os[i], n)
    PROVE  RowsSound([os EXCEPT ![i] = n]) /\ RowsKept(os, [os EXCEPT ![i] = n])
  BY DEF RowsSound, RowsKept, RowKept

\* A sound row is inserted.
LEMMA AppendRow ==
    ASSUME NEW os \in Seq(OrderType), RowsSound(os), NEW n \in OrderType, RowSound(n)
    PROVE  RowsSound(Append(os, n)) /\ RowsKept(os, Append(os, n))
  <1> DEFINE ns == Append(os, n)
  <1>1. /\ DOMAIN ns = 1..(Len(os) + 1) /\ DOMAIN os = 1..Len(os) /\ Len(os) \in Nat
        /\ ns[Len(os) + 1] = n /\ \A i \in 1..Len(os) : ns[i] = os[i]
    BY AppendProperties, LenProperties
  <1> HIDE DEF ns
  <1>2. ASSUME NEW i \in DOMAIN ns
        PROVE  RowSound(ns[i])
    <2>1. i \in 1..Len(os) \/ i = Len(os) + 1
      BY <1>1
    <2> QED
      BY <1>1, <2>1 DEF RowsSound
  <1>3. ASSUME NEW i \in DOMAIN os
        PROVE  i \in DOMAIN ns /\ RowKept(os[i], ns[i])
    BY <1>1 DEF RowKept
  <1> QED
    BY <1>2, <1>3 DEF RowsSound, RowsKept, ns

-----------------------------------------------------------------------------
\* The steps of the engine.

OrdersInv ==
    /\ RowsSound(orders) /\ RowsSound(committed.orders)
    /\ RowsKept(committed.orders, orders)

\* The order /stock/init opens is sound.
LEMMA OrdersInit == Init => OrdersInv
  <1> SUFFICES ASSUME Init
               PROVE  OrdersInv
    OBVIOUS
  <1>1. PICK volume \in Volumes, amount \in Amounts :
           orders = <<NewOrder(Owner, "SELL", amount, volume)>>
    BY DEF Init
  <1>2. committed.orders = orders
    BY DEF Init, Tables
  <1>3. volume \in Nat /\ volume > 0
    BY AmountsAssumption
  <1>4. RowSound(NewOrder(Owner, "SELL", amount, volume))
    BY <1>3, NewRow
  <1>5. RowsSound(orders)
    BY <1>1, <1>4 DEF RowsSound
  <1> QED
    BY <1>2, <1>5, KeptReflexive DEF OrdersInv

\* A match takes no more than a live order has.
LEMMA OrdersFill ==
    ASSUME TypeInv, RowsSound(orders), Fill
    PROVE  RowsSound(orders') /\ RowsKept(orders, orders')
  <1>1. PICK i \in Nat, volume \in Nat, buyer \in Users, seller \in Users :
           Filling(i, volume, buyer, seller)
    BY FillStep
  <1>2. /\ i \in DOMAIN orders /\ orders[i] \in OrderType /\ i \in Resting
        /\ volume <= orders[i].volume
        /\ orders' = [orders EXCEPT ![i] = Filled(orders[i], volume)]
    BY <1>1 DEF Filling
  <1>3. IsLive(orders[i]) /\ RowSound(orders[i])
    BY <1>2 DEF Resting, LiveAt, RowsSound
  <1>4. /\ RowSound(Filled(orders[i], volume))
        /\ RowKept(orders[i], Filled(orders[i], volume))
    BY <1>2, <1>3, FilledRow
  <1> QED
    BY <1>2, <1>4, ReplaceRow DEF TypeInv, WorkingType

\* What is left of a request is opened only when something is.
LEMMA OrdersOpen ==
    ASSUME TypeInv, RowsSound(orders), OpenRemainder
    PROVE  RowsSound(orders') /\ RowsKept(orders, orders')
  <1> DEFINE new == NewOrder(msg.user, Side(msg), msg.amount, rem)
  <1>1. /\ msg.amount \in Amounts /\ msg.user \in Users /\ rem \in Nat /\ rem > 0
        /\ Side(msg) \in Sides
    BY DEF OpenRemainder, OpensRemainder, AllSettled, TypeInv, HandlerType, PhaseInv,
           MsgType, Side, Sides
  <1>2. new \in OrderType /\ RowSound(new)
    BY <1>1, NewOrderType, NewRow
  <1>3. orders' = Append(orders, new)
    BY DEF OpenRemainder
  <1> QED
    BY <1>2, <1>3, AppendRow DEF TypeInv, WorkingType

\* A modification changes a live order to a volume that is not zero.
LEMMA OrdersModify ==
    ASSUME TypeInv, RowsSound(orders), Modify
    PROVE  RowsSound(orders') /\ RowsKept(orders, orders')
  <1>1. PICK i \in Nat, new \in Nat, given \in Nat, charged \in Nat :
           Modifying(i, new, given, charged)
    BY ModifyStep
  <1>2. /\ i \in DOMAIN orders /\ orders[i] \in OrderType /\ IsLive(orders[i])
        /\ msg.amount \in Amounts /\ msg.volume \in Volumes
        /\ orders' = [orders EXCEPT ![i] = Modified(orders[i], msg)]
    BY <1>1 DEF Modifying, Modifiable
  <1>3. RowSound(orders[i])
    BY <1>2 DEF RowsSound
  <1>4. /\ RowSound(Modified(orders[i], msg))
        /\ RowKept(orders[i], Modified(orders[i], msg))
    BY <1>2, <1>3, ModifiedRow
  <1> QED
    BY <1>2, <1>4, ReplaceRow DEF TypeInv, WorkingType

\* A cancellation closes a live order.
LEMMA OrdersCancel ==
    ASSUME TypeInv, RowsSound(orders), Cancel
    PROVE  RowsSound(orders') /\ RowsKept(orders, orders')
  <1> DEFINE i == msg.order
  <1>1. /\ i \in DOMAIN orders /\ IsLive(orders[i])
        /\ orders' = [orders EXCEPT ![i] = Canceled(orders[i])]
    BY DEF Cancel, Cancelable, TypeInv, PhaseInv
  <1>2. orders \in Seq(OrderType) /\ orders[i] \in OrderType /\ RowSound(orders[i])
    BY <1>1, ElementOfSeq, LenProperties DEF TypeInv, WorkingType, RowsSound
  <1>3. RowSound(Canceled(orders[i])) /\ RowKept(orders[i], Canceled(orders[i]))
    BY <1>1, <1>2, CanceledRow
  <1> QED
    BY <1>1, <1>2, <1>3, ReplaceRow

\* Deleting or hiding the item relabels rows and reopens none.
LEMMA OrdersClose ==
    ASSUME TypeInv, RowsSound(orders), Delete \/ HideItem
    PROVE  RowsSound(orders') /\ RowsKept(orders, orders')
  <1>1. PICK status \in {"CANCELED", "HIDE"} : CloseOrders(status)
    BY DEF Delete, HideItem
  <1>2. orders' = orders \/ orders' = Closed(orders, status)
    BY <1>1 DEF CloseOrders
  <1> QED
    BY <1>2, ClosedRows, KeptReflexive DEF TypeInv, WorkingType

\* A step works on the orders, leaves them or restores them.
LEMMA OrdersStep ==
    ASSUME TypeInv, OrdersInv, [Next]_vars
    PROVE  \/ RowsSound(orders') /\ RowsKept(orders, orders')
           \/ orders' = committed.orders /\ committed' = committed
  <1>1. RowsSound(orders)
    BY DEF OrdersInv
  <1>2. CASE Fill \/ OpenRemainder \/ Modify \/ Cancel \/ Delete \/ HideItem
    BY <1>1, <1>2, OrdersFill, OrdersOpen, OrdersModify, OrdersCancel, OrdersClose
  <1>3. CASE SettleFails \/ OpenFails \/ QueryFails \/ Refuse \/ Crash
    BY <1>3 DEF SettleFails, OpenFails, QueryFails, Refuse, Crash, Rollback, Restore
  <1>4. CASE orders' = orders
    BY <1>1, <1>4, KeptReflexive
  <1> QED
    BY <1>2, <1>3, <1>4 DEF Next, vars, tables, Receive, FillDone, Settle, Finish,
       Reply, BatchDeleteOrderVolumeZero

\* The committed orders are the working ones of a commit, or stay.
LEMMA CommittedOrders ==
    ASSUME TypeInv, [Next]_vars
    PROVE  committed'.orders \in {orders', committed.orders}
  <1>1. Tables'.orders = orders'
    BY DEF Tables
  <1>2. [committed EXCEPT !.book = WithoutZeroRows(@)].orders = committed.orders
    BY DEF TypeInv, TablesType
  <1> QED
    BY <1>1, <1>2, CommittedStep

\* The invariant of the orders is inductive.
LEMMA OrdersNext ==
    ASSUME TypeInv, OrdersInv, [Next]_vars
    PROVE  OrdersInv' /\ RowsKept(committed.orders, committed'.orders)
  <1>1. CASE RowsSound(orders') /\ RowsKept(orders, orders')
    <2>1. RowsKept(committed.orders, orders')
      BY <1>1, KeptTransitive DEF OrdersInv
    <2>2. CASE committed'.orders = orders'
      BY <1>1, <2>1, <2>2, KeptReflexive DEF OrdersInv
    <2>3. CASE committed'.orders = committed.orders
      BY <1>1, <2>1, <2>3, KeptReflexive DEF OrdersInv
    <2> QED
      BY <2>2, <2>3, CommittedOrders
  <1>2. CASE orders' = committed.orders /\ committed' = committed
    BY <1>2, KeptReflexive DEF OrdersInv
  <1> QED
    BY <1>1, <1>2, OrdersStep

\* Every reachable state has sound orders.
LEMMA OrdersAlways == Spec => [](TypeInv /\ OrdersInv)
  <1>1. Init => TypeInv /\ OrdersInv
    BY TypeInit, OrdersInit
  <1>2. TypeInv /\ OrdersInv /\ [Next]_vars => (TypeInv /\ OrdersInv)'
    BY TypeNext, OrdersNext
  <1> QED
    BY <1>1, <1>2, PTL DEF Spec

\* The status and the volumes of an order agree with the matches recorded for
\* it, for every fee, price and sequence of messages.
THEOREM OrdersAreAccounted == Spec => []OrderAccounting
  <1>1. OrdersInv => OrderAccounting
    BY DEF OrdersInv, RowsSound, RowSound, OrderAccounting
  <1> QED
    BY <1>1, OrdersAlways, PTL

\* A cancellation is recorded once at most, also when its message is delivered
\* again or crosses the deletion of the item.
THEOREM CancellationsAreRecordedOnce == Spec => []CancelRecordedOnce
  <1>1. OrdersInv => CancelRecordedOnce
    BY DEF OrdersInv, RowsSound, RowSound, CancelRecordedOnce
  <1> QED
    BY <1>1, OrdersAlways, PTL

\* Both at once: what is recorded of an order never contradicts itself.
THEOREM OrderRecordsAlwaysAgree == Spec => []OrderRecordsAgree
  <1>1. OrderAccounting /\ CancelRecordedOnce => OrderRecordsAgree
    BY DEF OrderRecordsAgree
  <1> QED
    BY <1>1, OrdersAreAccounted, CancellationsAreRecordedOnce, PTL

\* No step of the daemon, its crashes included, reopens an order or trades
\* with one that is closed.
THEOREM ClosedOrdersStayClosed == Spec => ClosedStaysClosed
  <1> DEFINE Kept == \A i \in DOMAIN committed.orders :
                        /\ i \in DOMAIN committed'.orders
                        /\ ~IsLive(committed.orders[i]) =>
                             /\ ~IsLive(committed'.orders[i])
                             /\ committed'.orders[i].volume = committed.orders[i].volume
                             /\ committed'.orders[i].filled = committed.orders[i].filled
                             /\ committed'.orders[i].cancelRows
                                  = committed.orders[i].cancelRows
  <1>1. TypeInv /\ OrdersInv /\ [Next]_vars => [Kept]_committed
    BY OrdersNext DEF RowsKept, RowKept
  <1> QED
    BY <1>1, OrdersAlways, PTL DEF Spec, ClosedStaysClosed


-----------------------------------------------------------------------------
\* The open transaction.  Until it ends, the handler has written nothing but
\* the orders, balances, fees and shares of its matches: a message without a
\* match commits or restores what the tables were.

Matches == phase \in {"fill", "settle"}

TxnInv ==
    /\ book = committed.book /\ item = committed.item
    /\ matchCnt = committed.matchCnt
    /\ DOMAIN orders = DOMAIN committed.orders
    /\ ~Matches \/ fills = <<>> =>
           orders = committed.orders /\ balance = committed.balance
    /\ phase \in {"fill", "settle", "modify"} /\ fills = <<>> => rem = msg.volume
    /\ phase = "modify" => fills = <<>>
    /\ phase = "delete" => msg.type = "DELETE"
    /\ phase = "hide" => msg.type = "HIDE_ITEM"

\* The item is created by a commit.
LEMMA TxnInit == Init => TxnInv
  BY DEF Init, Tables, TxnInv, Matches

\* A message opens its transaction on the committed tables, in the phase of
\* its type.
LEMMA TxnReceive ==
    ASSUME TypeInv, TxnInv, NEW m \in Messages, Receive(m)
    PROVE  TxnInv'
  <1>1. /\ UNCHANGED <<orders, book, balance, item, matchCnt, committed>>
        /\ msg' = m /\ rem' = m.volume /\ fills' = <<>>
    BY DEF Receive, tables
  <1>2. orders = committed.orders /\ balance = committed.balance
    BY DEF Receive, TxnInv, Matches
  <1>3. phase' = "delete" => m.type = "DELETE"
    BY DEF Receive, IsModify
  <1>4. phase' = "hide" => m.type = "HIDE_ITEM"
    <2>1. m.type \in {"BUY", "SELL", "MODIFY_BUY", "MODIFY_SELL", "CANCEL", "DELETE",
                      "HIDE_ITEM"}
      BY DEF Messages
    <2> QED
      BY <2>1 DEF Receive, IsModify
  <1> QED
    BY <1>1, <1>2, <1>3, <1>4 DEF TxnInv, Matches

\* A commit makes the committed tables the working ones.
LEMMA TxnCommit ==
    ASSUME Commit,
           \/ phase' = "reply"
           \/ phase' = "fill" /\ fills' = <<>> /\ rem' = msg'.volume
    PROVE  TxnInv'
  <1>1. /\ committed'.book = book' /\ committed'.item = item'
        /\ committed'.matchCnt = matchCnt' /\ committed'.orders = orders'
        /\ committed'.balance = balance'
    BY DEF Commit, Tables
  <1> QED
    BY <1>1 DEF TxnInv, Matches

\* A rollback makes the working tables the committed ones.
LEMMA TxnRestore ==
    ASSUME Restore, phase' \in {"reply", "idle"}
    PROVE  TxnInv'
  BY DEF Restore, TxnInv, Matches

\* Every step keeps what is known of the open transaction.
LEMMA TxnNext ==
    ASSUME TypeInv, TxnInv, [Next]_vars
    PROVE  TxnInv'
  <1>1. CASE \E m \in Messages : Receive(m)
    BY <1>1, TxnReceive
  <1>2. CASE Fill
    <2>1. PICK i \in Nat, volume \in Nat, buyer \in Users, seller \in Users :
             Filling(i, volume, buyer, seller)
      BY <1>2, FillStep
    <2>2. DOMAIN orders' = DOMAIN orders
      BY <2>1 DEF Filling
    <2>3. fills' # <<>>
      BY <2>1, AppendProperties DEF Filling, TypeInv, HandlerType
    <2> QED
      BY <1>2, <2>2, <2>3 DEF Fill, TxnInv, Matches
  <1>3. CASE FillDone \/ Settle
    BY <1>3 DEF FillDone, Settle, tables, TxnInv, Matches
  <1>4. CASE Finish \/ OpenRemainder \/ Cancel \/ Delete \/ HideItem
    <2>1. Commit /\ phase' = "reply"
      BY <1>4 DEF Finish, OpenRemainder, Cancel, Delete, HideItem
    <2> QED
      BY <2>1, TxnCommit
  <1>5. CASE Modify
    <2>1. UNCHANGED <<msg, rem, fills>> /\ fills = <<>> /\ rem = msg.volume
      BY <1>5 DEF Modify, TxnInv
    <2> QED
      BY <1>5, <2>1, TxnCommit DEF Modify
  <1>6. CASE SettleFails \/ OpenFails \/ QueryFails \/ Refuse \/ Crash
    BY <1>6, TxnRestore DEF SettleFails, OpenFails, QueryFails, Refuse, Crash, Rollback, EndMessage
  <1>7. CASE Reply
    BY <1>7 DEF Reply, EndMessage, tables, TxnInv, Matches
  <1>8. CASE BatchDeleteOrderVolumeZero
    <2>1. /\ committed'.book = WithoutZeroRows(committed.book)
          /\ committed'.orders = committed.orders /\ committed'.item = committed.item
          /\ committed'.matchCnt = committed.matchCnt
          /\ committed'.balance = committed.balance
      BY <1>8 DEF BatchDeleteOrderVolumeZero, TypeInv, TablesType
    <2> QED
      BY <1>8, <2>1 DEF BatchDeleteOrderVolumeZero, handler, TxnInv, Matches
  <1>9. CASE UNCHANGED vars
    BY <1>9 DEF vars, tables, handler, TxnInv, Matches
  <1> QED
    BY <1>1, <1>2, <1>3, <1>4, <1>5, <1>6, <1>7, <1>8, <1>9 DEF Next

-----------------------------------------------------------------------------
\* Crossed orders.

NoCross(os, moved) ==
    \A amount \in Amounts :
        \A i \in LiveAt(os, <<"BUY", amount>>), j \in LiveAt(os, <<"SELL", amount>>) :
            i \in moved \/ j \in moved

\* The other side of a request's price is exhausted before what is left of the
\* request becomes an order.
CrossInv ==
    /\ NoCross(orders, repriced) /\ NoCross(committed.orders, repriced)
    /\ phase = "settle" /\ rem > 0 => Resting = {}

\* Orders do not become crossed where only repriced ones are new to a price.
LEMMA CrossKept ==
    ASSUME NEW os, NEW moved, NoCross(os, moved), NEW ns, NEW more, moved \subseteq more,
           \A k \in Keys : LiveAt(ns, k) \subseteq LiveAt(os, k) \cup more
    PROVE  NoCross(ns, more)
  <1> SUFFICES ASSUME NEW amount \in Amounts, NEW i \in LiveAt(ns, <<"BUY", amount>>),
                      NEW j \in LiveAt(ns, <<"SELL", amount>>)
               PROVE  i \in more \/ j \in more
    BY DEF NoCross
  <1>1. <<"BUY", amount>> \in Keys /\ <<"SELL", amount>> \in Keys
    BY DEF Keys, Sides
  <1>2. /\ i \in LiveAt(os, <<"BUY", amount>>) \cup more
        /\ j \in LiveAt(os, <<"SELL", amount>>) \cup more
    BY <1>1
  <1> QED
    BY <1>2 DEF NoCross

\* A row that keeps its side and price, or is repriced, and is live only if it
\* was, is new to no price.
LEMMA ReplacedLive ==
    ASSUME NEW os \in Seq(OrderType), NEW i \in DOMAIN os, NEW n, NEW more,
           n.type = os[i].type, IsLive(n) => IsLive(os[i]),
           n.amount = os[i].amount \/ i \in more, NEW k \in Keys
    PROVE  LiveAt([os EXCEPT ![i] = n], k) \subseteq LiveAt(os, k) \cup more
  BY DEF LiveAt

\* Closed orders are at no price.
LEMMA ClosedLive ==
    ASSUME NEW os \in Seq(OrderType), NEW status \in {"CANCELED", "HIDE"}, NEW k \in Keys
    PROVE  LiveAt(Closed(os, status), k) = {}
  <1>1. ASSUME NEW i \in DOMAIN os
        PROVE  Closed(os, status)[i].status = status
    <2> DEFINE c == IF IsLive(os[i]) THEN os[i].cancelRows + 1 ELSE os[i].cancelRows
    <2>1. os[i] \in OrderType
      BY ElementOfSeq, LenProperties
    <2>2. Closed(os, status)[i] = [os[i] EXCEPT !.status = status, !.cancelRows = c]
      BY DEF Closed
    <2> HIDE DEF c
    <2> QED
      BY <2>1, <2>2 DEF OrderType
  <1>2. DOMAIN Closed(os, status) = DOMAIN os
    BY DEF Closed
  <1> QED
    BY <1>1, <1>2 DEF LiveAt, IsLive

\* The live orders at a price after one is opened.
LEMMA AppendedLive ==
    ASSUME NEW os \in Seq(OrderType), NEW n \in OrderType, NEW k \in Keys
    PROVE  /\ LiveAt(Append(os, n), k) \subseteq LiveAt(os, k) \cup {Len(os) + 1}
           /\ Append(os, n)[Len(os) + 1] = n
  <1>1. /\ DOMAIN Append(os, n) = 1..(Len(os) + 1) /\ DOMAIN os = 1..Len(os)
        /\ Len(os) \in Nat /\ Append(os, n)[Len(os) + 1] = n
        /\ \A i \in 1..Len(os) : Append(os, n)[i] = os[i]
    BY AppendProperties, LenProperties
  <1> QED
    BY <1>1 DEF LiveAt

\* The item starts with one order.
LEMMA CrossInit == Init => CrossInv
  <1> SUFFICES ASSUME Init
               PROVE  CrossInv
    OBVIOUS
  <1>1. PICK volume \in Volumes, amount \in Amounts :
           orders = <<NewOrder(Owner, "SELL", amount, volume)>>
    BY DEF Init
  <1>2. \A i \in DOMAIN orders : orders[i].type = "SELL"
    BY <1>1 DEF NewOrder
  <1>3. NoCross(orders, repriced)
    BY <1>2 DEF NoCross, LiveAt
  <1> QED
    BY <1>3 DEF Init, Tables, CrossInv

\* What is left of a request finds no order of the other side at its price.
LEMMA CrossOpen ==
    ASSUME TypeInv, CrossInv, OpenRemainder
    PROVE  NoCross(orders', repriced)
  <1> DEFINE new == NewOrder(msg.user, Side(msg), msg.amount, rem)
             n == Len(orders) + 1
             ns == Append(orders, new)
  <1>1. /\ msg.amount \in Amounts /\ msg.user \in Users /\ rem \in Nat
        /\ Side(msg) \in Sides /\ phase = "settle" /\ rem > 0
    BY DEF OpenRemainder, OpensRemainder, AllSettled, TypeInv, HandlerType, PhaseInv,
           MsgType, Side, Sides
  <1>2. LiveAt(orders, <<Opposite(Side(msg)), msg.amount>>) = {}
    BY <1>1 DEF CrossInv, Resting, MatchKey
  <1>3. new \in OrderType /\ orders \in Seq(OrderType)
    BY <1>1, NewOrderType DEF TypeInv, WorkingType
  <1>4. new.type = Side(msg) /\ new.amount = msg.amount
    BY DEF NewOrder
  <1>5. orders' = ns
    BY DEF OpenRemainder
  <1> HIDE DEF new
  <1>6. ASSUME NEW amount \in Amounts, NEW i \in LiveAt(ns, <<"BUY", amount>>),
               NEW j \in LiveAt(ns, <<"SELL", amount>>)
        PROVE  i \in repriced \/ j \in repriced
    <2>1. <<"BUY", amount>> \in Keys /\ <<"SELL", amount>> \in Keys
      BY DEF Keys, Sides
    <2>2. /\ i = n \/ i \in LiveAt(orders, <<"BUY", amount>>)
          /\ j = n \/ j \in LiveAt(orders, <<"SELL", amount>>)
          /\ ns[n] = new
      BY <1>3, <2>1, AppendedLive
    <2>3. ns[i].type = "BUY" /\ ns[j].type = "SELL" /\ ns[i].amount = amount
          /\ ns[j].amount = amount
      BY DEF LiveAt
    <2> HIDE DEF n, ns
    <2>4. CASE i = n
      BY <1>2, <1>4, <2>2, <2>3, <2>4 DEF Opposite
    <2>5. CASE j = n
      BY <1>2, <1>4, <2>2, <2>3, <2>5 DEF Opposite
    <2>6. CASE i # n /\ j # n
      BY <2>2, <2>6 DEF CrossInv, NoCross
    <2> QED
      BY <2>4, <2>5, <2>6
  <1> QED
    BY <1>5, <1>6 DEF NoCross

\* A step leaves no two orders crossed, except at a price it moves one to.
LEMMA CrossStep ==
    ASSUME TypeInv, CrossInv, [Next]_vars
    PROVE  NoCross(orders', repriced')
  <1>1. orders \in Seq(OrderType) /\ NoCross(orders, repriced)
    BY DEF TypeInv, WorkingType, CrossInv
  <1>2. CASE Fill
    <2>1. PICK i \in Nat, volume \in Nat, buyer \in Users, seller \in Users :
             Filling(i, volume, buyer, seller)
      BY <1>2, FillStep
    <2> DEFINE n == Filled(orders[i], volume)
    <2>2. /\ i \in DOMAIN orders /\ orders[i] \in OrderType /\ IsLive(orders[i])
          /\ orders' = [orders EXCEPT ![i] = n]
      BY <2>1 DEF Filling, Resting, LiveAt
    <2>3. n.type = orders[i].type /\ n.amount = orders[i].amount
      BY <2>2 DEF Filled, OrderType
    <2>4. repriced' = repriced
      BY <1>2 DEF Fill, history
    <2> HIDE DEF n
    <2>5. \A k \in Keys : LiveAt(orders', k) \subseteq LiveAt(orders, k) \cup repriced
      BY <1>1, <2>2, <2>3, ReplacedLive
    <2> QED
      BY <1>1, <2>4, <2>5, CrossKept
  <1>3. CASE OpenRemainder
    BY <1>3, CrossOpen DEF OpenRemainder, history
  <1>4. CASE Modify
    <2>1. PICK i \in Nat, new \in Nat, given \in Nat, charged \in Nat :
             Modifying(i, new, given, charged)
      BY <1>4, ModifyStep
    <2> DEFINE n == Modified(orders[i], msg)
    <2>2. /\ i = msg.order /\ i \in DOMAIN orders /\ orders[i] \in OrderType
          /\ IsLive(orders[i]) /\ orders' = [orders EXCEPT ![i] = n]
      BY <2>1 DEF Modifying, Modifiable
    <2>3. n.type = orders[i].type /\ n.amount = msg.amount
      BY <2>2 DEF Modified, OrderType
    <2>4. /\ repriced \subseteq repriced'
          /\ orders[i].amount = msg.amount \/ i \in repriced'
      BY <1>4, <2>2 DEF Modify
    <2> HIDE DEF n
    <2>5. \A k \in Keys : LiveAt(orders', k) \subseteq LiveAt(orders, k) \cup repriced'
      BY <1>1, <2>2, <2>3, <2>4, ReplacedLive
    <2> QED
      BY <1>1, <2>4, <2>5, CrossKept
  <1>5. CASE Cancel
    <2> DEFINE i == msg.order
               n == Canceled(orders[i])
    <2>1. /\ i \in DOMAIN orders /\ IsLive(orders[i])
          /\ orders' = [orders EXCEPT ![i] = n] /\ repriced' = repriced
      BY <1>5 DEF Cancel, Cancelable, TypeInv, PhaseInv, history
    <2>2. n.type = orders[i].type /\ n.amount = orders[i].amount
      BY <1>1, <2>1, ElementOfSeq, LenProperties DEF Canceled, OrderType
    <2> HIDE DEF n, i
    <2>3. \A k \in Keys : LiveAt(orders', k) \subseteq LiveAt(orders, k) \cup repriced
      BY <1>1, <2>1, <2>2, ReplacedLive
    <2> QED
      BY <1>1, <2>1, <2>3, CrossKept
  <1>6. CASE Delete \/ HideItem
    <2>1. PICK status \in {"CANCELED", "HIDE"} : CloseOrders(status)
      BY <1>6 DEF Delete, HideItem
    <2>2. orders' = orders \/ orders' = Closed(orders, status)
      BY <2>1 DEF CloseOrders
    <2>3. \A k \in Keys : LiveAt(orders', k) \subseteq LiveAt(orders, k) \cup repriced
      BY <1>1, <2>2, ClosedLive
    <2>4. repriced' = repriced
      BY <1>6 DEF Delete, HideItem, history
    <2> QED
      BY <1>1, <2>3, <2>4, CrossKept
  <1>7. CASE SettleFails \/ OpenFails \/ QueryFails \/ Refuse \/ Crash
    <2>1. orders' = committed.orders /\ repriced' = repriced
      BY <1>7 DEF SettleFails, OpenFails, QueryFails, Refuse, Crash, Rollback, Restore, history
    <2> QED
      BY <2>1 DEF CrossInv
  <1>8. CASE orders' = orders /\ repriced' = repriced
    BY <1>1, <1>8
  <1> QED
    BY <1>2, <1>3, <1>4, <1>5, <1>6, <1>7, <1>8 DEF Next, vars, tables, history, Receive,
       FillDone, Settle, Finish, Reply, BatchDeleteOrderVolumeZero

\* The invariant of the crossed orders is inductive.
LEMMA CrossNext ==
    ASSUME TypeInv, CrossInv, [Next]_vars
    PROVE  CrossInv'
  <1>1. NoCross(orders', repriced')
    BY CrossStep
  <1>2. repriced \subseteq repriced'
    BY DEF Next, vars, history, Receive, Fill, FillDone, Settle, SettleFails, Finish,
       OpenRemainder, OpenFails, QueryFails, Modify, Cancel, Delete, HideItem, Refuse, Reply, Crash,
       BatchDeleteOrderVolumeZero, Rollback
  <1>3. NoCross(committed.orders, repriced')
    BY <1>2 DEF CrossInv, NoCross
  <1>4. NoCross(committed'.orders, repriced')
    BY <1>1, <1>3, CommittedOrders
  <1>5. phase' = "settle" /\ rem' > 0 => Resting' = {}
    <2>1. SUFFICES ASSUME phase' = "settle", rem' > 0
                   PROVE  Resting' = {}
      OBVIOUS
    <2>2. \/ FillDone
          \/ UNCHANGED <<orders, msg, rem, phase>>
      BY <2>1 DEF Next, vars, tables, handler, Receive, IsModify, Fill, FillDone, Settle,
         SettleFails, Finish, OpenRemainder, OpenFails, QueryFails, Modify, Cancel, Delete, HideItem,
         Refuse, Reply, Crash, BatchDeleteOrderVolumeZero, Rollback, EndMessage
    <2>3. orders' = orders /\ msg' = msg /\ rem' = rem
      BY <2>2 DEF FillDone, tables
    <2>4. Resting' = Resting
      BY <2>3 DEF Resting, LiveAt, MatchKey
    <2>5. Resting = {}
      BY <2>1, <2>2, <2>3 DEF FillDone, CrossInv
    <2> QED
      BY <2>4, <2>5
  <1> QED
    BY <1>1, <1>4, <1>5 DEF CrossInv

\* The engine leaves two live orders crossed only where a MODIFY moved one of
\* them, whatever is matched, refused, rolled back or delivered again.
THEOREM OrdersCrossOnlyByModify == Spec => []CrossedOnlyIfRepriced
  <1>1. Init => TypeInv /\ CrossInv
    BY TypeInit, CrossInit
  <1>2. TypeInv /\ CrossInv /\ [Next]_vars => (TypeInv /\ CrossInv)'
    BY TypeNext, CrossNext
  <1>3. CrossInv => CrossedOnlyIfRepriced
    BY DEF CrossInv, NoCross, CrossedOnlyIfRepriced
  <1> QED
    BY <1>1, <1>2, <1>3, PTL DEF Spec

-----------------------------------------------------------------------------
\* Price-time priority.

\* What a transaction does to the orders it found: it completes the older
\* orders at a price before it fills one, and otherwise leaves side, price and
\* status alone.
InTurn(os, ns) ==
    \A j \in DOMAIN os :
        ns[j].filled > os[j].filled =>
            \A i \in LiveAt(os, <<os[j].type, os[j].amount>>) :
                i < j => ns[i].status = "COMPLETE"
MatchesOnly(os, ns) ==
    \A j \in DOMAIN os :
        /\ ns[j].type = os[j].type /\ ns[j].amount = os[j].amount
        /\ ns[j].status \in {os[j].status, "COMPLETE"}

TurnInv ==
    InTurn(committed.orders, orders) /\ MatchesOnly(committed.orders, orders)

\* A change that fills nothing is in turn.
LEMMA NothingFilled ==
    ASSUME NEW os \in Seq(OrderType), NEW ns,
           \A j \in DOMAIN os : ns[j].filled = os[j].filled
    PROVE  InTurn(os, ns)
  <1>1. ASSUME NEW j \in DOMAIN os
        PROVE  ~(ns[j].filled > os[j].filled)
    <2>1. os[j] \in OrderType
      BY ElementOfSeq, LenProperties
    <2>2. os[j].filled \in Nat /\ ns[j].filled = os[j].filled
      BY <2>1 DEF OrderType
    <2> QED
      BY <2>2
  <1> QED
    BY <1>1 DEF InTurn

\* No change at all is in turn, too.
LEMMA NothingChanged ==
    ASSUME NEW os \in Seq(OrderType)
    PROVE  InTurn(os, os) /\ MatchesOnly(os, os)
  BY NothingFilled DEF MatchesOnly

\* The committed orders are a table of orders.
LEMMA CommittedTyped ==
    ASSUME TypeInv
    PROVE  committed.orders \in Seq(OrderType)
  BY DEF TypeInv, TablesType

\* A match of the oldest live order at the price is in turn: those before it
\* were completed by this transaction.
LEMMA TurnFill ==
    ASSUME TypeInv, TxnInv, TurnInv, Fill
    PROVE  TurnInv'
  <1> DEFINE os == committed.orders
  <1>1. PICK i0 \in Nat, volume \in Nat, buyer \in Users, seller \in Users :
           Filling(i0, volume, buyer, seller)
    BY FillStep
  <1> DEFINE n == Filled(orders[i0], volume)
  <1>2. /\ i0 \in DOMAIN orders /\ orders[i0] \in OrderType
        /\ orders' = [orders EXCEPT ![i0] = n]
        /\ i0 \in LiveAt(orders, MatchKey)
        /\ \A j \in LiveAt(orders, MatchKey) : i0 <= j
    BY <1>1 DEF Filling, Resting
  <1>3. /\ n.type = orders[i0].type /\ n.amount = orders[i0].amount
        /\ n.status \in {orders[i0].status, "COMPLETE"}
    BY <1>2 DEF Filled, OrderType
  <1>4. orders[i0].status = "WAIT"
    BY <1>2 DEF LiveAt, IsLive
  <1>5. committed' = committed /\ DOMAIN orders = DOMAIN os
    BY DEF Fill, TxnInv
  <1>6. DOMAIN orders \subseteq Nat
    BY DomainFinite DEF TypeInv, WorkingType
  <1> HIDE DEF n
  <1>7. MatchesOnly(os, orders')
    BY <1>2, <1>3, <1>5 DEF TurnInv, MatchesOnly
  <1>8. ASSUME NEW j \in DOMAIN os, orders'[j].filled > os[j].filled,
               NEW i \in LiveAt(os, <<os[j].type, os[j].amount>>), i < j
        PROVE  orders'[i].status = "COMPLETE"
    <2>1. /\ i \in DOMAIN os /\ os[i].status = "WAIT"
          /\ os[i].type = os[j].type /\ os[i].amount = os[j].amount
      BY DEF LiveAt, IsLive
    <2>2. orders[i].status = "COMPLETE"
      <3>1. CASE j = i0
        <4>1. i \notin LiveAt(orders, MatchKey)
          BY <1>2, <1>5, <1>6, <1>8, <2>1, <3>1
        <4>2. orders[i].type = orders[i0].type /\ orders[i].amount = orders[i0].amount
          BY <1>8, <2>1, <3>1 DEF TurnInv, MatchesOnly
        <4>3. orders[i].status # "WAIT"
          BY <1>2, <1>5, <2>1, <4>1, <4>2 DEF LiveAt, IsLive
        <4> QED
          BY <2>1, <4>3 DEF TurnInv, MatchesOnly
      <3>2. CASE j # i0
        <4>1. orders'[j] = orders[j]
          BY <1>2, <3>2
        <4> QED
          BY <1>8, <4>1 DEF TurnInv, InTurn
      <3> QED
        BY <3>1, <3>2
    <2>3. i # i0
      BY <1>4, <2>2
    <2> QED
      BY <1>2, <2>2, <2>3
  <1>9. InTurn(os, orders')
    BY <1>8 DEF InTurn
  <1> QED
    BY <1>5, <1>7, <1>9 DEF TurnInv

\* The orders of every commit follow the committed ones in turn.
LEMMA TurnCommit ==
    ASSUME TypeInv, TxnInv, TurnInv,
           Finish \/ OpenRemainder \/ Modify \/ Cancel \/ Delete \/ HideItem
    PROVE  InTurn(committed.orders, orders')
  <1> DEFINE os == committed.orders
  <1>1. os \in Seq(OrderType) /\ DOMAIN orders = DOMAIN os /\ orders \in Seq(OrderType)
    BY CommittedTyped DEF TxnInv, TypeInv, WorkingType
  <1>2. CASE Finish
    BY <1>2 DEF Finish, TurnInv
  <1>3. CASE OpenRemainder
    <2> DEFINE new == NewOrder(msg.user, Side(msg), msg.amount, rem)
    <2>1. orders' = Append(orders, new)
      BY <1>3 DEF OpenRemainder
    <2> HIDE DEF new
    <2>2. \A j \in DOMAIN os : orders'[j] = orders[j]
      BY <1>1, <2>1
    <2> QED
      BY <2>2 DEF TurnInv, InTurn, LiveAt
  <1>4. CASE Modify \/ Cancel \/ Delete \/ HideItem
    <2>1. orders = os
      BY <1>4 DEF Modify, Cancel, Delete, HideItem, TxnInv, Matches
    <2>2. \A j \in DOMAIN os : orders'[j].filled = os[j].filled
      <3>1. CASE Modify
        <4>1. PICK i \in Nat, new \in Nat, given \in Nat, charged \in Nat :
                 Modifying(i, new, given, charged)
          BY <3>1, ModifyStep
        <4> DEFINE n == Modified(orders[i], msg)
        <4>2. /\ i \in DOMAIN orders /\ orders[i] \in OrderType
              /\ orders' = [orders EXCEPT ![i] = n]
          BY <4>1 DEF Modifying
        <4>3. n.filled = orders[i].filled
          BY <4>2 DEF Modified, OrderType
        <4> HIDE DEF n
        <4> QED
          BY <2>1, <4>2, <4>3
      <3>2. CASE Cancel
        <4> DEFINE i == msg.order
                   n == Canceled(orders[i])
        <4>1. i \in DOMAIN orders /\ orders' = [orders EXCEPT ![i] = n]
          BY <3>2 DEF Cancel, TypeInv, PhaseInv
        <4>2. n.filled = orders[i].filled
          BY <1>1, <4>1, ElementOfSeq, LenProperties DEF Canceled, OrderType
        <4> HIDE DEF n, i
        <4> QED
          BY <2>1, <4>1, <4>2
      <3>3. CASE Delete \/ HideItem
        <4>1. PICK status \in {"CANCELED", "HIDE"} : CloseOrders(status)
          BY <3>3 DEF Delete, HideItem
        <4>2. CASE orders' = Closed(orders, status)
          <5> SUFFICES ASSUME NEW j \in DOMAIN os
                       PROVE  orders'[j].filled = os[j].filled
            OBVIOUS
          <5> DEFINE c == IF IsLive(os[j]) THEN os[j].cancelRows + 1 ELSE os[j].cancelRows
          <5>1. orders'[j] = [os[j] EXCEPT !.status = status, !.cancelRows = c]
            BY <2>1, <4>2 DEF Closed
          <5>2. os[j] \in OrderType
            BY <1>1, ElementOfSeq, LenProperties
          <5> HIDE DEF c
          <5> QED
            BY <5>1, <5>2 DEF OrderType
        <4>3. CASE orders' = orders
          BY <2>1, <4>3
        <4> QED
          BY <4>1, <4>2, <4>3 DEF CloseOrders
      <3> QED
        BY <1>4, <3>1, <3>2, <3>3
    <2> QED
      BY <1>1, <2>2, NothingFilled
  <1> QED
    BY <1>2, <1>3, <1>4

\* The invariant of the open transaction's matches is inductive, and what a
\* step commits is in turn.
LEMMA TurnNext ==
    ASSUME TypeInv, TxnInv, TurnInv, [Next]_vars
    PROVE  TurnInv' /\ InTurn(committed.orders, committed'.orders)
  <1>1. /\ committed.orders \in Seq(OrderType)
        /\ committed'.orders \in Seq(OrderType) /\ orders' \in Seq(OrderType)
    BY TypeNext, CommittedTyped DEF TypeInv, WorkingType, TablesType
  <1>2. CASE Fill
    <2>1. committed' = committed
      BY <1>2 DEF Fill
    <2> QED
      BY <1>1, <1>2, <2>1, TurnFill, NothingChanged
  <1>3. CASE Finish \/ OpenRemainder \/ Modify \/ Cancel \/ Delete \/ HideItem
    <2>1. Commit
      BY <1>3 DEF Finish, OpenRemainder, Modify, Cancel, Delete, HideItem
    <2>2. committed'.orders = orders'
      BY <2>1 DEF Commit, Tables
    <2> QED
      BY <1>1, <1>3, <2>2, TurnCommit, NothingChanged DEF TurnInv
  <1>4. CASE orders' = committed.orders /\ committed' = committed
    BY <1>1, <1>4, NothingChanged DEF TurnInv
  <1>5. CASE orders' = orders /\ committed'.orders = committed.orders
    BY <1>1, <1>5, NothingChanged DEF TurnInv
  <1>6. CASE BatchDeleteOrderVolumeZero
    <2>1. orders' = orders /\ committed'.orders = committed.orders
      BY <1>6 DEF BatchDeleteOrderVolumeZero, TypeInv, TablesType
    <2> QED
      BY <1>5, <2>1
  <1> QED
    BY <1>2, <1>3, <1>4, <1>5, <1>6 DEF Next, vars, tables, Receive, FillDone, Settle,
       SettleFails, OpenFails, QueryFails, Refuse, Reply, Crash, Rollback, Restore

\* Every reachable state is inside a transaction that matches in turn.
LEMMA TurnAlways == Spec => [](TypeInv /\ TxnInv /\ TurnInv)
  <1>1. Init => TurnInv
    <2> SUFFICES ASSUME Init
                 PROVE  TurnInv
      OBVIOUS
    <2>1. committed.orders = orders
      BY DEF Init, Tables
    <2> QED
      BY <2>1, TypeInit, CommittedTyped, NothingChanged DEF TurnInv
  <1>2. Init => TypeInv /\ TxnInv /\ TurnInv
    BY <1>1, TypeInit, TxnInit
  <1>3. TypeInv /\ TxnInv /\ TurnInv /\ [Next]_vars => (TypeInv /\ TxnInv /\ TurnInv)'
    BY TypeNext, TxnNext, TurnNext
  <1> QED
    BY <1>2, <1>3, PTL DEF Spec

\* An order is matched in a committed transaction only after every older live
\* order of its side and price, for any number of orders, messages and crashes.
THEOREM OlderOrdersFirst == Spec => PriceTimePriority
  <1> DEFINE Turn == \A j \in DOMAIN committed.orders :
                        committed'.orders[j].filled > committed.orders[j].filled =>
                            \A i \in LiveAt(committed.orders,
                                  <<committed.orders[j].type, committed.orders[j].amount>>) :
                                i < j => committed'.orders[i].status = "COMPLETE"
  <1>1. TypeInv /\ TxnInv /\ TurnInv /\ [Next]_vars => [Turn]_committed
    BY TurnNext DEF InTurn
  <1> QED
    BY <1>1, TurnAlways, PTL DEF Spec, PriceTimePriority


-----------------------------------------------------------------------------
\* The share register.

\* Two changes of one register, a credit and a debit of the same volume, keep
\* its total, whoever the buyer and the seller are.
LEMMA TransferKeepsTotal ==
    ASSUME shares \in [Users -> Nat], NEW f, f.buyer \in Users, f.seller \in Users,
           f.volume \in Nat, CanTransfer(f)
    PROVE  SumOver(Users, Transfer(f)) = SumOver(Users, shares)
  <1> DEFINE c == Credit(f)
             t == Transfer(f)
  <1>1. c \in [Users -> Nat] /\ c[f.buyer] = shares[f.buyer] + f.volume
        /\ \A u \in Users \ {f.buyer} : c[u] = shares[u]
    BY DEF Credit
  <1>2. t = [c EXCEPT ![f.seller] = @ - f.volume] /\ c[f.seller] >= f.volume
    BY DEF Transfer, CanTransfer
  <1> HIDE DEF c, t
  <1>3. t \in [Users -> Nat] /\ t[f.seller] = c[f.seller] - f.volume
        /\ \A u \in Users \ {f.seller} : t[u] = c[u]
    BY <1>1, <1>2
  <1>4. SumOver(Users, c) = SumOver(Users, shares) - shares[f.buyer] + c[f.buyer]
    BY <1>1, SumChange, UsersAssumption
  <1>5. SumOver(Users, t) = SumOver(Users, c) - c[f.seller] + t[f.seller]
    BY <1>1, <1>3, SumChange, UsersAssumption
  <1>6. SumOver(Users, shares) \in Nat /\ SumOver(Users, c) \in Nat
    BY <1>1, SumNat, UsersAssumption
  <1> QED
    BY <1>1, <1>3, <1>4, <1>5, <1>6 DEF t

\* The owner of a new item holds every share.
LEMMA SharesInit == Init => SharesConserved
  <1> SUFFICES ASSUME Init
               PROVE  SharesConserved
    OBVIOUS
  <1>1. shares = [u \in Users |-> IF u = Owner THEN ShareTotal ELSE 0]
    BY DEF Init
  <1>2. Owner \in Users /\ IsFiniteSet(Users) /\ ShareTotal \in Nat
    BY UsersAssumption, SharesAssumption
  <1>3. \A u \in Users : shares[u] \in Nat
    BY <1>1, <1>2
  <1>4. SumOver(Users, shares) = SumOver(Users \ {Owner}, shares) + shares[Owner]
    BY <1>2, <1>3, SumSplit
  <1>5. SumOver(Users \ {Owner}, shares) = 0
    BY <1>1, SumZero
  <1>6. committed.shares = shares
    BY DEF Init, Tables
  <1> QED
    BY <1>1, <1>2, <1>4, <1>5, <1>6 DEF SharesConserved

\* Every step keeps the total of the shares.
LEMMA SharesNext == TypeInv /\ SharesConserved /\ [Next]_vars => SharesConserved'
  <1> SUFFICES ASSUME TypeInv, SharesConserved, [Next]_vars
               PROVE  SharesConserved'
    OBVIOUS
  <1>1. SumOver(Users, shares') = ShareTotal
    <2>1. CASE Settle
      <3> DEFINE f == fills[settled + 1]
      <3>1. f \in FillType
        BY <2>1, ElementOfSeq, LenProperties DEF Settle, TypeInv, HandlerType
      <3>2. f.buyer \in Users /\ f.seller \in Users /\ f.volume \in Nat
        BY <3>1 DEF FillType
      <3>3. shares' = Transfer(f) /\ CanTransfer(f)
        BY <2>1 DEF Settle
      <3> HIDE DEF f
      <3>4. shares \in [Users -> Nat]
        BY DEF TypeInv, WorkingType
      <3> QED
        BY <3>2, <3>3, <3>4, TransferKeepsTotal DEF SharesConserved
    <2>2. CASE shares' = committed.shares
      BY <2>2 DEF SharesConserved
    <2>3. CASE shares' = shares
      BY <2>3 DEF SharesConserved
    <2> QED
      BY <2>1, <2>2, <2>3 DEF Next, vars, tables, Receive, Fill, FillDone, SettleFails,
         Finish, OpenRemainder, OpenFails, QueryFails, Modify, Cancel, Delete, HideItem, Refuse,
         Reply, Crash, BatchDeleteOrderVolumeZero, Rollback, Restore
  <1>2. committed'.shares \in {shares', committed.shares}
    <2>1. Tables'.shares = shares'
      BY DEF Tables
    <2>2. [committed EXCEPT !.book = WithoutZeroRows(@)].shares = committed.shares
      BY DEF TypeInv, TablesType
    <2> QED
      BY <2>1, <2>2, CommittedStep
  <1> QED
    BY <1>1, <1>2 DEF SharesConserved

\* The shares of an item are neither created nor lost, for every set of users
\* and every sequence of messages: also by a user who trades with an order of
\* its own, and by a message of which a later transfer fails.
THEOREM SharesAreConserved == Spec => []SharesConserved
  <1>1. Init => TypeInv /\ SharesConserved
    BY TypeInit, SharesInit
  <1>2. TypeInv /\ SharesConserved /\ [Next]_vars => (TypeInv /\ SharesConserved)'
    BY TypeNext, SharesNext
  <1> QED
    BY <1>1, <1>2, PTL DEF Spec

-----------------------------------------------------------------------------
\* The ledger of the points.

\* A column of the table of orders, w giving its value for a row.
Column(os, w) == [j \in DOMAIN os |-> w[os[j]]]

\* The total of a column.
Total(os, w) == SumOver(DOMAIN os, Column(os, w))

\* The total of a column is a natural number.
LEMMA TotalNat ==
    ASSUME NEW os \in Seq(OrderType), NEW w \in [OrderType -> Nat]
    PROVE  Total(os, w) \in Nat
  <1>1. \A j \in DOMAIN os : Column(os, w)[j] \in Nat
    BY ElementOfSeq, LenProperties DEF Column
  <1> QED
    BY <1>1, DomainFinite, SumNat DEF Total

\* Replacing one order changes the total by that order's change.
LEMMA TotalUpdate ==
    ASSUME NEW os \in Seq(OrderType), NEW i \in DOMAIN os, NEW o \in OrderType,
           NEW w \in [OrderType -> Nat]
    PROVE  Total([os EXCEPT ![i] = o], w) = Total(os, w) - w[os[i]] + w[o]
  <1> DEFINE ns == [os EXCEPT ![i] = o]
             f == Column(os, w)
             g == Column(ns, w)
  <1>1. DOMAIN ns = DOMAIN os /\ IsFiniteSet(DOMAIN os)
    BY DomainFinite
  <1>2. \A j \in DOMAIN os : f[j] \in Nat
    BY ElementOfSeq, LenProperties DEF Column
  <1>3. ns[i] = o /\ \A j \in DOMAIN os \ {i} : ns[j] = os[j]
    OBVIOUS
  <1>4. \A j \in DOMAIN os \ {i} : g[j] = f[j]
    BY <1>1, <1>3 DEF Column
  <1>5. g[i] = w[o] /\ f[i] = w[os[i]] /\ w[o] \in Nat
    BY <1>1, <1>3 DEF Column
  <1>6. \A j \in DOMAIN os : g[j] \in Nat
    BY <1>2, <1>4, <1>5
  <1>7. Total(os, w) = SumOver(DOMAIN os, f) /\ Total(ns, w) = SumOver(DOMAIN os, g)
    BY <1>1 DEF Total
  <1> HIDE DEF f, g, ns
  <1>8. SumOver(DOMAIN os, g) = SumOver(DOMAIN os, f) - f[i] + g[i]
    BY <1>1, <1>2, <1>4, <1>6, SumChange
  <1> QED
    BY <1>5, <1>7, <1>8 DEF ns

\* A new order adds its value to the total.
LEMMA TotalAppend ==
    ASSUME NEW os \in Seq(OrderType), NEW o \in OrderType, NEW w \in [OrderType -> Nat]
    PROVE  Total(Append(os, o), w) = Total(os, w) + w[o]
  <1> DEFINE ns == Append(os, o)
             n == Len(os) + 1
             f == Column(os, w)
             g == Column(ns, w)
  <1>1. /\ ns \in Seq(OrderType) /\ Len(ns) = n /\ Len(os) \in Nat
        /\ \A j \in 1..Len(os) : ns[j] = os[j]
        /\ ns[n] = o
    BY AppendProperties, LenProperties
  <1>2. DOMAIN os = 1..Len(os) /\ DOMAIN ns = 1..n
    BY <1>1, LenProperties
  <1>3. n \notin DOMAIN os /\ DOMAIN ns = DOMAIN os \cup {n} /\ IsFiniteSet(DOMAIN os)
    BY <1>1, <1>2, DomainFinite
  <1>4. \A j \in DOMAIN os : f[j] \in Nat
    BY ElementOfSeq, LenProperties DEF Column
  <1>5. \A j \in DOMAIN os : g[j] = f[j]
    BY <1>1, <1>2, <1>3 DEF Column
  <1>6. g[n] = w[o] /\ w[o] \in Nat
    BY <1>1, <1>3 DEF Column
  <1>7. Total(os, w) = SumOver(DOMAIN os, f) /\ Total(ns, w) = SumOver(DOMAIN ns, g)
    BY DEF Total
  <1> HIDE DEF f, g, ns, n
  <1>8. SumOver(DOMAIN ns, g) = SumOver(DOMAIN os, f) + g[n]
    <2> DEFINE T == DOMAIN ns
    <2>1. IsFiniteSet(T) /\ n \in T /\ T \ {n} = DOMAIN os
      BY <1>3, FS_AddElement
    <2>2. \A j \in T : g[j] \in Nat
      BY <1>3, <1>4, <1>5, <1>6
    <2> HIDE DEF T
    <2>3. SumOver(T, g) = SumOver(T \ {n}, g) + g[n]
      BY <2>1, <2>2, SumSplit
    <2>4. SumOver(DOMAIN os, g) = SumOver(DOMAIN os, f)
      BY <1>5, SumSame
    <2> QED
      BY <2>1, <2>3, <2>4 DEF T
  <1> QED
    BY <1>6, <1>7, <1>8 DEF ns

\* What an order holds, as a column.
HeldColumn == [o \in OrderType |-> Held(o)]

\* The escrow is the total of what the orders hold.
LEMMA EscrowTotal ==
    ASSUME NEW os \in Seq(OrderType)
    PROVE  Escrow(os) = Total(os, HeldColumn) /\ HeldColumn \in [OrderType -> Nat]
  <1>1. HeldColumn \in [OrderType -> Nat]
    BY HeldType DEF HeldColumn
  <1>2. \A j \in DOMAIN os : [k \in DOMAIN os |-> Held(os[k])][j] = Column(os, HeldColumn)[j]
    BY ElementOfSeq, LenProperties DEF Column, HeldColumn
  <1>3. SumOver(DOMAIN os, [k \in DOMAIN os |-> Held(os[k])])
          = SumOver(DOMAIN os, Column(os, HeldColumn))
    BY <1>2, SumSame
  <1> QED
    BY <1>1, <1>3 DEF Escrow, HeldBy, Total

\* Replacing one order changes what the orders hold by that order's change.
LEMMA EscrowUpdate ==
    ASSUME NEW os \in Seq(OrderType), NEW i \in DOMAIN os, NEW o \in OrderType
    PROVE  Escrow([os EXCEPT ![i] = o]) = Escrow(os) - Held(os[i]) + Held(o)
  <1>1. os[i] \in OrderType
    BY ElementOfSeq, LenProperties
  <1>2. PICK ns \in Seq(OrderType) : ns = [os EXCEPT ![i] = o]
    BY Replaced
  <1>3. PICK w \in [OrderType -> Nat] : w = HeldColumn
    BY EscrowTotal
  <1>4. w[os[i]] = Held(os[i]) /\ w[o] = Held(o)
    BY <1>1, <1>3 DEF HeldColumn
  <1>5. Escrow(ns) = Total(ns, w) /\ Escrow(os) = Total(os, w)
    BY <1>3, EscrowTotal
  <1>6. Total(ns, w) = Total(os, w) - w[os[i]] + w[o]
    BY <1>2, TotalUpdate
  <1> QED
    BY <1>2, <1>4, <1>5, <1>6

\* A new order adds what it holds.
LEMMA EscrowAppend ==
    ASSUME NEW os \in Seq(OrderType), NEW o \in OrderType
    PROVE  Escrow(Append(os, o)) = Escrow(os) + Held(o)
  <1>1. PICK ns \in Seq(OrderType) : ns = Append(os, o)
    BY AppendProperties
  <1>2. PICK w \in [OrderType -> Nat] : w = HeldColumn
    BY EscrowTotal
  <1>3. w[o] = Held(o)
    BY <1>2 DEF HeldColumn
  <1>4. Escrow(ns) = Total(ns, w) /\ Escrow(os) = Total(os, w)
    BY <1>2, EscrowTotal
  <1>5. Total(ns, w) = Total(os, w) + w[o]
    BY <1>1, TotalAppend
  <1> QED
    BY <1>1, <1>3, <1>4, <1>5

\* Closed orders hold nothing.
LEMMA EscrowClosed ==
    ASSUME NEW os \in Seq(OrderType), NEW status \in Statuses \ {"WAIT"}
    PROVE  Escrow(Closed(os, status)) = 0
  <1> DEFINE ns == Closed(os, status)
             g == [j \in DOMAIN ns |-> Held(ns[j])]
  <1>1. \A j \in DOMAIN ns : ns[j].status = status
    <2>1. DOMAIN ns = DOMAIN os
      BY DEF Closed
    <2>2. ASSUME NEW j \in DOMAIN os
          PROVE  ns[j].status = status
      <3>1. os[j] \in OrderType
        BY ElementOfSeq, LenProperties
      <3> DEFINE c == IF IsLive(os[j]) THEN os[j].cancelRows + 1 ELSE os[j].cancelRows
      <3>2. ns[j] = [os[j] EXCEPT !.status = status, !.cancelRows = c]
        BY DEF Closed
      <3> HIDE DEF c
      <3> QED
        BY <3>1, <3>2 DEF OrderType
    <2> QED
      BY <2>1, <2>2
  <1>2. \A j \in DOMAIN ns : g[j] = 0
    BY <1>1 DEF Held, IsLive
  <1>3. Escrow(ns) = SumOver(DOMAIN ns, g)
    BY DEF Escrow, HeldBy
  <1> HIDE DEF g, ns
  <1>4. SumOver(DOMAIN ns, g) = 0
    BY <1>2, SumZero
  <1> QED
    BY <1>3, <1>4 DEF ns

\* One account's change is the change of the total.
LEMMA BalanceUpdate ==
    ASSUME NEW b \in [Users -> Nat], NEW c \in [Users -> Nat], NEW u \in Users,
           \A v \in Users \ {u} : c[v] = b[v]
    PROVE  /\ SumOver(Users, c) = SumOver(Users, b) - b[u] + c[u]
           /\ SumOver(Users, b) \in Nat
  BY SumChange, SumNat, UsersAssumption

\* What is left over of a held order when a part of it is matched.
LEMMA HeldFilled ==
    ASSUME NEW o \in OrderType, IsLive(o), NEW v \in Nat, v <= o.volume
    PROVE  Held(Filled(o, v)) =
             IF o.type = "BUY" THEN Held(o) - Cost(o.amount, v) ELSE 0
  <1> DEFINE rest == o.volume - v
             s == IF v = o.volume THEN "COMPLETE" ELSE o.status
             n == Filled(o, v)
  <1>1. o.amount \in Nat /\ o.volume \in Nat /\ rest \in Nat /\ o.volume = rest + v
    <2>1. o.amount \in Nat /\ o.volume \in Nat
      BY AmountsAssumption DEF OrderType
    <2> QED
      BY <2>1
  <1>2. Cost(o.amount, o.volume) = Cost(o.amount, rest) + Cost(o.amount, v)
    <2> HIDE DEF rest
    <2>1. Cost(o.amount, rest + v) = Cost(o.amount, rest) + Cost(o.amount, v)
      BY <1>1, CostSplit
    <2> QED
      BY <1>1, <2>1
  <1>3. n.type = o.type /\ n.amount = o.amount /\ n.volume = rest /\ n.status = s
    BY DEF Filled, OrderType
  <1>4. /\ Cost(o.amount, rest) \in Nat /\ Cost(o.amount, v) \in Nat
        /\ Cost(o.amount, o.volume) \in Nat
    BY <1>1, CostType
  <1>5. Held(n) = IF s = "WAIT" /\ o.type = "BUY" THEN Cost(o.amount, rest) ELSE 0
    BY <1>3 DEF Held, IsLive
  <1>6. Held(o) = IF o.type = "BUY" THEN Cost(o.amount, o.volume) ELSE 0
    BY DEF Held
  <1> HIDE DEF n
  <1>7. CASE v = o.volume
    <2>1. Cost(o.amount, o.volume) = Cost(o.amount, v) /\ s # "WAIT"
      BY <1>7
    <2> QED
      BY <1>4, <1>5, <1>6, <2>1 DEF n
  <1>8. CASE v # o.volume
    <2>1. s = "WAIT"
      BY <1>8 DEF IsLive
    <2> QED
      BY <1>2, <1>4, <1>5, <1>6, <2>1 DEF n
  <1> QED
    BY <1>7, <1>8

\* The ledger of one set of tables: what accounts, live BUY orders and fees
\* add up to with what was not given back, and what they should.
Points(d) == SumOver(Users, d.balance) + Escrow(d.orders) + d.fees
LedgerOf(d) == Points(d) + unrefunded = InitialPoints + d.unpaid + unfunded
LedgerInv == LedgerOf(Tables) /\ LedgerOf(committed)

\* The books are balanced when the item is created.
LEMMA LedgerInit == Init => LedgerInv
  <1> SUFFICES ASSUME Init
               PROVE  LedgerInv
    OBVIOUS
  <1>1. PICK volume \in Volumes, amount \in Amounts :
           orders = <<NewOrder(Owner, "SELL", amount, volume)>>
    BY DEF Init
  <1> DEFINE o == NewOrder(Owner, "SELL", amount, volume)
             f == [j \in DOMAIN orders |-> Held(orders[j])]
  <1>2. \A j \in DOMAIN orders : orders[j] = o
    BY <1>1
  <1>3. Held(o) = 0
    BY DEF NewOrder, Held, IsLive
  <1>4. \A j \in DOMAIN orders : f[j] = 0
    BY <1>2, <1>3
  <1> HIDE DEF f, o
  <1>5. SumOver(DOMAIN orders, f) = 0
    BY <1>4, SumZero
  <1>6. Escrow(orders) = 0
    BY <1>5 DEF Escrow, HeldBy, f
  <1>7. SumOver(Users, balance) = InitialPoints
    BY DEF Init, InitialPoints
  <1>8. fees = 0 /\ unpaid = 0 /\ unfunded = 0 /\ unrefunded = 0 /\ committed = Tables
    BY DEF Init
  <1>9. InitialPoints \in Nat
    <2>1. \A u \in Users : [v \in Users |-> FeeDen * Funds][u] \in Nat
      BY FeeAssumption, SharesAssumption
    <2> QED
      BY <2>1, SumNat, UsersAssumption DEF InitialPoints
  <1>10. LedgerOf(Tables)
    BY <1>6, <1>7, <1>8, <1>9 DEF LedgerOf, Points, Tables
  <1> QED
    BY <1>8, <1>10 DEF LedgerInv

\* The totals are natural numbers, so that they can be computed with.
LEMMA TotalsType ==
    ASSUME TypeInv
    PROVE  /\ SumOver(Users, balance) \in Nat /\ Escrow(orders) \in Nat
           /\ InitialPoints \in Nat /\ fees \in Nat /\ unpaid \in Nat /\ unfunded \in Nat
           /\ unrefunded \in Nat
  <1>1. \A u \in Users : balance[u] \in Nat
    BY DEF TypeInv, WorkingType
  <1>2. \A u \in Users : [v \in Users |-> FeeDen * Funds][u] \in Nat
    BY FeeAssumption, SharesAssumption
  <1>3. SumOver(Users, balance) \in Nat /\ InitialPoints \in Nat
    BY <1>1, <1>2, SumNat, UsersAssumption DEF InitialPoints
  <1>4. Escrow(orders) \in Nat
    BY EscrowType DEF TypeInv, WorkingType
  <1> QED
    BY <1>3, <1>4 DEF TypeInv, WorkingType, HandlerType

\* The ledger of the working tables, in terms of the variables.
WorkingLedger ==
    SumOver(Users, balance) + Escrow(orders) + fees + unrefunded
        = InitialPoints + unpaid + unfunded

\* The audit of the working tables, in two notations.
LEMMA LedgerTables == LedgerOf(Tables) <=> WorkingLedger
  BY DEF LedgerOf, Points, Tables, WorkingLedger

\* A match pays the seller out of an order's points, or counts them as unpaid.
LEMMA LedgerFill ==
    ASSUME TypeInv, WorkingLedger, Fill
    PROVE  WorkingLedger'
  <1>1. PICK i \in Nat, volume \in Nat, buyer \in Users, seller \in Users :
           Filling(i, volume, buyer, seller)
    BY FillStep
  <1> DEFINE o == orders[i]
             cost == Cost(o.amount, volume)
             fee == Fee(o.amount, volume)
  <1>2. /\ i \in DOMAIN orders /\ o \in OrderType /\ volume <= o.volume /\ i \in Resting
        /\ orders' = [orders EXCEPT ![i] = Filled(o, volume)]
        /\ balance' = [balance EXCEPT ![seller] = @ + (cost - fee)]
        /\ fees' = fees + fee
        /\ unpaid' = unpaid + (IF o.type = "SELL" THEN cost ELSE 0)
    BY <1>1 DEF Filling
  <1>3. cost \in Nat /\ fee \in Nat /\ cost - fee \in Nat
    BY <1>2, AmountsAssumption, CostType DEF OrderType
  <1>4. IsLive(o) /\ o.type \in {"BUY", "SELL"}
    BY <1>2 DEF Resting, LiveAt, OrderType, Sides
  <1>5. orders \in Seq(OrderType) /\ balance \in [Users -> Nat] /\ TypeInv'
    BY TypeFill DEF TypeInv, WorkingType
  <1>6. Filled(o, volume) \in OrderType
    BY <1>2, FilledType
  <1>7. Escrow(orders') = Escrow(orders) - Held(o) + Held(Filled(o, volume))
    BY <1>2, <1>5, <1>6, EscrowUpdate
  <1>8. Held(Filled(o, volume)) = IF o.type = "BUY" THEN Held(o) - cost ELSE 0
    BY <1>2, <1>4, HeldFilled
  <1>9. o.type = "SELL" => Held(o) = 0
    BY DEF Held
  <1>10. Held(o) \in Nat
    BY <1>2, HeldType
  <1> HIDE DEF cost, fee, o
  <1>11. /\ balance' \in [Users -> Nat]
         /\ balance'[seller] = balance[seller] + (cost - fee)
         /\ \A v \in Users \ {seller} : balance'[v] = balance[v]
    BY <1>2, <1>3, <1>5
  <1>12. SumOver(Users, balance') = SumOver(Users, balance) + (cost - fee)
    <2>1. SumOver(Users, balance') = SumOver(Users, balance) - balance[seller] + balance'[seller]
      BY <1>5, <1>11, BalanceUpdate
    <2>2. SumOver(Users, balance) \in Nat /\ balance[seller] \in Nat
      BY <1>5, TotalsType
    <2> QED
      BY <1>3, <1>11, <2>1, <2>2
  <1>13. Escrow(orders') = Escrow(orders) - (IF o.type = "BUY" THEN cost ELSE 0)
    BY <1>3, <1>4, <1>7, <1>8, <1>9, <1>10, TotalsType
  <1>14. unfunded' = unfunded /\ unrefunded' = unrefunded
    BY DEF Fill, history
  <1>15. InitialPoints' = InitialPoints
    BY DEF InitialPoints
  <1>16. SumOver(Users, balance') + Escrow(orders') + fees' + unrefunded'
           = InitialPoints + unpaid' + unfunded'
    <2>1. CASE o.type = "BUY"
      BY <1>2, <1>3, <1>12, <1>13, <1>14, <2>1, TotalsType DEF WorkingLedger
    <2>2. CASE o.type = "SELL"
      BY <1>2, <1>3, <1>12, <1>13, <1>14, <2>2, TotalsType DEF WorkingLedger
    <2> QED
      BY <1>4, <2>1, <2>2 DEF o
  <1> QED
    BY <1>15, <1>16 DEF WorkingLedger

\* A new BUY order moves its price from the account to the order.
LEMMA LedgerOpen ==
    ASSUME TypeInv, WorkingLedger, OpenRemainder
    PROVE  WorkingLedger'
  <1> DEFINE cost == Cost(msg.amount, rem)
             new == NewOrder(msg.user, Side(msg), msg.amount, rem)
  <1>1. /\ msg.amount \in Amounts /\ msg.user \in Users /\ rem \in Nat
        /\ Side(msg) \in {"BUY", "SELL"}
    BY DEF OpenRemainder, OpensRemainder, AllSettled, TypeInv, HandlerType, PhaseInv,
           MsgType, Side
  <1>2. cost \in Nat
    BY <1>1, AmountsAssumption, CostType
  <1>3. new \in OrderType
    BY <1>1, NewOrderType DEF Sides
  <1>4. Held(new) = IF Side(msg) = "BUY" THEN cost ELSE 0
    BY DEF NewOrder, Held, IsLive
  <1>5. orders \in Seq(OrderType) /\ balance \in [Users -> Nat]
    BY DEF TypeInv, WorkingType
  <1>6. orders' = Append(orders, new)
    BY DEF OpenRemainder
  <1>7. /\ balance' = IF Side(msg) = "BUY"
                      THEN [balance EXCEPT ![msg.user] = @ - cost] ELSE balance
        /\ Side(msg) = "BUY" => balance[msg.user] >= cost
        /\ fees' = fees /\ unpaid' = unpaid
        /\ unfunded' = unfunded /\ unrefunded' = unrefunded
    BY DEF OpenRemainder, CanWithdraw, history
  <1> HIDE DEF cost, new
  <1>8. Escrow(orders') = Escrow(orders) + Held(new)
    BY <1>3, <1>5, <1>6, EscrowAppend
  <1>9. CASE Side(msg) = "BUY"
    <2>1. /\ balance' \in [Users -> Nat] /\ balance'[msg.user] = balance[msg.user] - cost
          /\ \A v \in Users \ {msg.user} : balance'[v] = balance[v]
      BY <1>1, <1>2, <1>5, <1>7, <1>9
    <2>2. SumOver(Users, balance') = SumOver(Users, balance) - balance[msg.user]
                                       + balance'[msg.user]
      BY <1>1, <1>5, <2>1, BalanceUpdate
    <2>3. balance[msg.user] \in Nat
      BY <1>1, <1>5
    <2> QED
      BY <1>2, <1>4, <1>7, <1>8, <1>9, <2>1, <2>2, <2>3, TotalsType
         DEF WorkingLedger, InitialPoints
  <1>10. CASE Side(msg) # "BUY"
    BY <1>4, <1>7, <1>8, <1>10, TotalsType DEF WorkingLedger, InitialPoints
  <1> QED
    BY <1>9, <1>10

\* A modified BUY order is refunded and charged, or counted as unfunded.
LEMMA LedgerModify ==
    ASSUME TypeInv, WorkingLedger, Modify
    PROVE  WorkingLedger'
  <1>1. PICK i \in Nat, new \in Nat, given \in Nat, charged \in Nat :
           Modifying(i, new, given, charged)
    BY ModifyStep
  <1> DEFINE o == orders[i]
             n == Modified(o, msg)
  <1>2. /\ i \in DOMAIN orders /\ o \in OrderType
        /\ msg.user \in Users /\ msg.amount \in Amounts /\ msg.volume \in Volumes
        /\ new = Cost(msg.amount, msg.volume) /\ charged \in {0, new}
        /\ orders' = [orders EXCEPT ![i] = n]
        /\ IsLive(o)
    BY <1>1 DEF Modifying, Modifiable
  <1>3. n \in OrderType
    BY <1>2, ModifiedType
  <1>4. n.type = o.type /\ n.status = o.status /\ n.amount = msg.amount /\ n.volume = msg.volume
    BY <1>2 DEF Modified, OrderType
  <1>5. Held(n) = IF o.type = "BUY" THEN new ELSE 0
    BY <1>2, <1>4 DEF Held, IsLive
  <1>6. Held(o) = IF o.type = "BUY" THEN Refund(o) ELSE 0
    BY <1>2 DEF Held, Refund
  <1>7. orders \in Seq(OrderType) /\ balance \in [Users -> Nat]
    BY DEF TypeInv, WorkingType
  <1>8. Escrow(orders') = Escrow(orders) - Held(o) + Held(n)
    BY <1>2, <1>3, <1>7, EscrowUpdate
  <1>9. fees' = fees /\ unpaid' = unpaid /\ InitialPoints' = InitialPoints
    BY DEF Modify, InitialPoints
  <1>10. Held(o) \in Nat
    BY <1>2, HeldType
  <1>11. CASE o.type = "BUY"
    <2>1. /\ balance' = [u \in Users |->
                            IF u = msg.user THEN balance[u] + given - charged ELSE balance[u]]
          /\ charged <= balance[msg.user] + given
          /\ unfunded' = unfunded + (new - charged)
          /\ unrefunded' = unrefunded + (Refund(o) - given)
      BY <1>1, <1>11 DEF Modifying
    <2>2. Refund(o) \in Nat /\ balance[msg.user] \in Nat
      BY <1>2, <1>6, <1>7, <1>10, <1>11
    <2> HIDE DEF o, n
    <2>3. /\ balance' \in [Users -> Nat]
          /\ balance'[msg.user] = balance[msg.user] + given - charged
          /\ \A v \in Users \ {msg.user} : balance'[v] = balance[v]
      <3>1. PICK v \in Nat : v = balance[msg.user] + given - charged
        BY <2>1, <2>2
      <3>2. balance' = [u \in Users |-> IF u = msg.user THEN v ELSE balance[u]]
        BY <2>1, <3>1
      <3>3. msg.user \in Users
        BY <1>2
      <3> QED
        BY <1>7, <3>1, <3>2, <3>3
    <2>4. SumOver(Users, balance') = SumOver(Users, balance) - balance[msg.user]
                                       + balance'[msg.user]
      BY <1>2, <1>7, <2>3, BalanceUpdate
    <2>5. SumOver(Users, balance') = SumOver(Users, balance) + given - charged
      BY <2>2, <2>3, <2>4, TotalsType
    <2>6. Escrow(orders') = Escrow(orders) - Refund(o) + new
      BY <1>5, <1>6, <1>8, <1>11
    <2>7. SumOver(Users, balance') + Escrow(orders') + fees' + unrefunded'
            = InitialPoints + unpaid' + unfunded'
      <3>1. new \in Nat /\ charged \in Nat /\ Refund(o) \in Nat
        BY <1>1, <2>2
      <3>2. SumOver(Users, balance) + Escrow(orders) + fees + unrefunded
              = InitialPoints + unpaid + unfunded
        BY DEF WorkingLedger
      <3>3. /\ unfunded' = unfunded + (new - charged)
            /\ unrefunded' = unrefunded + (Refund(o) - given)
        BY <2>1
      <3> HIDE DEF WorkingLedger
      <3> QED
        BY <1>9, <2>5, <2>6, <3>1, <3>2, <3>3, TotalsType
    <2> QED
      BY <1>9, <2>7 DEF WorkingLedger
  <1>12. CASE o.type # "BUY"
    <2>1. balance' = balance /\ unfunded' = unfunded /\ unrefunded' = unrefunded
      BY <1>1, <1>12 DEF Modifying
    <2>2. Escrow(orders') = Escrow(orders)
      BY <1>5, <1>6, <1>8, <1>12, TotalsType
    <2> QED
      BY <1>9, <2>1, <2>2, TotalsType DEF WorkingLedger
  <1> QED
    BY <1>11, <1>12

\* A cancelled BUY order moves its points back to the account,
\* or they are counted as not given back.
LEMMA LedgerCancel ==
    ASSUME TypeInv, WorkingLedger, Cancel
    PROVE  WorkingLedger'
  <1> DEFINE i == msg.order
             o == orders[i]
             n == Canceled(o)
  <1>1. i \in DOMAIN orders /\ o \in OrderType /\ msg.user \in Users /\ IsLive(o)
    BY LenProperties, ElementOfSeq
       DEF Cancel, Cancelable, TypeInv, PhaseInv, WorkingType, HandlerType, MsgType
  <1>2. orders' = [orders EXCEPT ![i] = n] /\ n \in OrderType
    BY <1>1, CanceledType DEF Cancel
  <1>3. Held(n) = 0
    BY <1>1 DEF Canceled, Held, IsLive, OrderType
  <1>4. Held(o) = (IF o.type = "BUY" THEN Refund(o) ELSE 0) /\ Held(o) \in Nat
    BY <1>1, HeldType DEF Held, Refund
  <1>5. orders \in Seq(OrderType) /\ balance \in [Users -> Nat]
    BY DEF TypeInv, WorkingType
  <1>6. Escrow(orders') = Escrow(orders) - Held(o) + Held(n)
    BY <1>1, <1>2, <1>5, EscrowUpdate
  <1>7. /\ fees' = fees /\ unpaid' = unpaid /\ unfunded' = unfunded
        /\ InitialPoints' = InitialPoints
    BY DEF Cancel, InitialPoints
  <1>10. PICK given \in Nat : GivingBack(o, given)
    BY CancelStep
  <1> HIDE DEF n, o, i
  <1>8. CASE o.type = "BUY"
    <2>1. Refund(o) \in Nat /\ balance[msg.user] \in Nat
      BY <1>1, <1>4, <1>5, <1>8
    <2>5. /\ balance' = [balance EXCEPT ![msg.user] = @ + given]
          /\ unrefunded' = unrefunded + (Refund(o) - given)
      BY <1>8, <1>10 DEF GivingBack
    <2>2. /\ balance' \in [Users -> Nat]
          /\ balance'[msg.user] = balance[msg.user] + given
          /\ \A v \in Users \ {msg.user} : balance'[v] = balance[v]
      BY <1>1, <1>5, <2>1, <2>5
    <2>3. SumOver(Users, balance') = SumOver(Users, balance) - balance[msg.user]
                                       + balance'[msg.user]
      BY <1>1, <1>5, <2>2, BalanceUpdate
    <2>4. Escrow(orders') = Escrow(orders) - Refund(o)
      BY <1>3, <1>4, <1>6, <1>8, <2>1, TotalsType
    <2> QED
      BY <1>7, <2>1, <2>2, <2>3, <2>4, <2>5, TotalsType DEF WorkingLedger
  <1>9. CASE o.type # "BUY"
    <2>1. Escrow(orders') = Escrow(orders)
      BY <1>3, <1>4, <1>6, <1>9, TotalsType
    <2>2. balance' = balance /\ unrefunded' = unrefunded
      BY <1>9, <1>10 DEF GivingBack
    <2> QED
      BY <1>7, <2>1, <2>2, TotalsType DEF WorkingLedger
  <1> QED
    BY <1>8, <1>9

\* Deleting or hiding the item moves the points of every BUY order to one account
\* or counts them as not given back.
LEMMA LedgerClose ==
    ASSUME TypeInv, WorkingLedger, Delete \/ HideItem
    PROVE  WorkingLedger'
  <1>1. PICK status \in Statuses \ {"WAIT"} : CloseOrders(status)
    BY DEF Delete, HideItem, Statuses
  <1>2. orders \in Seq(OrderType) /\ balance \in [Users -> Nat] /\ msg.user \in Users
    BY DEF TypeInv, WorkingType, HandlerType, MsgType
  <1>3. /\ fees' = fees /\ unpaid' = unpaid /\ unfunded' = unfunded
        /\ InitialPoints' = InitialPoints
    BY DEF Delete, HideItem, InitialPoints
  <1>4. CASE AnyLive
    <2>1. orders' = Closed(orders, status)
      BY <1>1, <1>4 DEF CloseOrders
    <2>2. Escrow(orders') = 0
      BY <1>2, <2>1, EscrowClosed
    <2>3. PICK given \in Nat, lost \in Nat :
             /\ given + lost = Escrow(orders)
             /\ balance' = [balance EXCEPT ![msg.user] = @ + given]
             /\ unrefunded' = unrefunded + lost
      BY <1>1, <1>4, CloseOrdersStep
    <2>4. balance[msg.user] \in Nat
      BY <1>2
    <2>5. /\ balance' \in [Users -> Nat] /\ balance'[msg.user] = balance[msg.user] + given
          /\ \A v \in Users \ {msg.user} : balance'[v] = balance[v]
      BY <1>2, <2>3
    <2>6. SumOver(Users, balance') = SumOver(Users, balance) - balance[msg.user]
                                       + balance'[msg.user]
      BY <1>2, <2>5, BalanceUpdate
    <2>7. SumOver(Users, balance') = SumOver(Users, balance) + given
      BY <2>4, <2>5, <2>6, TotalsType
    <2> QED
      BY <1>3, <2>2, <2>3, <2>7, TotalsType DEF WorkingLedger
  <1>5. CASE ~AnyLive
    <2>1. orders' = orders /\ balance' = balance /\ unrefunded' = unrefunded
      BY <1>1, <1>5 DEF CloseOrders
    <2> QED
      BY <1>3, <2>1 DEF WorkingLedger
  <1> QED
    BY <1>4, <1>5

\* The committed ledger is the working one of a commit, or stays.
LEMMA LedgerNext == TypeInv /\ LedgerInv /\ [Next]_vars => LedgerInv'
  <1> SUFFICES ASSUME TypeInv, LedgerInv, [Next]_vars
               PROVE  LedgerInv'
    OBVIOUS
  <1>1. WorkingLedger /\ LedgerOf(committed)
    BY LedgerTables DEF LedgerInv
  <1>2. InitialPoints' = InitialPoints
    BY DEF InitialPoints
  <1>3. CASE Modify \/ Cancel \/ Delete \/ HideItem
    <2>1. WorkingLedger'
      BY <1>1, <1>3, LedgerModify, LedgerCancel, LedgerClose
    <2>2. committed' = Tables'
      BY <1>3 DEF Modify, Cancel, Delete, HideItem, Commit
    <2>3. LedgerOf(Tables)'
      BY <2>1, LedgerTables DEF LedgerOf, Points, Tables, WorkingLedger
    <2> QED
      BY <2>2, <2>3 DEF LedgerInv, LedgerOf, Points, InitialPoints
  <1>4. CASE ~Modify /\ ~Cancel /\ ~Delete /\ ~HideItem
    <2>1. unfunded' = unfunded /\ unrefunded' = unrefunded
      BY <1>4 DEF Next, vars, history, Receive, Fill, FillDone, Settle, SettleFails,
         Finish, OpenRemainder, OpenFails, QueryFails, Refuse, Reply,
         Crash, BatchDeleteOrderVolumeZero, Rollback
    <2>2. LedgerOf(Tables)'
      <3>1. CASE Fill \/ OpenRemainder
        <4>1. WorkingLedger'
          BY <1>1, <3>1, LedgerFill, LedgerOpen
        <4> QED
          BY <4>1 DEF LedgerOf, Points, Tables, WorkingLedger
      <3>2. CASE SettleFails \/ OpenFails \/ QueryFails \/ Refuse \/ Crash
        <4>1. Tables' = committed
          BY <3>2, Restored DEF SettleFails, OpenFails, QueryFails, Refuse, Crash, Rollback
        <4> QED
          BY <1>1, <1>2, <2>1, <4>1 DEF LedgerOf, Points
      <3>3. CASE UNCHANGED <<orders, balance, fees, unpaid>>
        BY <1>1, <1>2, <2>1, <3>3 DEF LedgerOf, Points, Tables, WorkingLedger
      <3> QED
        BY <1>4, <3>1, <3>2, <3>3 DEF Next, vars, tables, Receive, FillDone, Settle,
           Finish, Reply, BatchDeleteOrderVolumeZero
    <2>3. LedgerOf(committed)'
      <3>1. CASE committed' = Tables'
        BY <2>2, <3>1 DEF LedgerOf, Points
      <3>2. CASE committed' = committed
        BY <1>1, <1>2, <2>1, <3>2 DEF LedgerOf, Points
      <3>3. CASE committed' = [committed EXCEPT !.book = WithoutZeroRows(@)]
        <4>1. /\ committed'.balance = committed.balance
              /\ committed'.orders = committed.orders
              /\ committed'.fees = committed.fees /\ committed'.unpaid = committed.unpaid
          BY <3>3 DEF TypeInv, TablesType
        <4> QED
          BY <1>1, <1>2, <2>1, <4>1 DEF LedgerOf, Points
      <3> QED
        BY <3>1, <3>2, <3>3, CommittedStep
    <2> QED
      BY <2>2, <2>3 DEF LedgerInv
  <1> QED
    BY <1>3, <1>4

\* Every point is accounted for, whatever the fee, the prices, the order of the
\* messages and the deposits and charges that return false: only the two places
\* that unpaid and unfunded count create any, and only the refunds that unrefunded
\* counts lose any.
THEOREM LedgerIsBalanced == Spec => []LedgerBalanced
  <1>1. Init => TypeInv /\ LedgerInv
    BY TypeInit, LedgerInit
  <1>2. TypeInv /\ LedgerInv /\ [Next]_vars => (TypeInv /\ LedgerInv)'
    BY TypeNext, LedgerNext
  <1>3. LedgerInv => LedgerBalanced
    BY DEF LedgerInv, LedgerOf, Points, LedgerBalanced
  <1> QED
    BY <1>1, <1>2, <1>3, PTL DEF Spec

-----------------------------------------------------------------------------
\* The wealth of a user.

\* What an order holds of a user's points, as a column.
PrepaidColumn(u) == [o \in OrderType |-> IF o.user = u THEN Held(o) ELSE 0]

\* A user's prepaid points are the total of that column.
LEMMA PrepaidTotal ==
    ASSUME NEW os \in Seq(OrderType), NEW u \in Users
    PROVE  /\ Prepaid(os, u) = Total(os, PrepaidColumn(u))
           /\ PrepaidColumn(u) \in [OrderType -> Nat]
           /\ Prepaid(os, u) \in Nat
  <1>1. PrepaidColumn(u) \in [OrderType -> Nat]
    BY HeldType DEF PrepaidColumn
  <1> DEFINE f == [i \in DOMAIN os |-> IF os[i].user = u THEN Held(os[i]) ELSE 0]
  <1>2. \A j \in DOMAIN os : f[j] = Column(os, PrepaidColumn(u))[j]
    BY ElementOfSeq, LenProperties DEF Column, PrepaidColumn
  <1>3. Prepaid(os, u) = SumOver(DOMAIN os, f)
    BY DEF Prepaid
  <1> HIDE DEF f
  <1>4. SumOver(DOMAIN os, f) = SumOver(DOMAIN os, Column(os, PrepaidColumn(u)))
    BY <1>2, SumSame
  <1> QED
    BY <1>1, <1>3, <1>4, TotalNat DEF Total

\* Replacing an order by one of the same user changes that user's prepaid
\* points, and nobody else's.
LEMMA PrepaidUpdate ==
    ASSUME NEW os \in Seq(OrderType), NEW i \in DOMAIN os, NEW n \in OrderType,
           n.user = os[i].user, NEW u \in Users
    PROVE  Prepaid([os EXCEPT ![i] = n], u)
             = IF u = os[i].user THEN Prepaid(os, u) - Held(os[i]) + Held(n)
               ELSE Prepaid(os, u)
  <1>1. [os EXCEPT ![i] = n] \in Seq(OrderType) /\ os[i] \in OrderType
    BY ExceptSeq, ElementOfSeq, LenProperties
  <1>2. /\ PrepaidColumn(u)[os[i]] = (IF os[i].user = u THEN Held(os[i]) ELSE 0)
        /\ PrepaidColumn(u)[n] = (IF os[i].user = u THEN Held(n) ELSE 0)
    BY <1>1 DEF PrepaidColumn
  <1>3. Prepaid([os EXCEPT ![i] = n], u)
          = Prepaid(os, u) - PrepaidColumn(u)[os[i]] + PrepaidColumn(u)[n]
    <2> DEFINE w == PrepaidColumn(u)
               ns == [os EXCEPT ![i] = n]
    <2>1. w \in [OrderType -> Nat]
      BY PrepaidTotal
    <2>2. Prepaid(ns, u) = Total(ns, w) /\ Prepaid(os, u) = Total(os, w)
      BY <1>1, PrepaidTotal
    <2> HIDE DEF w
    <2>3. Total(ns, w) = Total(os, w) - w[os[i]] + w[n]
      BY <2>1, TotalUpdate
    <2> QED
      BY <2>2, <2>3 DEF w
  <1> QED
    BY <1>2, <1>3, PrepaidTotal

\* An opened order is prepaid by its user.
LEMMA PrepaidAppend ==
    ASSUME NEW os \in Seq(OrderType), NEW n \in OrderType, NEW u \in Users
    PROVE  Prepaid(Append(os, n), u)
             = IF u = n.user THEN Prepaid(os, u) + Held(n) ELSE Prepaid(os, u)
  <1>1. Append(os, n) \in Seq(OrderType)
    BY AppendProperties
  <1>2. PrepaidColumn(u)[n] = IF n.user = u THEN Held(n) ELSE 0
    BY DEF PrepaidColumn
  <1>3. Prepaid(Append(os, n), u) = Prepaid(os, u) + PrepaidColumn(u)[n]
    BY <1>1, PrepaidTotal, TotalAppend
  <1> QED
    BY <1>2, <1>3, PrepaidTotal

\* The wealth of a user in the working tables.
Worth(u) == balance[u] + Prepaid(orders, u)

\* Opening an order moves its price from the account to the order.
LEMMA WorthOpen ==
    ASSUME TypeInv, OpenRemainder, NEW u \in Users
    PROVE  Worth(u)' = Worth(u)
  <1> DEFINE new == NewOrder(msg.user, Side(msg), msg.amount, rem)
             cost == Cost(msg.amount, rem)
  <1>1. /\ msg.amount \in Amounts /\ msg.user \in Users /\ rem \in Nat
        /\ Side(msg) \in Sides
    BY DEF OpenRemainder, OpensRemainder, AllSettled, TypeInv, HandlerType, PhaseInv,
           MsgType, Side, Sides
  <1>2. new \in OrderType /\ orders \in Seq(OrderType) /\ balance \in [Users -> Nat]
    BY <1>1, NewOrderType DEF TypeInv, WorkingType
  <1>3. cost \in Nat
    BY <1>1, AmountsAssumption, CostType
  <1>4. new.user = msg.user /\ Held(new) = IF Side(msg) = "BUY" THEN cost ELSE 0
    BY DEF NewOrder, Held, IsLive
  <1>5. /\ orders' = Append(orders, new)
        /\ balance' = IF Side(msg) = "BUY" THEN [balance EXCEPT ![msg.user] = @ - cost]
                      ELSE balance
    BY DEF OpenRemainder
  <1> HIDE DEF new, cost
  <1>6. Prepaid(orders', u) = IF u = msg.user THEN Prepaid(orders, u) + Held(new)
                              ELSE Prepaid(orders, u)
    BY <1>2, <1>4, <1>5, PrepaidAppend
  <1>7. balance'[u] = IF u = msg.user /\ Side(msg) = "BUY" THEN balance[u] - cost
                      ELSE balance[u]
    BY <1>2, <1>5
  <1>8. Prepaid(orders, u) \in Nat /\ balance[u] \in Nat
    BY <1>2, PrepaidTotal
  <1> QED
    BY <1>3, <1>4, <1>6, <1>7, <1>8 DEF Worth

\* What a step gives the sender of the message by a charge that was not made,
\* less what it takes by a refund that was not.
Slip(u) ==
    IF u = msg.user THEN (unfunded' - unfunded) - (unrefunded' - unrefunded) ELSE 0

\* A modification moves points between the account and the order, but for what
\* it does not charge or give back.
LEMMA WorthModify ==
    ASSUME TypeInv, Modify, NEW u \in Users
    PROVE  Worth(u)' = Worth(u) + Slip(u)
  <1>1. PICK i \in Nat, new \in Nat, given \in Nat, charged \in Nat :
           Modifying(i, new, given, charged)
    BY ModifyStep
  <1> DEFINE o == orders[i]
             n == Modified(o, msg)
  <1>2. /\ i \in DOMAIN orders /\ o \in OrderType /\ IsLive(o) /\ o.user = msg.user
        /\ msg.amount \in Amounts /\ msg.volume \in Volumes /\ msg.user \in Users
        /\ new = Cost(msg.amount, msg.volume) /\ orders' = [orders EXCEPT ![i] = n]
    BY <1>1 DEF Modifying, Modifiable
  <1>3. n \in OrderType
    BY <1>2, ModifiedType
  <1>4. /\ n.type = o.type /\ n.status = o.status /\ n.amount = msg.amount
        /\ n.volume = msg.volume /\ n.user = o.user
    BY <1>2 DEF Modified, OrderType
  <1>5. /\ Held(n) = (IF o.type = "BUY" THEN new ELSE 0)
        /\ Held(o) = (IF o.type = "BUY" THEN Refund(o) ELSE 0)
    BY <1>2, <1>4 DEF Held, IsLive, Refund
  <1>6. orders \in Seq(OrderType) /\ balance \in [Users -> Nat]
    BY DEF TypeInv, WorkingType
  <1>7. Held(o) \in Nat
    BY <1>2, HeldType
  <1> HIDE DEF n
  <1>8. Prepaid(orders', u) = IF u = msg.user THEN Prepaid(orders, u) - Held(o) + Held(n)
                              ELSE Prepaid(orders, u)
    <2>1. Prepaid([orders EXCEPT ![i] = n], u)
            = IF u = orders[i].user THEN Prepaid(orders, u) - Held(orders[i]) + Held(n)
              ELSE Prepaid(orders, u)
      <3>1. i \in DOMAIN orders /\ n \in OrderType /\ orders \in Seq(OrderType)
        BY <1>2, <1>3, <1>6
      <3>2. n.user = orders[i].user
        BY <1>4
      <3> HIDE DEF o
      <3> QED
        BY <3>1, <3>2, PrepaidUpdate
    <2> QED
      BY <1>2, <2>1
  <1>9. Prepaid(orders, u) \in Nat /\ balance[u] \in Nat
    BY <1>6, PrepaidTotal
  <1>12. unfunded \in Nat /\ unrefunded \in Nat
    BY DEF TypeInv, HandlerType
  <1>10. CASE o.type = "BUY"
    <2>1. /\ balance' = [v \in Users |->
                            IF v = msg.user THEN balance[v] + given - charged ELSE balance[v]]
          /\ unfunded' = unfunded + (new - charged)
          /\ unrefunded' = unrefunded + (Refund(o) - given)
      BY <1>1, <1>10 DEF Modifying
    <2>2. balance'[u] = IF u = msg.user THEN balance[u] + given - charged ELSE balance[u]
      BY <2>1
    <2>3. Slip(u) = IF u = msg.user THEN (new - charged) - (Refund(o) - given) ELSE 0
      <3>1. Refund(o) \in Nat
        BY <1>1 DEF Modifying
      <3> QED
        BY <1>12, <2>1, <3>1 DEF Slip
    <2>4. Held(n) = new /\ Held(o) = Refund(o)
      BY <1>5, <1>10
    <2> HIDE DEF o
    <2> QED
      BY <1>7, <1>8, <1>9, <2>2, <2>3, <2>4 DEF Worth
  <1>11. CASE o.type # "BUY"
    <2>1. balance' = balance /\ Slip(u) = 0
      BY <1>1, <1>11, <1>12 DEF Modifying, Slip
    <2>2. Held(n) = 0 /\ Held(o) = 0
      BY <1>5, <1>11
    <2> HIDE DEF o
    <2> QED
      BY <1>8, <1>9, <2>1, <2>2 DEF Worth
  <1> QED
    BY <1>10, <1>11

\* A cancellation moves an order's points back to the account of its user,
\* but for what it does not give back.
LEMMA WorthCancel ==
    ASSUME TypeInv, Cancel, NEW u \in Users
    PROVE  Worth(u)' = Worth(u) + Slip(u)
  <1> DEFINE i == msg.order
             o == orders[i]
             n == Canceled(o)
  <1>1. /\ i \in DOMAIN orders /\ o \in OrderType /\ msg.user \in Users /\ IsLive(o)
        /\ o.user = msg.user
    BY LenProperties, ElementOfSeq
       DEF Cancel, Cancelable, TypeInv, PhaseInv, WorkingType, HandlerType, MsgType
  <1>2. orders' = [orders EXCEPT ![i] = n] /\ n \in OrderType
    BY <1>1, CanceledType DEF Cancel
  <1>3. Held(n) = 0 /\ n.user = o.user
    BY <1>1 DEF Canceled, Held, IsLive, OrderType
  <1>4. Held(o) = (IF o.type = "BUY" THEN Refund(o) ELSE 0) /\ Held(o) \in Nat
    BY <1>1, HeldType DEF Held, Refund
  <1>5. orders \in Seq(OrderType) /\ balance \in [Users -> Nat]
    BY DEF TypeInv, WorkingType
  <1>6. PICK given \in Nat : GivingBack(o, given)
    BY CancelStep
  <1> HIDE DEF n
  <1>7. Prepaid(orders', u) = IF u = msg.user THEN Prepaid(orders, u) - Held(o) + Held(n)
                              ELSE Prepaid(orders, u)
    <2>1. Prepaid([orders EXCEPT ![i] = n], u)
            = IF u = orders[i].user THEN Prepaid(orders, u) - Held(orders[i]) + Held(n)
              ELSE Prepaid(orders, u)
      BY <1>1, <1>2, <1>3, <1>5, PrepaidUpdate
    <2> QED
      BY <1>1, <1>2, <2>1
  <1>8. Prepaid(orders, u) \in Nat /\ balance[u] \in Nat
    BY <1>5, PrepaidTotal
  <1> HIDE DEF o, i
  <1>9. unfunded' = unfunded /\ unfunded \in Nat /\ unrefunded \in Nat
    BY DEF Cancel, TypeInv, HandlerType
  <1>10. CASE o.type = "BUY"
    <2>1. balance'[u] = IF u = msg.user THEN balance[u] + given ELSE balance[u]
      BY <1>5, <1>6, <1>10 DEF GivingBack
    <2>2. Slip(u) = IF u = msg.user THEN given - Refund(o) ELSE 0
      BY <1>4, <1>6, <1>9, <1>10 DEF GivingBack, Slip
    <2>3. /\ Prepaid(orders', u) = IF u = msg.user THEN Prepaid(orders, u) - Refund(o)
                                 ELSE Prepaid(orders, u)
          /\ Refund(o) \in Nat
      BY <1>3, <1>4, <1>7, <1>8, <1>10
    <2> QED
      BY <1>8, <2>1, <2>2, <2>3 DEF Worth
  <1>11. CASE o.type # "BUY"
    <2>1. balance' = balance /\ Slip(u) = 0
      BY <1>6, <1>9, <1>11 DEF GivingBack, Slip
    <2> QED
      BY <1>3, <1>4, <1>7, <1>8, <1>11, <2>1 DEF Worth
  <1> QED
    BY <1>10, <1>11

\* A commit without a match or a deletion keeps the wealth of every user, but for
\* what the sender of the message was not charged or not given back.
LEMMA WealthStep ==
    ASSUME TypeInv, TxnInv, [Next]_vars,
           committed' # committed, committed'.matchCnt = committed.matchCnt,
           msg.type \notin {"DELETE", "HIDE_ITEM"}, NEW u \in Users
    PROVE  Wealth(committed', u) = Wealth(committed, u) + Slip(u)
  <1>0. /\ unfunded \in Nat /\ unrefunded \in Nat
        /\ Worth(u) \in Nat /\ Wealth(committed, u) \in Nat
    <2>1. /\ orders \in Seq(OrderType) /\ balance[u] \in Nat
          /\ committed.orders \in Seq(OrderType) /\ committed.balance[u] \in Nat
      BY DEF TypeInv, WorkingType, TablesType
    <2> QED
      BY <2>1, PrepaidTotal DEF TypeInv, HandlerType, Worth, Wealth
  <1>1. CASE Finish \/ OpenRemainder \/ Modify \/ Cancel
    <2>1. /\ committed'.orders = orders' /\ committed'.balance = balance'
          /\ committed'.matchCnt = matchCnt'
      <3>1. Commit
        BY <1>1 DEF Finish, OpenRemainder, Modify, Cancel
      <3> QED
        BY <3>1 DEF Commit, Tables
    <2>2. Wealth(committed', u) = Worth(u)'
      BY <2>1 DEF Wealth, Worth
    <2>3. orders = committed.orders /\ balance = committed.balance
      <3>1. CASE Finish \/ OpenRemainder
        <4>1. matchCnt + Len(fills) = matchCnt
          BY <2>1, <3>1 DEF Finish, OpenRemainder, TxnInv
        <4>2. Len(fills) = 0
          BY <4>1, LenProperties DEF TypeInv, WorkingType, HandlerType
        <4>3. fills = <<>>
          BY <4>2, EmptySeq DEF TypeInv, HandlerType
        <4> QED
          BY <4>3 DEF TxnInv
      <3>2. CASE Modify \/ Cancel
        BY <3>2 DEF Modify, Cancel, TxnInv, Matches
      <3> QED
        BY <1>1, <3>1, <3>2
    <2>4. Wealth(committed, u) = Worth(u)
      BY <2>3 DEF Wealth, Worth
    <2>5. Worth(u)' = Worth(u) + Slip(u)
      <3>1. CASE Finish \/ OpenRemainder
        <4>1. Worth(u)' = Worth(u)
          BY <3>1, WorthOpen DEF Finish, Worth
        <4>2. unfunded' = unfunded /\ unrefunded' = unrefunded
          BY <3>1 DEF Finish, OpenRemainder, history
        <4> QED
          BY <1>0, <4>1, <4>2 DEF Slip
      <3> QED
        BY <1>1, <3>1, WorthModify, WorthCancel
    <2> QED
      BY <2>2, <2>4, <2>5
  <1>2. CASE BatchDeleteOrderVolumeZero
    <2>1. committed'.orders = committed.orders /\ committed'.balance = committed.balance
      BY <1>2 DEF BatchDeleteOrderVolumeZero, TypeInv, TablesType
    <2>2. unfunded' = unfunded /\ unrefunded' = unrefunded
      BY <1>2 DEF BatchDeleteOrderVolumeZero
    <2> QED
      BY <1>0, <2>1, <2>2 DEF Wealth, Slip
  <1>3. ~Delete /\ ~HideItem
    BY DEF TxnInv, Delete, HideItem
  <1> QED
    BY <1>1, <1>2, <1>3 DEF Next, vars, Receive, Fill, FillDone, Settle,
       SettleFails, OpenFails, QueryFails, Refuse, Reply, Crash, Rollback, Restore

\* Without a match, nobody gains or loses a point, whatever the number of
\* orders opened, modified and cancelled, and whatever the prices, except the
\* sender of a message: exactly what a call of modifyOrder or cancelOrder did not
\* charge or did not give back.
THEOREM WealthIsKept == Spec => WealthKeptWithoutMatch
  <1> DEFINE Kept == /\ committed'.fees = committed.fees
                     /\ committed'.unpaid = committed.unpaid
                     /\ committed'.matchCnt = committed.matchCnt
                     /\ msg.type \notin {"DELETE", "HIDE_ITEM"}
                     => \A u \in Users :
                           Wealth(committed', u) = Wealth(committed, u) + Slip(u)
  <1>1. TypeInv /\ TxnInv /\ [Next]_vars => [Kept]_committed
    BY WealthStep
  <1> QED
    BY <1>1, TurnAlways, PTL DEF Spec, WealthKeptWithoutMatch, Slip

-----------------------------------------------------------------------------
\* The order book.

\* What an order offers at a side and price, as a column.
Offered(o, k) ==
    IF IsLive(o) /\ o.type = k[1] /\ o.amount = k[2] THEN o.volume ELSE 0
OfferColumn(k) == [o \in OrderType |-> Offered(o, k)]

\* The live volume is the total of that column.
LEMMA LiveTotal ==
    ASSUME NEW os \in Seq(OrderType), NEW k \in Keys
    PROVE  /\ LiveVolume(os, k) = Total(os, OfferColumn(k))
           /\ OfferColumn(k) \in [OrderType -> Nat]
           /\ LiveVolume(os, k) \in Nat
  <1>1. OfferColumn(k) \in [OrderType -> Nat]
    BY DEF OfferColumn, Offered, OrderType
  <1> DEFINE f == [i \in DOMAIN os |-> IF i \in LiveAt(os, k) THEN os[i].volume ELSE 0]
  <1>2. \A j \in DOMAIN os : f[j] = Column(os, OfferColumn(k))[j]
    <2> TAKE j \in DOMAIN os
    <2>1. os[j] \in OrderType
      BY ElementOfSeq, LenProperties
    <2>2. Column(os, OfferColumn(k))[j] = Offered(os[j], k)
      BY <2>1 DEF Column, OfferColumn
    <2> QED
      BY <2>2 DEF Offered, LiveAt
  <1>3. LiveVolume(os, k) = SumOver(DOMAIN os, f)
    BY DEF LiveVolume
  <1> HIDE DEF f
  <1>4. SumOver(DOMAIN os, f) = SumOver(DOMAIN os, Column(os, OfferColumn(k)))
    BY <1>2, SumSame
  <1> QED
    BY <1>1, <1>3, <1>4, TotalNat DEF Total

\* Replacing an order changes the live volumes by what it offers.
LEMMA LiveUpdate ==
    ASSUME NEW os \in Seq(OrderType), NEW i \in DOMAIN os, NEW n \in OrderType,
           NEW k \in Keys
    PROVE  LiveVolume([os EXCEPT ![i] = n], k)
             = LiveVolume(os, k) - Offered(os[i], k) + Offered(n, k)
  <1> DEFINE w == OfferColumn(k)
             ns == [os EXCEPT ![i] = n]
  <1>1. ns \in Seq(OrderType) /\ os[i] \in OrderType
    BY ExceptSeq, ElementOfSeq, LenProperties
  <1>2. w[os[i]] = Offered(os[i], k) /\ w[n] = Offered(n, k)
    BY <1>1 DEF OfferColumn
  <1>3. /\ w \in [OrderType -> Nat]
        /\ LiveVolume(ns, k) = Total(ns, w) /\ LiveVolume(os, k) = Total(os, w)
    BY <1>1, LiveTotal
  <1> HIDE DEF w
  <1>4. Total(ns, w) = Total(os, w) - w[os[i]] + w[n]
    BY <1>3, TotalUpdate
  <1> QED
    BY <1>2, <1>3, <1>4

\* A new order adds what it offers.
LEMMA LiveAppend ==
    ASSUME NEW os \in Seq(OrderType), NEW n \in OrderType, NEW k \in Keys
    PROVE  LiveVolume(Append(os, n), k) = LiveVolume(os, k) + Offered(n, k)
  <1>1. Append(os, n) \in Seq(OrderType)
    BY AppendProperties
  <1>2. OfferColumn(k)[n] = Offered(n, k)
    BY DEF OfferColumn
  <1> QED
    BY <1>1, <1>2, LiveTotal, TotalAppend

\* Closed orders offer nothing.
LEMMA LiveClosed ==
    ASSUME NEW os \in Seq(OrderType), NEW status \in {"CANCELED", "HIDE"}, NEW k \in Keys
    PROVE  LiveVolume(Closed(os, status), k) = 0
  <1> DEFINE ns == Closed(os, status)
             f == [i \in DOMAIN ns |-> IF i \in LiveAt(ns, k) THEN ns[i].volume ELSE 0]
  <1>1. \A j \in DOMAIN ns : f[j] = 0
    BY ClosedLive
  <1>2. LiveVolume(ns, k) = SumOver(DOMAIN ns, f)
    BY DEF LiveVolume
  <1> HIDE DEF f, ns
  <1>3. SumOver(DOMAIN ns, f) = 0
    BY <1>1, SumZero
  <1> QED
    BY <1>2, <1>3 DEF ns

\* upsertOrderBook adds a volume to the row of a side and price, or takes one
\* away that the row has, and leaves the other rows alone: its absolute value
\* and the insert of a row that is not found never matter.
LEMMA UpsertFollows ==
    ASSUME NEW b \in BookType, NEW k \in Keys, NEW v \in Nat, NEW open \in BOOLEAN,
           k \in seen => b[k] # NoRow,
           ~open => v <= BookVolume(b, k)
    PROVE  LET n == UpsertOrderBook(b, k, v, open)
           IN  /\ n \in BookType /\ n[k] # NoRow
               /\ BookVolume(n, k)
                    = IF open THEN BookVolume(b, k) + v ELSE BookVolume(b, k) - v
               /\ \A q \in Keys \ {k} : n[q] = b[q]
  <1> DEFINE x == IF open THEN b[k] + v ELSE b[k] - v
             n == UpsertOrderBook(b, k, v, open)
  <1>1. CASE b[k] # NoRow
    <2>1. b[k] \in Nat /\ BookVolume(b, k) = b[k]
      BY <1>1 DEF BookType, BookVolume
    <2>2. x \in Nat
      BY <2>1
    <2>3. AbsOf(x) = x
      BY <2>2 DEF AbsOf
    <2>4. n = [b EXCEPT ![k] = x]
      BY <1>1, <2>3 DEF UpsertOrderBook
    <2> HIDE DEF n
    <2>5. n \in BookType /\ n[k] = x /\ \A q \in Keys \ {k} : n[q] = b[q]
      BY <2>2, <2>4 DEF BookType
    <2>6. n[k] # NoRow /\ BookVolume(n, k) = x
      BY <2>2, <2>5 DEF NoRow, BookVolume
    <2>7. x = IF open THEN BookVolume(b, k) + v ELSE BookVolume(b, k) - v
      BY <2>1
    <2> QED
      BY <2>5, <2>6, <2>7 DEF n
  <1>2. CASE b[k] = NoRow
    <2>1. BookVolume(b, k) = 0 /\ k \notin seen
      BY <1>2 DEF BookVolume
    <2>2. n = [b EXCEPT ![k] = v]
      BY <1>2, <2>1 DEF UpsertOrderBook
    <2> HIDE DEF n
    <2>3. n \in BookType /\ n[k] = v /\ \A q \in Keys \ {k} : n[q] = b[q]
      BY <2>2 DEF BookType
    <2>4. n[k] # NoRow /\ BookVolume(n, k) = v
      BY <2>3 DEF NoRow, BookVolume
    <2>5. v = IF open THEN BookVolume(b, k) + v ELSE BookVolume(b, k) - v
      BY <2>1
    <2> QED
      BY <2>3, <2>4, <2>5 DEF n
  <1> QED
    BY <1>1, <1>2

\* What the open transaction has matched at a side and price.
Matched(k) == IF Matches /\ k = MatchKey THEN msg.volume - rem ELSE 0

\* The book shows the committed orders; the working ones offer less by what
\* the transaction has matched; and its snapshot has the rows of the book, up
\* to the handler's first write.
BookInv ==
    ~swept /\ ~item.isDeleted =>
        /\ \A k \in Keys : BookVolume(book, k) = LiveVolume(committed.orders, k)
        /\ \A k \in Keys :
              LiveVolume(committed.orders, k) = LiveVolume(orders, k) + Matched(k)
        /\ phase \in {"fill", "settle", "modify", "cancel"} => seen = RowsOf(book)

\* The book of a new item shows the order it is created with.
LEMMA BookInit == Init => BookInv
  <1> SUFFICES ASSUME Init, NEW k \in Keys
               PROVE  /\ BookVolume(book, k) = LiveVolume(committed.orders, k)
                      /\ LiveVolume(committed.orders, k) = LiveVolume(orders, k) + Matched(k)
    BY DEF BookInv, Init
  <1>1. PICK volume \in Volumes, amount \in Amounts :
           /\ orders = <<NewOrder(Owner, "SELL", amount, volume)>>
           /\ book = [q \in Keys |-> IF q = <<"SELL", amount>> THEN volume ELSE NoRow]
    BY DEF Init
  <1> DEFINE new == NewOrder(Owner, "SELL", amount, volume)
  <1>2. new \in OrderType /\ volume \in Nat /\ volume # NoRow
    <2>1. volume \in Nat
      BY AmountsAssumption
    <2> QED
      BY <2>1, NewOrderType, UsersAssumption DEF Sides, NoRow
  <1>3. new.type = "SELL" /\ new.amount = amount /\ new.volume = volume /\ IsLive(new)
    BY DEF NewOrder, IsLive
  <1>4. orders = Append(<<>>, new) /\ <<>> \in Seq(OrderType)
    BY <1>1
  <1>5. LiveVolume(<<>>, k) = 0
    BY SumEmpty DEF LiveVolume
  <1>6. LiveVolume(orders, k) = Offered(new, k)
    <2> HIDE DEF new
    <2>1. LiveVolume(Append(<<>>, new), k) = LiveVolume(<<>>, k) + Offered(new, k)
      BY <1>2, <1>4, LiveAppend
    <2>2. Offered(new, k) \in Nat
      BY <1>2 DEF Offered, OrderType
    <2> QED
      BY <1>4, <1>5, <2>1, <2>2
  <1>7. k = <<"SELL", amount>> <=> k[1] = "SELL" /\ k[2] = amount
    BY DEF Keys
  <1>8. book[k] = IF k[1] = "SELL" /\ k[2] = amount THEN volume ELSE NoRow
    BY <1>1, <1>7
  <1>9. Offered(new, k) = IF k[1] = "SELL" /\ k[2] = amount THEN volume ELSE 0
    <2> HIDE DEF new
    <2> QED
      BY <1>3 DEF Offered
  <1> HIDE DEF new
  <1>10. BookVolume(book, k) = LiveVolume(orders, k)
    BY <1>2, <1>6, <1>8, <1>9 DEF BookVolume
  <1>11. committed.orders = orders /\ Matched(k) = 0
    BY DEF Init, Tables, Matched, Matches
  <1> QED
    BY <1>2, <1>6, <1>9, <1>10, <1>11

\* The request under way, and the side it matches.
LEMMA MatchTyped ==
    ASSUME TypeInv, Matches
    PROVE  /\ msg.amount \in Amounts /\ Side(msg) \in Sides
           /\ MatchKey \in Keys /\ MatchKey # <<Side(msg), msg.amount>>
           /\ <<Side(msg), msg.amount>> \in Keys
           /\ msg.volume \in Nat /\ rem \in Nat /\ msg.volume - rem \in Nat
  <1>1. msg.amount \in Amounts /\ rem <= msg.volume /\ msg.volume \in Nat /\ rem \in Nat
    BY DEF TypeInv, PhaseInv, HandlerType, MsgType, Matches
  <1>2. Side(msg) \in Sides
    BY DEF Side, Sides
  <1> QED
    BY <1>1, <1>2, MatchKeyType DEF MatchKey, Opposite, Sides, Keys

\* The book after the matches shows the working orders.
LEMMA MatchedFollows ==
    ASSUME TypeInv, TxnInv, BookInv, ~swept, ~item.isDeleted, Matches
    PROVE  /\ MatchedBook \in BookType
           /\ \A k \in seen : MatchedBook[k] # NoRow
           /\ \A k \in Keys : BookVolume(MatchedBook, k) = LiveVolume(orders, k)
  <1> DEFINE v == msg.volume - rem
             n == UpsertOrderBook(book, MatchKey, v, FALSE)
  <1>1. MatchKey \in Keys /\ v \in Nat /\ book \in BookType /\ orders \in Seq(OrderType)
    BY MatchTyped DEF TypeInv, WorkingType
  <1>2. \A k \in Keys : LiveVolume(orders, k) \in Nat
    BY <1>1, LiveTotal
  <1>3. \A k \in Keys :
           BookVolume(book, k) = LiveVolume(orders, k) + (IF k = MatchKey THEN v ELSE 0)
    BY DEF BookInv, Matched
  <1>4. seen = RowsOf(book)
    BY DEF BookInv, Matches
  <1>5. \A k \in seen : k \in Keys /\ book[k] # NoRow
    BY <1>4 DEF RowsOf
  <1> HIDE DEF v
  <1>6. CASE fills = <<>>
    <2>1. MatchedBook = book
      BY <1>6 DEF MatchedBook
    <2>2. v = 0
      BY <1>6, MatchTyped DEF TxnInv, Matches, v
    <2> QED
      BY <1>1, <1>2, <1>3, <1>5, <2>1, <2>2
  <1>7. CASE fills # <<>>
    <2>1. MatchedBook = n
      BY <1>7 DEF MatchedBook, v
    <2>2. v <= BookVolume(book, MatchKey)
      BY <1>1, <1>2, <1>3
    <2>3. /\ n \in BookType /\ n[MatchKey] # NoRow
          /\ BookVolume(n, MatchKey) = BookVolume(book, MatchKey) - v
          /\ \A q \in Keys \ {MatchKey} : n[q] = book[q]
      BY <1>1, <1>5, <2>2, UpsertFollows
    <2> HIDE DEF n
    <2>4. ASSUME NEW k \in Keys
          PROVE  BookVolume(n, k) = LiveVolume(orders, k)
      <3>1. CASE k = MatchKey
        BY <1>1, <1>2, <1>3, <2>3, <3>1
      <3>2. CASE k # MatchKey
        <4>1. BookVolume(n, k) = BookVolume(book, k)
          BY <2>3, <3>2 DEF BookVolume
        <4> QED
          BY <1>2, <1>3, <3>2, <4>1
      <3> QED
        BY <3>1, <3>2
    <2>5. \A k \in seen : n[k] # NoRow
      BY <1>5, <2>3
    <2> QED
      BY <2>1, <2>3, <2>4, <2>5
  <1> QED
    BY <1>6, <1>7

\* The book that a request commits shows the orders it commits.
LEMMA BookOpen ==
    ASSUME TypeInv, TxnInv, BookInv, ~swept, ~item.isDeleted, OpenRemainder, NEW k \in Keys
    PROVE  BookVolume(book', k) = LiveVolume(orders', k)
  <1> DEFINE new == NewOrder(msg.user, Side(msg), msg.amount, rem)
             own == <<Side(msg), msg.amount>>
  <1>1. Matches /\ msg.user \in Users
    BY DEF OpenRemainder, OpensRemainder, AllSettled, Matches, TypeInv, HandlerType, MsgType
  <1>2. msg.amount \in Amounts /\ Side(msg) \in Sides /\ own \in Keys /\ rem \in Nat
    BY <1>1, MatchTyped
  <1>3. new \in OrderType /\ orders \in Seq(OrderType)
    BY <1>1, <1>2, NewOrderType DEF TypeInv, WorkingType
  <1>4. new.type = Side(msg) /\ new.amount = msg.amount /\ new.volume = rem /\ IsLive(new)
    BY DEF NewOrder, IsLive
  <1>5. orders' = Append(orders, new) /\ book' = UpsertOrderBook(MatchedBook, own, rem, TRUE)
    BY DEF OpenRemainder
  <1>6. k = own <=> k[1] = Side(msg) /\ k[2] = msg.amount
    BY DEF Keys
  <1> HIDE DEF new, own
  <1>7. /\ book' \in BookType
        /\ BookVolume(book', own) = BookVolume(MatchedBook, own) + rem
        /\ \A q \in Keys \ {own} : book'[q] = MatchedBook[q]
    BY <1>1, <1>2, <1>5, MatchedFollows, UpsertFollows
  <1>8. BookVolume(MatchedBook, k) = LiveVolume(orders, k)
    BY <1>1, MatchedFollows
  <1>9. LiveVolume(orders', k) = LiveVolume(orders, k) + Offered(new, k)
    BY <1>3, <1>5, LiveAppend
  <1>10. LiveVolume(orders, k) \in Nat
    BY <1>3, LiveTotal
  <1>11. CASE k = own
    <2>1. Offered(new, k) = rem
      BY <1>4, <1>6, <1>11 DEF Offered
    <2> QED
      BY <1>7, <1>8, <1>9, <1>11, <2>1
  <1>12. CASE k # own
    <2>1. Offered(new, k) = 0
      BY <1>4, <1>6, <1>12 DEF Offered
    <2>2. BookVolume(book', k) = BookVolume(MatchedBook, k)
      BY <1>7, <1>12 DEF BookVolume
    <2> QED
      BY <1>8, <1>9, <1>10, <2>1, <2>2
  <1> QED
    BY <1>11, <1>12

\* A live order is in the book.
LEMMA LiveIsShown ==
    ASSUME NEW os \in Seq(OrderType), NEW i \in DOMAIN os, IsLive(os[i])
    PROVE  /\ <<os[i].type, os[i].amount>> \in Keys
           /\ os[i].volume <= LiveVolume(os, <<os[i].type, os[i].amount>>)
           /\ \A k \in Keys : Offered(os[i], k) =
                 IF k = <<os[i].type, os[i].amount>> THEN os[i].volume ELSE 0
  <1> DEFINE o == os[i]
             k0 == <<o.type, o.amount>>
             n == [o EXCEPT !.volume = 0]
  <1>1. o \in OrderType
    BY ElementOfSeq, LenProperties
  <1>2. k0 \in Keys /\ n \in OrderType /\ n.volume = 0
    BY <1>1 DEF OrderType, Keys
  <1>3. Offered(n, k0) = 0
    <2> HIDE DEF n
    <2> QED
      BY <1>2 DEF Offered
  <1>4. Offered(o, k0) = o.volume /\ o.volume \in Nat
    BY <1>1 DEF Offered, OrderType
  <1> HIDE DEF n
  <1>5. LiveVolume([os EXCEPT ![i] = n], k0)
          = LiveVolume(os, k0) - Offered(o, k0) + Offered(n, k0)
    BY <1>2, LiveUpdate
  <1>6. [os EXCEPT ![i] = n] \in Seq(OrderType)
    BY <1>2, ExceptSeq, LenProperties
  <1>7. LiveVolume([os EXCEPT ![i] = n], k0) \in Nat /\ LiveVolume(os, k0) \in Nat
    BY <1>2, <1>6, LiveTotal
  <1>8. o.volume <= LiveVolume(os, k0)
    BY <1>3, <1>4, <1>5, <1>7
  <1>9. \A k \in Keys : Offered(o, k) = IF k = k0 THEN o.volume ELSE 0
    <2> TAKE k \in Keys
    <2>1. k = k0 <=> k[1] = o.type /\ k[2] = o.amount
      BY DEF Keys
    <2> HIDE DEF k0
    <2> QED
      BY <2>1 DEF Offered
  <1> QED
    BY <1>2, <1>8, <1>9

\* The book that a modification commits shows the orders it commits: the old
\* row gives up what the order offered, the new one gains what it offers.
LEMMA BookModify ==
    ASSUME TypeInv, TxnInv, BookInv, ~swept, ~item.isDeleted, Modify, NEW k \in Keys
    PROVE  BookVolume(book', k) = LiveVolume(orders', k)
  <1>1. PICK i \in Nat, new \in Nat, given \in Nat, charged \in Nat :
           Modifying(i, new, given, charged)
    BY ModifyStep
  <1> DEFINE o == orders[i]
             n == Modified(o, msg)
             k1 == <<o.type, o.amount>>
             k2 == <<o.type, msg.amount>>
             removed == UpsertOrderBook(book, k1, o.volume, FALSE)
  <1>2. /\ i = msg.order /\ i \in DOMAIN orders /\ o \in OrderType /\ IsLive(o)
        /\ msg.amount \in Amounts /\ msg.volume \in Volumes
        /\ orders' = [orders EXCEPT ![i] = n]
    BY <1>1 DEF Modifying, Modifiable
  <1>3. /\ n \in OrderType /\ orders \in Seq(OrderType) /\ book \in BookType
        /\ msg.volume \in Nat /\ k2 \in Keys
    BY <1>2, ModifiedType, AmountsAssumption DEF TypeInv, WorkingType, OrderType, Keys
  <1>4. n.type = o.type /\ n.status = o.status /\ n.amount = msg.amount /\ n.volume = msg.volume
    BY <1>2 DEF Modified, OrderType
  <1>5. book' = UpsertOrderBook(removed, k2, msg.volume, TRUE)
    BY <1>2 DEF Modify
  <1>6. /\ k1 \in Keys /\ o.volume <= LiveVolume(orders, k1)
        /\ Offered(o, k) = IF k = k1 THEN o.volume ELSE 0
    BY <1>2, <1>3, LiveIsShown
  <1>7. k = k2 <=> k[1] = o.type /\ k[2] = msg.amount
    BY DEF Keys
  <1>8. o.volume \in Nat
    BY <1>2 DEF OrderType
  <1>9. LiveVolume(orders', k) = LiveVolume(orders, k) - Offered(o, k) + Offered(n, k)
    BY <1>2, <1>3, LiveUpdate
  <1> HIDE DEF n, o
  <1>10. IsLive(n)
    BY <1>2, <1>4 DEF IsLive
  <1> HIDE DEF k1, k2
  <1>11. Offered(n, k) = IF k = k2 THEN msg.volume ELSE 0
    BY <1>4, <1>7, <1>10 DEF Offered
  <1>12. orders = committed.orders /\ seen = RowsOf(book)
    BY DEF Modify, TxnInv, Matches, BookInv
  <1>13. \A q \in Keys : BookVolume(book, q) = LiveVolume(orders, q)
    BY <1>12 DEF BookInv
  <1>14. \A q \in seen : q \in Keys /\ book[q] # NoRow
    BY <1>12 DEF RowsOf
  <1>15. /\ removed \in BookType /\ removed[k1] # NoRow
         /\ BookVolume(removed, k1) = BookVolume(book, k1) - o.volume
         /\ \A q \in Keys \ {k1} : removed[q] = book[q]
    <2>1. (k1 \in seen => book[k1] # NoRow) /\ o.volume <= BookVolume(book, k1)
      BY <1>6, <1>13, <1>14
    <2>2. PICK v \in Nat : v = o.volume
      BY <1>8
    <2>3. removed = UpsertOrderBook(book, k1, v, FALSE)
      BY <2>2
    <2> HIDE DEF removed
    <2>4. /\ removed \in BookType /\ removed[k1] # NoRow
          /\ BookVolume(removed, k1) = BookVolume(book, k1) - v
          /\ \A q \in Keys \ {k1} : removed[q] = book[q]
      <3>1. v <= BookVolume(book, k1) /\ (k1 \in seen => book[k1] # NoRow)
        BY <2>1, <2>2
      <3>2. k1 \in Keys /\ book \in BookType
        BY <1>3, <1>6
      <3> HIDE DEF k1, o
      <3>3. PICK open \in BOOLEAN : open = FALSE
        OBVIOUS
      <3>4. PICK n2 : n2 = UpsertOrderBook(book, k1, v, open)
        OBVIOUS
      <3>5. /\ n2 \in BookType /\ n2[k1] # NoRow
            /\ BookVolume(n2, k1) = IF open THEN BookVolume(book, k1) + v
                                     ELSE BookVolume(book, k1) - v
            /\ \A q \in Keys \ {k1} : n2[q] = book[q]
        BY <3>1, <3>2, <3>4, UpsertFollows
      <3> QED
        BY <2>3, <3>3, <3>4, <3>5
    <2> QED
      BY <2>2, <2>4
  <1> HIDE DEF removed
  <1>16. /\ BookVolume(book', k2) = BookVolume(removed, k2) + msg.volume
         /\ \A q \in Keys \ {k2} : book'[q] = removed[q]
    <2>1. k2 \in seen => removed[k2] # NoRow
      BY <1>3, <1>14, <1>15
    <2> DEFINE v == msg.volume
    <2>2. removed \in BookType /\ k2 \in Keys /\ v \in Nat
      BY <1>3, <1>15
    <2>3. book' = UpsertOrderBook(removed, k2, v, TRUE)
      BY <1>5
    <2> HIDE DEF v
    <2>4. /\ BookVolume(book', k2) = BookVolume(removed, k2) + v
          /\ \A q \in Keys \ {k2} : book'[q] = removed[q]
      BY <2>1, <2>2, <2>3, UpsertFollows
    <2> QED
      BY <2>4 DEF v
  <1>17. BookVolume(removed, k) = LiveVolume(orders, k) - Offered(o, k)
    <2>1. LiveVolume(orders, k) \in Nat
      BY <1>3, LiveTotal
    <2>2. k # k1 => BookVolume(removed, k) = BookVolume(book, k)
      BY <1>15 DEF BookVolume
    <2> QED
      BY <1>6, <1>8, <1>13, <1>15, <2>1, <2>2
  <1>18. BookVolume(book', k) = BookVolume(removed, k) + Offered(n, k)
    <2>1. BookVolume(removed, k) \in Int
      BY <1>3, <1>6, <1>8, <1>17, LiveTotal
    <2>2. k # k2 => BookVolume(book', k) = BookVolume(removed, k)
      BY <1>16 DEF BookVolume
    <2> QED
      BY <1>11, <1>16, <2>1, <2>2
  <1> QED
    BY <1>9, <1>17, <1>18

\* The book that a cancellation commits shows the orders it commits.
LEMMA BookCancel ==
    ASSUME TypeInv, TxnInv, BookInv, ~swept, ~item.isDeleted, Cancel, NEW k \in Keys
    PROVE  BookVolume(book', k) = LiveVolume(orders', k)
  <1> DEFINE i == msg.order
             o == orders[i]
             n == Canceled(o)
             k1 == <<o.type, o.amount>>
  <1>1. i \in DOMAIN orders /\ o \in OrderType /\ IsLive(o)
    BY LenProperties, ElementOfSeq
       DEF Cancel, Cancelable, TypeInv, PhaseInv, WorkingType
  <1>2. /\ orders' = [orders EXCEPT ![i] = n] /\ n \in OrderType
        /\ book' = UpsertOrderBook(book, k1, o.volume, FALSE)
        /\ orders \in Seq(OrderType) /\ book \in BookType
    BY <1>1, CanceledType DEF Cancel, TypeInv, WorkingType
  <1>3. /\ k1 \in Keys /\ o.volume <= LiveVolume(orders, k1) /\ o.volume \in Nat
        /\ Offered(o, k) = IF k = k1 THEN o.volume ELSE 0
    BY <1>1, <1>2, LiveIsShown DEF OrderType
  <1>4. Offered(n, k) = 0
    BY <1>1 DEF Canceled, Offered, IsLive, OrderType
  <1>5. LiveVolume(orders', k) = LiveVolume(orders, k) - Offered(o, k) + Offered(n, k)
    BY <1>1, <1>2, LiveUpdate
  <1>6. orders = committed.orders /\ seen = RowsOf(book)
    BY DEF Cancel, TxnInv, Matches, BookInv
  <1>7. \A q \in Keys : BookVolume(book, q) = LiveVolume(orders, q)
    BY <1>6 DEF BookInv
  <1>8. \A q \in seen : q \in Keys /\ book[q] # NoRow
    BY <1>6 DEF RowsOf
  <1> HIDE DEF o, n, k1, i
  <1>9. /\ BookVolume(book', k1) = BookVolume(book, k1) - o.volume
        /\ \A q \in Keys \ {k1} : book'[q] = book[q]
    BY <1>2, <1>3, <1>7, <1>8, UpsertFollows
  <1>10. k # k1 => BookVolume(book', k) = BookVolume(book, k)
    BY <1>9 DEF BookVolume
  <1>11. LiveVolume(orders, k) \in Nat
    BY <1>2, LiveTotal
  <1> QED
    BY <1>3, <1>4, <1>5, <1>7, <1>9, <1>10, <1>11

\* A match moves its volume from what is offered to what is matched.
LEMMA BookFill ==
    ASSUME TypeInv, BookInv, ~swept, ~item.isDeleted, Fill, NEW k \in Keys
    PROVE  LiveVolume(orders', k) + Matched(k)' = LiveVolume(orders, k) + Matched(k)
  <1>1. PICK i \in Nat, volume \in Nat, buyer \in Users, seller \in Users :
           Filling(i, volume, buyer, seller)
    BY FillStep
  <1> DEFINE o == orders[i]
             n == Filled(o, volume)
  <1>2. /\ i \in DOMAIN orders /\ o \in OrderType /\ i \in LiveAt(orders, MatchKey)
        /\ volume <= o.volume /\ volume <= rem /\ rem' = rem - volume
        /\ orders' = [orders EXCEPT ![i] = n]
    BY <1>1 DEF Filling, Resting
  <1>3. n \in OrderType /\ orders \in Seq(OrderType)
    BY <1>2, FilledType DEF TypeInv, WorkingType
  <1>4. IsLive(o) /\ MatchKey = <<o.type, o.amount>>
    BY <1>2 DEF LiveAt, MatchKey
  <1>5. /\ Offered(o, k) = (IF k = MatchKey THEN o.volume ELSE 0) /\ o.volume \in Nat
        /\ k = MatchKey <=> k[1] = o.type /\ k[2] = o.amount
    <2>1. Offered(o, k) = IF k = <<o.type, o.amount>> THEN o.volume ELSE 0
      BY <1>2, <1>3, <1>4, LiveIsShown
    <2>2. k = <<o.type, o.amount>> <=> k[1] = o.type /\ k[2] = o.amount
      BY DEF Keys
    <2>3. o.volume \in Nat
      BY <1>2 DEF OrderType
    <2> HIDE DEF o
    <2> QED
      BY <1>4, <2>1, <2>2, <2>3
  <1>6. /\ n.type = o.type /\ n.amount = o.amount /\ n.volume = o.volume - volume
        /\ n.status = IF volume = o.volume THEN "COMPLETE" ELSE o.status
    BY <1>2 DEF Filled, OrderType
  <1>7. LiveVolume(orders', k) = LiveVolume(orders, k) - Offered(o, k) + Offered(n, k)
    BY <1>2, <1>3, LiveUpdate
  <1>8. Matches /\ phase' = phase /\ msg' = msg
    BY DEF Fill, Matches
  <1>9. /\ Matched(k) = IF k = MatchKey THEN msg.volume - rem ELSE 0
        /\ Matched(k)' = IF k = MatchKey THEN msg.volume - rem' ELSE 0
    BY <1>8 DEF Matched, Matches, MatchKey
  <1> HIDE DEF n, o
  <1>10. Offered(n, k) = IF k = MatchKey THEN o.volume - volume ELSE 0
    <2>1. CASE volume = o.volume
      BY <1>5, <1>6, <2>1 DEF Offered, IsLive
    <2>2. CASE volume # o.volume
      BY <1>4, <1>5, <1>6, <2>2 DEF Offered, IsLive
    <2> QED
      BY <2>1, <2>2
  <1>11. LiveVolume(orders, k) \in Nat /\ msg.volume \in Nat /\ rem \in Nat
    BY <1>3, <1>8, LiveTotal, MatchTyped
  <1> HIDE DEF MatchKey
  <1> QED
    BY <1>2, <1>5, <1>7, <1>9, <1>10, <1>11

\* Deleted and swept for good: a step that reaches a state where the book
\* counts starts from one.
LEMMA BookCounts ==
    ASSUME TypeInv, TxnInv, [Next]_vars, ~swept', ~item'.isDeleted
    PROVE  ~swept /\ ~item.isDeleted /\ ~Delete
  <1>1. ~swept
    BY DEF Next, vars, history, Receive, Fill, FillDone, Settle, SettleFails, Finish,
       OpenRemainder, OpenFails, QueryFails, Modify, Cancel, Delete, HideItem, Refuse, Reply, Crash,
       BatchDeleteOrderVolumeZero, Rollback
  <1>2. ~Delete
    BY DEF Delete
  <1>3. CASE HideItem
    BY <1>1, <1>2, <1>3 DEF HideItem, TypeInv, WorkingType
  <1>4. CASE item' = committed.item
    BY <1>1, <1>2, <1>4 DEF TxnInv
  <1>5. CASE item' = item
    BY <1>1, <1>2, <1>5
  <1> QED
    BY <1>2, <1>3, <1>4, <1>5 DEF Next, vars, tables, Receive, Fill, FillDone, Settle,
       SettleFails, Finish, OpenRemainder, OpenFails, QueryFails, Modify, Cancel, Refuse, Reply,
       Crash, BatchDeleteOrderVolumeZero, Rollback, Restore

\* The book of every commit shows the orders it commits.
LEMMA BookCommit ==
    ASSUME TypeInv, TxnInv, BookInv, ~swept, ~item.isDeleted,
           Finish \/ OpenRemainder \/ Modify \/ Cancel \/ HideItem, NEW k \in Keys
    PROVE  BookVolume(book', k) = LiveVolume(orders', k)
  <1>1. CASE Finish
    <2>1. Matches /\ orders' = orders /\ book' = MatchedBook
      BY <1>1 DEF Finish, AllSettled, Matches
    <2> QED
      BY <2>1, MatchedFollows
  <1>2. CASE HideItem
    <2>1. orders \in Seq(OrderType)
      BY DEF TypeInv, WorkingType
    <2>2. CASE AnyLive
      <3>1. orders' = Closed(orders, "HIDE") /\ book' = [q \in Keys |-> NoRow]
        BY <1>2, <2>2 DEF HideItem, CloseOrders
      <3>2. LiveVolume(orders', k) = 0
        BY <2>1, <3>1, LiveClosed
      <3>3. BookVolume(book', k) = 0
        BY <3>1 DEF BookVolume
      <3> QED
        BY <3>2, <3>3
    <2>3. CASE ~AnyLive
      <3>1. orders' = orders /\ book' = book
        BY <1>2, <2>3 DEF HideItem, CloseOrders
      <3>2. orders = committed.orders
        BY <1>2 DEF HideItem, TxnInv, Matches
      <3> QED
        BY <3>1, <3>2 DEF BookInv
    <2> QED
      BY <2>2, <2>3
  <1> QED
    BY <1>1, <1>2, BookOpen, BookModify, BookCancel

\* Every step keeps the book's invariant.
LEMMA BookNext ==
    ASSUME TypeInv, TxnInv, BookInv, [Next]_vars
    PROVE  BookInv'
  <1> SUFFICES ASSUME ~swept', ~item'.isDeleted
               PROVE  /\ \A k \in Keys : BookVolume(book', k) = LiveVolume(committed'.orders, k)
                      /\ \A k \in Keys : LiveVolume(committed'.orders, k)
                                           = LiveVolume(orders', k) + Matched(k)'
                      /\ phase' \in {"fill", "settle", "modify", "cancel"} =>
                            seen' = RowsOf(book')
    BY DEF BookInv
  <1>1. ~swept /\ ~item.isDeleted /\ ~Delete
    BY BookCounts
  <1>2. /\ \A k \in Keys : BookVolume(book, k) = LiveVolume(committed.orders, k)
        /\ \A k \in Keys : LiveVolume(committed.orders, k) = LiveVolume(orders, k) + Matched(k)
        /\ phase \in {"fill", "settle", "modify", "cancel"} => seen = RowsOf(book)
    BY <1>1 DEF BookInv
  <1>3. orders' \in Seq(OrderType) /\ orders \in Seq(OrderType)
    BY TypeNext DEF TypeInv, WorkingType
  <1>4. \A k \in Keys : LiveVolume(orders', k) \in Nat /\ LiveVolume(orders, k) \in Nat
    BY <1>3, LiveTotal
  <1>5. CASE Finish \/ OpenRemainder \/ Modify \/ Cancel \/ HideItem
    <2>1. Commit
      BY <1>5 DEF Finish, OpenRemainder, Modify, Cancel, HideItem
    <2>2. committed'.orders = orders'
      BY <2>1 DEF Commit, Tables
    <2>3. \A k \in Keys : Matched(k)' = 0
      <3>1. CASE Modify
        <4>1. fills' = <<>> /\ rem' = msg'.volume /\ msg'.volume \in Nat
          BY <3>1 DEF Modify, TxnInv, TypeInv, HandlerType, MsgType
        <4> QED
          BY <4>1 DEF Matched
      <3>2. CASE Finish \/ OpenRemainder \/ Cancel \/ HideItem
        BY <3>2 DEF Finish, OpenRemainder, Cancel, HideItem, Matched, Matches
      <3> QED
        BY <1>5, <3>1, <3>2
    <2>4. phase' \in {"fill", "settle", "modify", "cancel"} => seen' = RowsOf(book')
      BY <1>5 DEF Finish, OpenRemainder, Modify, Cancel, HideItem
    <2>5. \A k \in Keys : BookVolume(book', k) = LiveVolume(orders', k)
      BY <1>1, <1>5, BookCommit
    <2> QED
      BY <1>4, <2>2, <2>3, <2>4, <2>5
  <1>6. CASE Fill
    <2>1. committed' = committed /\ book' = book /\ seen' = seen /\ phase' = phase
      BY <1>6 DEF Fill
    <2>2. \A k \in Keys : LiveVolume(orders', k) + Matched(k)' = LiveVolume(orders, k) + Matched(k)
      BY <1>1, <1>6, BookFill
    <2> QED
      BY <1>2, <2>1, <2>2
  <1>7. CASE SettleFails \/ OpenFails \/ QueryFails \/ Refuse \/ Crash
    <2>1. /\ orders' = committed.orders /\ book' = committed.book /\ committed' = committed
          /\ phase' \in {"reply", "idle"}
      BY <1>7 DEF SettleFails, OpenFails, QueryFails, Refuse, Crash, Rollback, Restore, EndMessage
    <2>2. book = committed.book /\ \A k \in Keys : Matched(k)' = 0
      BY <2>1 DEF TxnInv, Matched, Matches
    <2> QED
      BY <1>2, <1>4, <2>1, <2>2
  <1>8. CASE \E m \in Messages : Receive(m)
    <2>1. PICK m \in Messages : Receive(m)
      BY <1>8
    <2>2. /\ orders' = orders /\ book' = book /\ committed' = committed
          /\ seen' = RowsOf(book) /\ msg' = m /\ rem' = m.volume /\ phase = "idle"
      BY <2>1 DEF Receive, tables
    <2>3. m.volume \in Nat
      BY <2>1, MessagesTyped DEF TypeInv, MsgType
    <2>4. \A k \in Keys : Matched(k)' = 0 /\ Matched(k) = 0
      BY <2>2, <2>3 DEF Matched, Matches
    <2> QED
      BY <1>2, <2>2, <2>4 DEF RowsOf
  <1>9. CASE BatchDeleteOrderVolumeZero
    <2>1. /\ orders' = orders /\ committed'.orders = committed.orders
          /\ book' = WithoutZeroRows(book) /\ phase' = phase
          /\ \A k \in Keys : Matched(k)' = Matched(k)
      BY <1>9 DEF BatchDeleteOrderVolumeZero, TypeInv, TablesType, handler, Matched,
         Matches, MatchKey
    <2>2. \A k \in Keys : BookVolume(book', k) = BookVolume(book, k)
      BY <2>1 DEF WithoutZeroRows, BookVolume, NoRow
    <2>3. phase \notin {"fill", "settle", "modify", "cancel"}
      <3>1. ZeroRows # {} /\ ZeroRows \subseteq RowsOf(book)
        BY <1>9 DEF BatchDeleteOrderVolumeZero, ZeroRows, RowsOf, NoRow
      <3>2. phase = "idle" \/ ZeroRows \cap seen = {}
        BY <1>9 DEF BatchDeleteOrderVolumeZero
      <3> QED
        BY <1>2, <3>1, <3>2
    <2> QED
      BY <1>2, <2>1, <2>2, <2>3
  <1>10. CASE FillDone \/ Settle \/ Reply \/ UNCHANGED vars
    <2>1. orders' = orders /\ committed' = committed /\ book' = book
      BY <1>10 DEF FillDone, Settle, Reply, vars, tables
    <2>2. \A k \in Keys : Matched(k)' = Matched(k)
      BY <1>10 DEF FillDone, Settle, Reply, vars, handler, EndMessage, Matched, Matches,
         MatchKey
    <2>3. phase' \in {"fill", "settle", "modify", "cancel"} =>
             seen' = seen /\ phase \in {"fill", "settle", "modify", "cancel"}
      BY <1>10 DEF FillDone, Settle, Reply, vars, handler, EndMessage
    <2> QED
      BY <1>2, <2>1, <2>2, <2>3
  <1> QED
    BY <1>1, <1>5, <1>6, <1>7, <1>8, <1>9, <1>10 DEF Next

\* The order book shows the live orders, for every set of users, prices and
\* volumes and every sequence of messages and crashes, until the item is
\* deleted or the cleanup deletes a row under an open transaction.
THEOREM BookAlwaysFollowsLive == Spec => []BookFollowsLive
  <1>1. Init => TypeInv /\ TxnInv /\ BookInv
    BY TypeInit, TxnInit, BookInit
  <1>2. TypeInv /\ TxnInv /\ BookInv /\ [Next]_vars => (TypeInv /\ TxnInv /\ BookInv)'
    BY TypeNext, TxnNext, BookNext
  <1>3. TxnInv /\ BookInv => BookFollowsLive
    BY DEF TxnInv, BookInv, BookFollowsLive
  <1> QED
    BY <1>1, <1>2, <1>3, PTL DEF Spec

=============================================================================
