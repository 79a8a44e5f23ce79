---------------------------- MODULE MarketProofs ----------------------------
(***************************************************************************)
(* Theorems about the market for every finite set of users, any items,     *)
(* prices, requests and number of shares: the tables are typed, a shared   *)
(* sale pays out all that remains after the fee, the history explains the  *)
(* balances, what is counted of an item agrees with its sales, and a cart  *)
(* row goes with a sale.  And about the workspace of a user, for any       *)
(* keywords, videos, edits and tabs: it is as was asked for, and a video   *)
(* is tagged only with what was on the list.                               *)
(***************************************************************************)
EXTENDS Market, Workspace, TableLemmas

----------------------------------------------------------------------------
(* Prices and their parts                                                   *)

\* A multiple is divided without a rest.
LEMMA Divided ==
    ASSUME NEW n \in Nat \ {0}, NEW k \in Int
    PROVE  (k * n) \div n = k
  OBVIOUS

\* A price is a multiple of the shares, and so are the fee and what remains.
LEMMA PriceParts ==
    ASSUME NEW p \in Prices
    PROVE  \E c \in Nat : /\ p = (5 * c) * ShareTotal
                          /\ Fee(p) = c * ShareTotal
                          /\ Remain(p) = (4 * c) * ShareTotal
  <1> DEFINE n == 5 * ShareTotal
             c == p \div n
  <1>1. p \in Nat /\ p > 0 /\ p % n = 0 /\ n \in Nat \ {0} /\ ShareTotal \in Nat \ {0}
    BY MarketAssumption
  <1>2. c \in Nat /\ p = n * c
    BY <1>1
  <1> HIDE DEF c
  <1> DEFINE x == c * ShareTotal
  <1>3. x \in Nat
    BY <1>1, <1>2
  <1>4. p = 5 * x /\ (5 * c) * ShareTotal = 5 * x /\ (4 * c) * ShareTotal = 4 * x
    BY <1>1, <1>2
  <1> HIDE DEF x
  <1>5. p \div 5 = x
    BY <1>3, <1>4
  <1>6. Fee(p) = x /\ Remain(p) = 4 * x
    BY <1>3, <1>4, <1>5 DEF Fee, Remain
  <1> QED
    BY <1>2, <1>4, <1>6 DEF x

\* Fee and remainder make the price.
LEMMA PriceType ==
    ASSUME NEW p \in Prices
    PROVE  /\ p \in Nat /\ Fee(p) \in Nat /\ Remain(p) \in Nat
           /\ Remain(p) + Fee(p) = p
  <1>1. p \in Nat
    BY MarketAssumption
  <1> QED
    BY <1>1 DEF Fee, Remain

\* The part of v shares in c points for each share.
LEMMA PartOf ==
    ASSUME NEW c \in Nat, NEW v \in Nat
    PROVE  Part(c * ShareTotal, v) = c * v
  <1>1. ShareTotal \in Nat \ {0}
    BY MarketAssumption
  <1> DEFINE k == c * v
  <1>2. k \in Nat /\ (c * ShareTotal) * v = k * ShareTotal
    BY <1>1
  <1> HIDE DEF k
  <1>3. (k * ShareTotal) \div ShareTotal = k
    BY <1>1, <1>2, Divided
  <1> QED
    BY <1>2, <1>3 DEF Part, k

----------------------------------------------------------------------------
(* The share accounts of an item                                            *)

OneRowEach(rows) ==
    \A j, k \in DOMAIN rows : rows[j].user = rows[k].user => j = k

\* The rows of an item are finitely many, and so are their shares.
LEMMA RowsHold ==
    ASSUME NEW rows \in Seq(ShareRow)
    PROVE  /\ IsFiniteSet(DOMAIN rows) /\ DOMAIN rows \subseteq Nat
           /\ \A k \in DOMAIN rows : /\ rows[k] \in ShareRow /\ rows[k].user \in Users
                                     /\ rows[k].volume \in Nat
                                     /\ Held(rows)[k] = rows[k].volume
           /\ Volumes(rows) \in Nat
           /\ \A u \in Users : VolumeOf(rows, u) \in Nat
  <1>1. DOMAIN rows = 1 .. Len(rows) /\ Len(rows) \in Nat
    BY LenProperties
  <1>2. IsFiniteSet(DOMAIN rows)
    BY <1>1, FS_Interval
  <1>3. \A k \in DOMAIN rows : rows[k] \in ShareRow
    BY <1>1, ElementOfSeq
  <1>4. \A k \in DOMAIN rows : /\ rows[k].user \in Users /\ rows[k].volume \in Nat
                               /\ Held(rows)[k] = rows[k].volume
    BY <1>3 DEF ShareRow, Held
  <1>5. Volumes(rows) \in Nat
    BY <1>2, <1>4, SumNat DEF Volumes
  <1>6. ASSUME NEW u \in Users
        PROVE  VolumeOf(rows, u) \in Nat
    <2> DEFINE ks == {k \in DOMAIN rows : rows[k].user = u}
    <2>1. IsFiniteSet(ks) /\ \A k \in ks : Held(rows)[k] \in Nat
      BY <1>2, <1>4, FS_Subset
    <2> HIDE DEF ks
    <2>2. SumOver(ks, Held(rows)) \in Nat
      BY <2>1, SumNat
    <2> QED
      BY <2>2 DEF VolumeOf, ks
  <1> QED
    BY <1>1, <1>2, <1>3, <1>4, <1>5, <1>6

\* No holder has more shares than there are.
LEMMA RowWithinAll ==
    ASSUME NEW rows \in Seq(ShareRow), NEW k \in DOMAIN rows
    PROVE  rows[k].volume <= Volumes(rows)
  <1> DEFINE f == Held(rows)
             rest == SumOver(DOMAIN rows \ {k}, f)
  <1>1. IsFiniteSet(DOMAIN rows) /\ \A j \in DOMAIN rows : f[j] = rows[j].volume /\ f[j] \in Nat
    BY RowsHold
  <1> HIDE DEF f
  <1>2. SumOver(DOMAIN rows, f) = rest + f[k]
    BY <1>1, SumSplit
  <1>3. IsFiniteSet(DOMAIN rows \ {k})
    BY <1>1, FS_Subset
  <1>4. rest \in Nat
    BY <1>1, <1>3, SumNat
  <1> QED
    BY <1>1, <1>2, <1>4 DEF Volumes, f

\* When all shares are held, the parts of the holders are all that remains.
LEMMA HoldersGetAll ==
    ASSUME NEW rows \in Seq(ShareRow), Volumes(rows) = ShareTotal,
           NEW q, q.entity.price \in Prices
    PROVE  /\ Profits(q, rows) \in [Users -> Nat]
           /\ SumOver(Users, Profits(q, rows)) = Remain(q.entity.price)
  <1>1. PICK c \in Nat : Remain(q.entity.price) = (4 * c) * ShareTotal
    BY PriceParts
  <1> DEFINE n == 4 * c
             f == Held(rows)
             owner == [k \in DOMAIN rows |-> rows[k].user]
             group == [u \in Users |-> {k \in DOMAIN rows : rows[k].user = u}]
             g == [u \in Users |-> VolumeOf(rows, u)]
             p == Profits(q, rows)
  <1>2. n \in Nat /\ IsFiniteSet(Users)
    BY MarketAssumption
  <1>3. /\ IsFiniteSet(DOMAIN rows) /\ \A k \in DOMAIN rows : f[k] \in Nat /\ owner[k] \in Users
        /\ \A u \in Users : g[u] \in Nat
    BY RowsHold
  <1>4. /\ \A u \in Users : g[u] = SumOver(group[u], f)
        /\ \A u \in Users : \A k : k \in group[u] <=> k \in DOMAIN rows /\ owner[k] = u
    BY DEF VolumeOf
  <1>5. \A u \in Users : p[u] = n * g[u]
    <2> TAKE u \in Users
    <2>1. p[u] = Part(n * ShareTotal, g[u])
      BY <1>1 DEF Profits
    <2> HIDE DEF n, g, p
    <2>2. Part(n * ShareTotal, g[u]) = n * g[u]
      BY <1>2, <1>3, PartOf
    <2> QED
      BY <2>1, <2>2
  <1>6. p = [u \in Users |-> p[u]]
    BY DEF Profits
  <1> HIDE DEF n, f, owner, group, g, p
  <1>7. SumOver(Users, g) = SumOver(DOMAIN rows, f)
    <2> DEFINE D == DOMAIN rows
    <2>1. /\ IsFiniteSet(D) /\ IsFiniteSet(Users)
          /\ \A k \in D : f[k] \in Nat
          /\ \A k \in D : owner[k] \in Users
          /\ \A u \in Users : \A k : k \in group[u] <=> k \in D /\ owner[k] = u
          /\ \A u \in Users : g[u] = SumOver(group[u], f)
      BY <1>2, <1>3, <1>4
    <2> HIDE DEF D
    <2>2. SumOver(Users, g) = SumOver(D, f)
      BY <2>1, SumGrouped
    <2> QED
      BY <2>2 DEF D
  <1>8. SumOver(Users, p) = n * SumOver(Users, g)
    BY <1>2, <1>3, <1>5, SumScaled
  <1>9. SumOver(DOMAIN rows, f) = ShareTotal
    BY DEF f, Volumes
  <1>10. p \in [Users -> Nat]
    <2>1. \A u \in Users : p[u] \in Nat
      BY <1>2, <1>3, <1>5
    <2> QED
      BY <1>6, <2>1
  <1> QED
    BY <1>1, <1>7, <1>8, <1>9, <1>10 DEF n, p

\* What the buyer is charged for the first holder is a part of the price, and
\* the rows of its history are the whole of it.
LEMMA BuyerIsCharged ==
    ASSUME NEW rows \in Seq(ShareRow), Volumes(rows) = ShareTotal, rows # <<>>,
           NEW q, q.entity.price \in Prices
    PROVE  /\ Charged(q, rows) \in Nat /\ Charged(q, rows) <= q.entity.price
           /\ Part(q.entity.price, Volumes(rows)) = q.entity.price
  <1>1. PICK c \in Nat : q.entity.price = (5 * c) * ShareTotal
    BY PriceParts
  <1> DEFINE n == 5 * c
             v == rows[1].volume
  <1>2. n \in Nat /\ ShareTotal \in Nat \ {0}
    BY MarketAssumption
  <1>3. 1 \in DOMAIN rows
    BY EmptySeq, LenProperties
  <1>4. v \in Nat /\ v <= ShareTotal
    BY <1>3, RowsHold, RowWithinAll
  <1> HIDE DEF n, v
  <1>5. Part(n * ShareTotal, v) = n * v /\ Part(n * ShareTotal, ShareTotal) = n * ShareTotal
    BY <1>2, <1>4, PartOf
  <1>6. n * v \in Nat /\ n * v <= n * ShareTotal
    BY <1>2, <1>4
  <1> QED
    BY <1>1, <1>5, <1>6 DEF Charged, n, v

\* One row changes: the total changes by as much.
LEMMA RowChanges ==
    ASSUME NEW rows \in Seq(ShareRow), NEW t \in Seq(ShareRow), DOMAIN t = DOMAIN rows,
           NEW s \in DOMAIN rows, \A k \in DOMAIN rows \ {s} : t[k] = rows[k]
    PROVE  Volumes(t) = Volumes(rows) - rows[s].volume + t[s].volume
  <1> DEFINE D == DOMAIN rows
             f == Held(rows)
             g == Held(t)
  <1>1. /\ IsFiniteSet(D) /\ s \in D
        /\ \A k \in D : f[k] = rows[k].volume /\ f[k] \in Nat
        /\ \A k \in D : g[k] = t[k].volume /\ g[k] \in Nat
    BY RowsHold
  <1>2. \A k \in D \ {s} : g[k] = f[k]
    BY <1>1
  <1>3. Volumes(rows) = SumOver(D, f) /\ Volumes(t) = SumOver(D, g)
    BY DEF Volumes
  <1> HIDE DEF D, f, g
  <1>4. SumOver(D, g) = SumOver(D, f) - f[s] + g[s]
    BY <1>1, <1>2, SumChange
  <1> QED
    BY <1>1, <1>3, <1>4

\* A trade moves one share from a row to another, or to a new one.
LEMMA TradeKeepsShares ==
    ASSUME NEW rows \in Seq(ShareRow), OneRowEach(rows),
           NEW seller \in Users, NEW buyer \in Users, seller # buyer,
           VolumeOf(rows, seller) > 0, NEW t, t = Transferred(rows, seller, buyer)
    PROVE  /\ t \in Seq(ShareRow) /\ OneRowEach(t)
           /\ Volumes(t) = Volumes(rows) /\ t # <<>>
  <1> DEFINE D == DOMAIN rows
             sold == [k \in D |-> IF rows[k].user = seller
                        THEN [rows[k] EXCEPT !.volume = @ - 1] ELSE rows[k]]
             has == {k \in D : rows[k].user = buyer}
  <1>1. /\ IsFiniteSet(D) /\ D \subseteq Nat /\ Volumes(rows) \in Nat
        /\ \A k \in D : /\ rows[k] \in ShareRow /\ rows[k].user \in Users
                        /\ rows[k].volume \in Nat /\ Held(rows)[k] = rows[k].volume
    BY RowsHold
  <1>2. PICK s \in D : /\ rows[s].user = seller /\ rows[s].volume > 0
                       /\ \A k \in D \ {s} : rows[k].user # seller
    <2> DEFINE ks == {k \in D : rows[k].user = seller}
               f == Held(rows)
    <2>1. SumOver(ks, f) > 0
      BY DEF VolumeOf
    <2>2. ks # {}
      <3> HIDE DEF f
      <3>1. ks = {} => SumOver(ks, f) = 0
        BY SumEmpty
      <3> QED
        BY <2>1, <3>1
    <2>3. PICK s \in ks : TRUE
      BY <2>2
    <2>4. ks = {s}
      BY <2>3 DEF OneRowEach
    <2>5. f[s] = rows[s].volume /\ f[s] \in Nat
      BY <1>1, <2>3
    <2>6. SumOver({s}, f) = f[s]
      <3> HIDE DEF f
      <3> QED
        BY <2>5, SumSingle
    <2>7. rows[s].volume > 0
      BY <2>1, <2>4, <2>5, <2>6
    <2> QED
      BY <2>3, <2>4, <2>7
  <1>3. /\ DOMAIN sold = D /\ \A k \in D \ {s} : sold[k] = rows[k]
        /\ sold[s] = [rows[s] EXCEPT !.volume = @ - 1]
    BY <1>2
  <1>4. sold[s] \in ShareRow /\ sold[s].user = seller /\ sold[s].volume = rows[s].volume - 1
    <2>1. PICK n \in Nat : n = rows[s].volume - 1
      BY <1>1, <1>2
    <2>2. sold[s] = [rows[s] EXCEPT !.volume = n]
      BY <1>3, <2>1
    <2> QED
      BY <1>1, <1>2, <2>1, <2>2 DEF ShareRow
  <1>5. sold \in Seq(ShareRow)
    <2>1. \A k \in D : sold[k] \in ShareRow
      BY <1>1, <1>3, <1>4
    <2>2. sold = [k \in DOMAIN sold |-> sold[k]]
      OBVIOUS
    <2> HIDE DEF sold
    <2> QED
      BY <1>3, <2>1, <2>2, Mapped
  <1>6. \A k \in D : sold[k].user = rows[k].user
    BY <1>2, <1>3, <1>4
  <1>7. t = IF has = {} THEN Append(sold, [user |-> buyer, volume |-> 1])
            ELSE [k \in D |-> IF k \in has THEN [sold[k] EXCEPT !.volume = @ + 1] ELSE sold[k]]
    BY DEF Transferred
  <1> HIDE DEF sold
  <1>8. Volumes(sold) = Volumes(rows) - 1
    <2>1. Volumes(sold) = Volumes(rows) - rows[s].volume + sold[s].volume
      BY <1>3, <1>5, RowChanges
    <2> QED
      BY <1>1, <1>4, <2>1
  <1>9. CASE has = {}
    <2> DEFINE x == [user |-> buyer, volume |-> 1]
               n == Len(sold) + 1
    <2>1. x \in ShareRow /\ x.user = buyer /\ x.volume = 1
      BY DEF ShareRow
    <2>2. t = Append(sold, x)
      BY <1>7, <1>9
    <2> HIDE DEF x, n
    <2>3. /\ t \in Seq(ShareRow) /\ n \notin D /\ DOMAIN t = D \cup {n}
          /\ t[n] = x /\ \A k \in D : t[k] = sold[k]
      BY <1>3, <1>5, <2>1, <2>2, Appended DEF n
    <2>4. \A k \in D : t[k].user # buyer
      BY <1>6, <1>9, <2>3
    <2>5. OneRowEach(t)
      BY <1>6, <2>1, <2>3, <2>4 DEF OneRowEach
    <2> DEFINE f == Held(sold)
               g == Held(t)
               E == DOMAIN t
    <2>6. /\ IsFiniteSet(E) /\ \A k \in E : g[k] = t[k].volume /\ g[k] \in Nat
      BY <2>3, RowsHold
    <2>7. \A k \in D : g[k] = f[k]
      <3>1. \A k \in D : f[k] = sold[k].volume
        BY <1>3, <1>5, RowsHold
      <3> QED
        BY <2>3, <2>6, <3>1
    <2>8. E \ {n} = D /\ n \in E
      BY <2>3
    <2>9. Volumes(sold) = SumOver(D, f) /\ Volumes(t) = SumOver(E, g)
      BY <1>3 DEF Volumes
    <2> HIDE DEF f, g, E, D
    <2>10. SumOver(E, g) = SumOver(E \ {n}, g) + g[n]
      <3>1. IsFiniteSet(E) /\ n \in E
        BY <2>6, <2>8
      <3>2. \A k \in E : g[k] \in Nat
        BY <2>6
      <3> QED
        BY <3>1, <3>2, SumSplit
    <2>11. SumOver(D, g) = SumOver(D, f)
      BY <2>7, SumSame
    <2>12. g[n] = 1
      BY <2>1, <2>3, <2>6, <2>8
    <2>13. Volumes(t) = Volumes(sold) + 1
      BY <2>8, <2>9, <2>10, <2>11, <2>12
    <2>14. t # <<>>
      BY <2>3, EmptySeq DEF D
    <2> QED
      BY <1>1, <1>8, <2>3, <2>5, <2>13, <2>14
  <1>10. CASE has # {}
    <2>1. PICK b \in D : rows[b].user = buyer /\ has = {b}
      BY <1>10 DEF OneRowEach
    <2>2. b # s /\ sold[b] = rows[b] /\ rows[b].volume \in Nat
      BY <1>1, <1>2, <1>3, <2>1
    <2>3. /\ DOMAIN t = D /\ t = [k \in DOMAIN t |-> t[k]]
          /\ t[b] = [rows[b] EXCEPT !.volume = @ + 1]
          /\ \A k \in D \ {b} : t[k] = sold[k]
      BY <1>7, <1>10, <2>1, <2>2
    <2>4. t[b] \in ShareRow /\ t[b].user = buyer /\ t[b].volume = rows[b].volume + 1
      <3>1. PICK n \in Nat : n = rows[b].volume + 1
        BY <2>2
      <3>2. t[b] = [rows[b] EXCEPT !.volume = n]
        BY <2>3, <3>1
      <3> QED
        BY <1>1, <2>1, <3>1, <3>2 DEF ShareRow
    <2>5. t \in Seq(ShareRow)
      <3>1. \A k \in D : sold[k] \in ShareRow
        BY <1>3, <1>5, RowsHold
      <3>2. \A k \in DOMAIN sold : t[k] \in ShareRow
        BY <1>3, <2>3, <2>4, <3>1
      <3>3. DOMAIN t = DOMAIN sold /\ t = [k \in DOMAIN t |-> t[k]]
        BY <1>3, <2>3
      <3> QED
        BY <1>5, <3>2, <3>3, Mapped
    <2>6. OneRowEach(t)
      <3>1. \A k \in D : t[k].user = rows[k].user
        BY <1>6, <2>1, <2>3, <2>4
      <3> QED
        BY <2>3, <3>1 DEF OneRowEach
    <2>7. Volumes(t) = Volumes(sold) - sold[b].volume + t[b].volume
      <3>1. /\ DOMAIN t = DOMAIN sold /\ b \in DOMAIN sold
            /\ \A k \in DOMAIN sold \ {b} : t[k] = sold[k]
        BY <1>3, <2>1, <2>3
      <3> QED
        BY <1>5, <2>5, <3>1, RowChanges
    <2>8. Volumes(t) = Volumes(rows)
      BY <1>1, <1>8, <2>2, <2>4, <2>7
    <2>9. t # <<>>
      BY <2>1, <2>3
    <2> QED
      BY <2>5, <2>6, <2>8, <2>9
  <1> QED
    BY <1>9, <1>10

----------------------------------------------------------------------------
(* Sales                                                                    *)

\* The sales are finitely many, and each is typed.
LEMMA SalesType ==
    ASSUME TypeOK
    PROVE  /\ DOMAIN sales = 1 .. Len(sales) /\ Len(sales) \in Nat
           /\ IsFiniteSet(DOMAIN sales)
           /\ \A k \in DOMAIN sales :
                 /\ sales[k] \in SaleRow /\ sales[k].item \in Items /\ sales[k].buyer \in Users
                 /\ sales[k].price \in Prices /\ sales[k].price \in Nat
                 /\ sales[k].paid \in Nat /\ sales[k].cumulative \in Nat
           /\ \A i : IsFiniteSet(SalesOf(i)) /\ SalesOf(i) \subseteq DOMAIN sales
           /\ \A u : IsFiniteSet(SalesBy(u)) /\ SalesBy(u) \subseteq DOMAIN sales
  <1>1. sales \in Seq(SaleRow)
    BY DEF TypeOK
  <1>2. DOMAIN sales = 1 .. Len(sales) /\ Len(sales) \in Nat
    BY <1>1, LenProperties
  <1>3. IsFiniteSet(DOMAIN sales)
    BY <1>2, FS_Interval
  <1>4. \A k \in DOMAIN sales : sales[k] \in SaleRow
    BY <1>1, <1>2, ElementOfSeq
  <1>5. \A k \in DOMAIN sales :
           /\ sales[k].item \in Items /\ sales[k].buyer \in Users
           /\ sales[k].price \in Prices /\ sales[k].paid \in Nat /\ sales[k].cumulative \in Nat
    BY <1>4 DEF SaleRow
  <1>6. \A k \in DOMAIN sales : sales[k].price \in Nat
    BY <1>5, PriceType
  <1>7. \A i : SalesOf(i) \subseteq DOMAIN sales /\ SalesBy(i) \subseteq DOMAIN sales
    BY DEF SalesOf, SalesBy
  <1>8. \A i : IsFiniteSet(SalesOf(i)) /\ IsFiniteSet(SalesBy(i))
    BY <1>3, <1>7, FS_Subset
  <1> QED
    BY <1>2, <1>3, <1>4, <1>5, <1>6, <1>7, <1>8

SalePrice == [k \in DOMAIN sales |-> sales[k].price]

\* The highest cumulative amount of an item is the sum of its prices.
LEMMA CumulativeTotal ==
    ASSUME TypeOK, CumulativeIsSum, NEW i \in Items
    PROVE  Cumulative(i) = SumOver(SalesOf(i), SalePrice) /\ Cumulative(i) \in Nat
  <1> DEFINE S == SalesOf(i)
             f == SalePrice
             T == SumOver(S, f)
             C == {0} \cup {sales[k].cumulative : k \in S}
  <1>1. /\ IsFiniteSet(S) /\ S \subseteq DOMAIN sales /\ S \subseteq 0 .. Len(sales)
        /\ Len(sales) \in Nat /\ \A k \in S : f[k] \in Nat /\ sales[k].item = i
    <2>1. IsFiniteSet(S) /\ S \subseteq DOMAIN sales
      BY SalesType
    <2>2. Len(sales) \in Nat /\ S \subseteq 0 .. Len(sales)
      BY <2>1, SalesType
    <2>3. \A k \in S : f[k] \in Nat
      BY <2>1, SalesType DEF SalePrice
    <2>4. \A k \in S : sales[k].item = i
      BY DEF SalesOf
    <2> QED
      BY <2>1, <2>2, <2>3, <2>4
  <1>2. T \in Nat
    BY <1>1, SumNat
  <1>3. \A k \in S : sales[k].cumulative = SumOver({j \in S : j <= k}, f)
    <2> TAKE k \in S
    <2>1. SalesUpTo(k) = {j \in S : j <= k} /\ k \in DOMAIN sales
      BY <1>1 DEF SalesUpTo
    <2> QED
      BY <2>1 DEF CumulativeIsSum, SalePrice
  <1>4. \A k \in S : sales[k].cumulative <= T /\ sales[k].cumulative \in Nat
    <2> TAKE k \in S
    <2> DEFINE A == {j \in S : j <= k}
    <2>1. A \in SUBSET S
      OBVIOUS
    <2>2. sales[k].cumulative = SumOver(A, f)
      BY <1>3
    <2> HIDE DEF A, S, f
    <2>3. SumOver(A, f) <= SumOver(S, f)
      BY <1>1, <2>1, SumPart
    <2>4. sales[k].cumulative \in Nat
      BY <1>1, SalesType
    <2> QED
      BY <2>2, <2>3, <2>4
  <1>5. T \in C
    <2>1. CASE S = {}
      <3>1. T = 0
        BY <2>1, SumEmpty
      <3> QED
        BY <3>1
    <2>2. CASE S # {}
      <3> HIDE DEF S, f
      <3>1. PICK m \in S : \A j \in S : j <= m
        BY <1>1, <2>2, HighestId
      <3>2. {j \in S : j <= m} = S
        BY <3>1
      <3>3. sales[m].cumulative = T
        BY <1>3, <3>1, <3>2
      <3> QED
        BY <3>1, <3>3
    <2> QED
      BY <2>1, <2>2
  <1>6. \A y \in C : T >= y /\ y \in Nat
    BY <1>2, <1>4
  <1> HIDE DEF C, T
  <1>7. Max(C) \in C /\ \A y \in C : Max(C) >= y
    BY <1>5, <1>6 DEF Max
  <1>8. Max(C) = T
    BY <1>5, <1>6, <1>7
  <1> QED
    BY <1>2, <1>8 DEF Cumulative, C, T

\* A sale is typed.
LEMMA SaleType ==
    ASSUME TypeOK, CumulativeIsSum, NEW q \in BuyCalls, NEW paid \in Nat, NEW profits \in Nat
    PROVE  /\ Sale(q, paid, profits) \in SaleRow
           /\ q.user \in Users /\ q.item \in Items /\ q.entity.price \in Prices
  <1>1. /\ q.user \in Users /\ q.item \in Items /\ q.entity.price \in Prices
        /\ q.entity.purchaseCnt \in Nat /\ q.shared \in BOOLEAN
    BY DEF BuyCalls, ItemRow
  <1> DEFINE p == q.entity.price
             total == Cumulative(q.item)
             traded == shares[q.item] # <<>>
  <1>2. p \in Prices /\ p \in Nat /\ Fee(p) \in Nat /\ Remain(p) \in Nat /\ total \in Nat
    BY <1>1, PriceType, CumulativeTotal
  <1>3. total + p \in Nat /\ q.entity.purchaseCnt + 1 \in Nat /\ traded \in BOOLEAN
    BY <1>1, <1>2
  <1> HIDE DEF p, total, traded
  <1>4. Sale(q, paid, profits) =
          [item |-> q.item, buyer |-> q.user, price |-> p, amount |-> Remain(p), fee |-> Fee(p),
           cumulative |-> total + p, cnt |-> q.entity.purchaseCnt + 1, shared |-> q.shared,
           listed |-> traded, paid |-> paid, profits |-> profits]
    BY DEF Sale, p, total, traded
  <1> QED
    BY <1>1, <1>2, <1>3, <1>4 DEF SaleRow, p

\* A new sale goes to the lists of its item and of its buyer.
LEMMA SaleListed ==
    ASSUME TypeOK, NEW s \in SaleRow, sales' = Append(sales, s),
           NEW n, n = Len(sales) + 1
    PROVE  /\ sales' \in Seq(SaleRow) /\ DOMAIN sales' = DOMAIN sales \cup {n}
           /\ n \in Nat /\ n \notin DOMAIN sales /\ sales'[n] = s
           /\ \A k \in DOMAIN sales : sales'[k] = sales[k] /\ k \in Nat /\ k < n
           /\ \A i : SalesOf(i)' = SalesOf(i) \cup (IF i = s.item THEN {n} ELSE {})
           /\ \A u : SalesBy(u)' = SalesBy(u) \cup (IF u = s.buyer THEN {n} ELSE {})
  <1>1. sales \in Seq(SaleRow)
    BY DEF TypeOK
  <1>2. /\ sales' \in Seq(SaleRow) /\ n \notin DOMAIN sales
        /\ DOMAIN sales' = DOMAIN sales \cup {n} /\ n \in Nat
        /\ sales'[n] = s /\ \A k \in DOMAIN sales : sales'[k] = sales[k]
    BY <1>1, Appended
  <1>3. \A k \in DOMAIN sales : k \in Nat /\ k < n
    BY SalesType
  <1>4. \A i : SalesOf(i)' = SalesOf(i) \cup (IF i = s.item THEN {n} ELSE {})
    BY <1>2 DEF SalesOf
  <1>5. \A u : SalesBy(u)' = SalesBy(u) \cup (IF u = s.buyer THEN {n} ELSE {})
    BY <1>2 DEF SalesBy
  <1> QED
    BY <1>2, <1>3, <1>4, <1>5

\* A new sale whose amount continues the amounts of its item keeps them sums.
LEMMA CumulativeGoesOn ==
    ASSUME TypeOK, CumulativeIsSum, NEW s \in SaleRow, sales' = Append(sales, s),
           s.cumulative = Cumulative(s.item) + s.price
    PROVE  CumulativeIsSum'
  <1> DEFINE f == SalePrice
             g == [j \in DOMAIN sales' |-> sales'[j].price]
  <1>1. PICK n : n = Len(sales) + 1
    OBVIOUS
  <1>2. /\ DOMAIN sales' = DOMAIN sales \cup {n}
        /\ n \in Nat /\ n \notin DOMAIN sales /\ sales'[n] = s
        /\ \A k \in DOMAIN sales : sales'[k] = sales[k] /\ k \in Nat /\ k < n
        /\ \A i : SalesOf(i)' = SalesOf(i) \cup (IF i = s.item THEN {n} ELSE {})
    BY <1>1, SaleListed
  <1>3. s.item \in Items /\ s.price \in Nat
    <2>1. s.item \in Items /\ s.price \in Prices
      BY DEF SaleRow
    <2> QED
      BY <2>1, PriceType
  <1>4. /\ \A j \in DOMAIN sales : g[j] = f[j] /\ f[j] \in Nat
        /\ g[n] = s.price
    BY <1>2, SalesType DEF SalePrice
  <1>5. ASSUME NEW k \in DOMAIN sales
        PROVE  sales'[k].cumulative = SumOver(SalesUpTo(k)', g)
    <2>1. PICK i : i = sales[k].item
      OBVIOUS
    <2>2. PICK A : A = SalesUpTo(k)
      OBVIOUS
    <2>3. SalesUpTo(k)' = {j \in SalesOf(i)' : j <= k}
      BY <1>2, <2>1 DEF SalesUpTo, SalesOf
    <2>4. SalesUpTo(k)' = A
      BY <1>2, <2>1, <2>2, <2>3 DEF SalesUpTo
    <2>5. A \subseteq DOMAIN sales
      BY <2>2 DEF SalesUpTo, SalesOf
    <2>6. sales[k].cumulative = SumOver(A, f)
      BY <2>2 DEF CumulativeIsSum, SalePrice
    <2> HIDE DEF f, g
    <2>7. \A j \in A : g[j] = f[j]
      BY <1>4, <2>5
    <2>8. SumOver(A, g) = SumOver(A, f)
      BY <2>7, SumSame
    <2> QED
      BY <1>2, <2>4, <2>6, <2>8
  <1>6. s.cumulative = SumOver(SalesUpTo(n)', g)
    <2>1. PICK i : i = s.item
      OBVIOUS
    <2>2. PICK A : A = SalesOf(i)
      OBVIOUS
    <2>3. SalesUpTo(n)' = {j \in SalesOf(i)' : j <= n}
      BY <1>2, <2>1 DEF SalesUpTo, SalesOf
    <2>4. SalesOf(i)' = A \cup {n}
      BY <1>2, <2>1, <2>2
    <2>5. IsFiniteSet(A) /\ A \subseteq DOMAIN sales
      BY <2>2, SalesType
    <2>6. SalesUpTo(n)' = A \cup {n}
      BY <1>2, <2>3, <2>4, <2>5
    <2>7. Cumulative(s.item) = SumOver(A, f)
      BY <1>3, <2>1, <2>2, CumulativeTotal
    <2> HIDE DEF f, g
    <2>8. \A j \in A : f[j] \in Nat
      BY <1>4, <2>5
    <2>9. (\A j \in A : g[j] = f[j]) /\ g[n] \in Nat /\ n \notin A
      BY <1>2, <1>3, <1>4, <2>5
    <2>10. PICK B : B = A \cup {n}
      OBVIOUS
    <2>11. SumOver(A, g) = SumOver(A, f)
      BY <2>9, SumSame
    <2>12. SumOver(B, g) = SumOver(B \ {n}, g) + g[n]
      <3>1. IsFiniteSet(B) /\ n \in B
        BY <2>5, <2>10, FS_AddElement
      <3>2. \A j \in B : g[j] \in Nat
        BY <2>8, <2>9, <2>10
      <3> QED
        BY <3>1, <3>2, SumSplit
    <2>13. B \ {n} = A
      BY <2>9, <2>10
    <2> QED
      BY <1>4, <2>6, <2>7, <2>10, <2>11, <2>12, <2>13
  <1> HIDE DEF f
  <1>7. \A k \in DOMAIN sales' : sales'[k].cumulative = SumOver(SalesUpTo(k)', g)
    <2> HIDE DEF g
    <2> TAKE k \in DOMAIN sales'
    <2> QED
      BY <1>2, <1>5, <1>6
  <1> QED
    BY <1>7 DEF CumulativeIsSum

SaleDebt == [k \in DOMAIN sales |-> sales[k].price - sales[k].paid]
PaidOK == \A k \in DOMAIN sales : sales[k].paid <= sales[k].price

\* What was recorded and not charged grows by the difference of a new sale.
LEMMA DebtGrows ==
    ASSUME TypeOK, PaidOK, NEW s \in SaleRow, sales' = Append(sales, s), s.paid <= s.price
    PROVE  /\ PaidOK'
           /\ \A u \in Users : /\ SumOver(SalesBy(u), SaleDebt) \in Nat
                               /\ SumOver(SalesBy(u)', SaleDebt') = SumOver(SalesBy(u), SaleDebt)
                                    + (IF u = s.buyer THEN s.price - s.paid ELSE 0)
  <1>0. PICK f : f = SaleDebt
    OBVIOUS
  <1>1. PICK n : n = Len(sales) + 1
    OBVIOUS
  <1>7. PICK g : g = SaleDebt'
    OBVIOUS
  <1>2. /\ DOMAIN sales' = DOMAIN sales \cup {n}
        /\ n \in Nat /\ n \notin DOMAIN sales /\ sales'[n] = s
        /\ \A k \in DOMAIN sales : sales'[k] = sales[k]
        /\ \A u : SalesBy(u)' = SalesBy(u) \cup (IF u = s.buyer THEN {n} ELSE {})
    BY <1>1, SaleListed
  <1>3. s.price \in Nat /\ s.paid \in Nat
    <2>1. s.price \in Prices /\ s.paid \in Nat
      BY DEF SaleRow
    <2> QED
      BY <2>1, PriceType
  <1>4. /\ \A j \in DOMAIN sales : g[j] = f[j]
        /\ \A j \in DOMAIN sales : f[j] \in Nat
        /\ g[n] = s.price - s.paid /\ g[n] \in Nat
    BY <1>0, <1>2, <1>3, <1>7, SalesType DEF SaleDebt, PaidOK
  <1>5. PaidOK'
    BY <1>2 DEF PaidOK
  <1>6. ASSUME NEW u \in Users
        PROVE  /\ SumOver(SalesBy(u), f) \in Nat
               /\ SumOver(SalesBy(u)', g) = SumOver(SalesBy(u), f)
                    + (IF u = s.buyer THEN s.price - s.paid ELSE 0)
    <2>1. PICK A : A = SalesBy(u)
      OBVIOUS
    <2>2. PICK B : B = SalesBy(u)'
      OBVIOUS
    <2>3. /\ IsFiniteSet(A) /\ A \subseteq DOMAIN sales
          /\ B = A \cup (IF u = s.buyer THEN {n} ELSE {})
      BY <1>2, <2>1, <2>2, SalesType
    <2>4. /\ n \notin A /\ \A j \in A : f[j] \in Nat
          /\ \A j \in A : g[j] = f[j]
      <3>1. n \notin A /\ \A j \in A : j \in DOMAIN sales
        BY <1>2, <2>3
      <3> QED
        BY <1>4, <3>1
    <2>5. SumOver(A, f) \in Nat
      <3>1. IsFiniteSet(A) /\ \A j \in A : f[j] \in Nat
        BY <2>3, <2>4
      <3> QED
        BY <3>1, SumNat
    <2>6. CASE u = s.buyer
      <3>1. B = A \cup {n} /\ IsFiniteSet(A) /\ B \ {n} = A /\ n \in B
        BY <2>3, <2>4, <2>6
      <3>2. IsFiniteSet(B)
        BY <3>1, FS_AddElement
      <3>3. \A j \in B : g[j] \in Nat
        BY <1>4, <2>4, <3>1
      <3>4. SumOver(B, g) = SumOver(B \ {n}, g) + g[n]
        BY <3>1, <3>2, <3>3, SumSplit
      <3>5. SumOver(A, g) = SumOver(A, f)
        BY <2>4, SumSame
      <3> QED
        BY <1>4, <2>1, <2>2, <2>5, <2>6, <3>1, <3>4, <3>5
    <2>7. CASE u # s.buyer
      <3>1. B = A
        BY <2>3, <2>7
      <3>2. SumOver(A, g) = SumOver(A, f)
        BY <2>4, SumSame
      <3> QED
        BY <2>1, <2>2, <2>5, <2>7, <3>1, <3>2
    <2> QED
      BY <2>6, <2>7
  <1> QED
    BY <1>0, <1>5, <1>6, <1>7

----------------------------------------------------------------------------
(* Purchases                                                                *)

SharesWhole == \A i \in Items : shares[i] = <<>> \/ Volumes(shares[i]) = ShareTotal

\* A purchase of either kind, with what its buyer is charged.
Sells(r, paid) ==
    LET q == req[r]  price == q.entity.price IN
    /\ q \in BuyCalls /\ q.step = "pay" /\ paid <= price
    /\ balance' \in [Users -> Int] /\ history' \in [Users -> Int]
    /\ \A u \in Users : balance'[u] - history'[u]
                          = balance[u] - history[u] + (IF u = q.user THEN price - paid ELSE 0)
    /\ sales' = Append(sales, Sale(q, paid, Remain(price)))
    /\ item' = Counted(q) /\ Paid(r)
    /\ UNCHANGED <<shares, likes, cart, overwritten, budget>>

\* The step of a request tells what it is.
LEMMA CallTypes ==
    ASSUME TypeOK, NEW r \in Requests
    PROVE  /\ req[r].step \in {"lookup", "pay", "next", "uncart"} => req[r] \in BuyCalls
           /\ req[r].step \in {"like", "liked", "unlike", "unliked"} => req[r] \in LikeCalls
           /\ req[r].step = "save" => req[r] \in SaveCalls
           /\ req[r].step \in {"unlist", "remove"} => req[r] \in DeleteCalls
  BY DEF TypeOK, Calls, Free, Done, BuyCalls, LikeCalls, SaveCalls, DeleteCalls

\* What a call to buy has read is typed.
LEMMA BuyType ==
    ASSUME NEW q \in BuyCalls
    PROVE  /\ q.user \in Users /\ q.item \in Items /\ q.entity \in ItemRow /\ q.kind \in {"one", "batch"}
           /\ q.entity.price \in Prices /\ q.shared \in BOOLEAN /\ q.todo \in Seq(Items)
  BY DEF BuyCalls, ItemRow

\* Without shares the buyer is charged the price, and the owner gets the rest.
LEMMA OwnerIsPaid ==
    ASSUME TypeOK, NEW r \in Requests, PayOwner(r)
    PROVE  \E paid \in Nat : Sells(r, paid)
  <1>1. PICK q : q = req[r]
    OBVIOUS
  <1>2. q \in BuyCalls /\ q.step = "pay"
    BY <1>1, CallTypes DEF PayOwner
  <1>3. PICK p \in Nat : p = q.entity.price /\ Remain(p) \in Nat
    BY <1>2, BuyType, PriceType
  <1>4. PICK n \in Nat : n = Remain(p)
    BY <1>3
  <1>5. PICK u \in Users : u = q.user
    BY <1>2, BuyType
  <1>6. PICK o \in Users : o = Owner[q.item]
    BY <1>2, BuyType, MarketAssumption
  <1>7. balance \in [Users -> Int] /\ history \in [Users -> Int]
    BY DEF TypeOK
  <1>8. /\ balance' = [balance EXCEPT ![u] = @ - p, ![o] = @ + n]
        /\ history' = [history EXCEPT ![u] = @ - p, ![o] = @ + n]
    BY <1>1, <1>3, <1>4, <1>5, <1>6 DEF PayOwner
  <1>9. /\ balance' \in [Users -> Int] /\ history' \in [Users -> Int]
        /\ \A v \in Users : balance'[v] - history'[v] = balance[v] - history[v] + 0
    BY <1>7, <1>8
  <1>10. Sells(r, p)
    <2>1. /\ sales' = Append(sales, Sale(q, p, Remain(p)))
          /\ item' = Counted(q) /\ Paid(r)
          /\ UNCHANGED <<shares, likes, cart, overwritten, budget>>
      BY <1>1, <1>3 DEF PayOwner
    <2>2. \A v \in Users : balance'[v] - history'[v]
                            = balance[v] - history[v] + (IF v = q.user THEN p - p ELSE 0)
      BY <1>9
    <2> QED
      BY <1>1, <1>2, <1>3, <1>9, <2>1, <2>2 DEF Sells
  <1> QED
    BY <1>10

\* With shares the holders get the rest, and the buyer is charged for one.
LEMMA HoldersArePaid ==
    ASSUME TypeOK, SharesWhole, NEW r \in Requests, PayHolders(r)
    PROVE  \E paid \in Nat : Sells(r, paid)
  <1>1. PICK q : q = req[r]
    OBVIOUS
  <1>2. q \in BuyCalls /\ q.step = "pay"
    BY <1>1, CallTypes DEF PayHolders
  <1>3. PICK p \in Nat : p = q.entity.price /\ p \in Prices
    BY <1>2, BuyType, PriceType
  <1>4. PICK rows : rows = shares[q.item]
    OBVIOUS
  <1>5. /\ rows \in Seq(ShareRow) /\ rows # <<>> /\ Volumes(rows) = ShareTotal
    <2>1. q.item \in Items
      BY <1>2, BuyType
    <2> QED
      BY <1>1, <1>4, <2>1 DEF TypeOK, SharesWhole, PayHolders, SharesOut
  <1>6. PICK c \in Nat : c = Charged(q, rows) /\ c <= p
    BY <1>3, <1>5, BuyerIsCharged
  <1>7. Part(p, Volumes(rows)) = p
    BY <1>3, <1>5, BuyerIsCharged
  <1>8. PICK f \in [Users -> Nat] : f = Profits(q, rows) /\ SumOver(Users, f) = Remain(p)
    BY <1>3, <1>5, HoldersGetAll
  <1>9. balance \in [Users -> Int] /\ history \in [Users -> Int]
    BY DEF TypeOK
  <1>10. /\ balance' = [u \in Users |-> balance[u] + f[u] - (IF u = q.user THEN c ELSE 0)]
         /\ history' = [u \in Users |-> history[u] + f[u] - (IF u = q.user THEN p ELSE 0)]
         /\ sales' = Append(sales, Sale(q, c, Remain(p)))
         /\ item' = Counted(q) /\ Paid(r)
         /\ UNCHANGED <<shares, likes, cart, overwritten, budget>>
    BY <1>1, <1>3, <1>4, <1>6, <1>7, <1>8 DEF PayHolders
  <1>11. balance' \in [Users -> Int] /\ history' \in [Users -> Int]
    <2>1. ASSUME NEW u \in Users
          PROVE  /\ balance[u] + f[u] - (IF u = q.user THEN c ELSE 0) \in Int
                 /\ history[u] + f[u] - (IF u = q.user THEN p ELSE 0) \in Int
      <3>1. balance[u] \in Int /\ history[u] \in Int /\ f[u] \in Nat
        BY <1>9
      <3> QED
        BY <3>1
    <2> QED
      BY <1>10, <2>1
  <1>12. \A u \in Users : balance'[u] - history'[u]
                           = balance[u] - history[u] + (IF u = q.user THEN p - c ELSE 0)
    BY <1>9, <1>10
  <1>13. Sells(r, c)
    BY <1>1, <1>2, <1>3, <1>6, <1>10, <1>11, <1>12 DEF Sells
  <1> QED
    BY <1>13

----------------------------------------------------------------------------
(* Requests                                                                 *)

SoldTo(u, i) == \E k \in SalesBy(u) : sales[k].item = i

\* What a call to buy has come to: only a single purchase asks for shares, a
\* batch pays for an item it has left, and takes out of the cart what is sold.
CallOK(c) ==
    c \in BuyCalls =>
        /\ c.step = "lookup" => c.kind = "one"
        /\ c.step \in {"pay", "uncart"} /\ c.kind = "batch" => c.todo # <<>>
        /\ c.step = "uncart" => c.kind = "batch" /\ SoldTo(c.user, c.item)
CallsOK == \A r \in Requests : CallOK(req[r])

Base == TypeOK /\ SharesWhole /\ CallsOK

\* A step that sells nothing.
Unsold ==
    /\ TypeOK' /\ SharesWhole' /\ CallsOK'
    /\ UNCHANGED money /\ overwritten \subseteq overwritten'
    /\ \A i \in Items \ overwritten' : item'[i].purchaseCnt = item[i].purchaseCnt

\* Sales are kept.
LEMMA SoldIsKept ==
    ASSUME TypeOK, UNCHANGED sales \/ \E s \in SaleRow : sales' = Append(sales, s)
    PROVE  \A u, i : SoldTo(u, i) => SoldTo(u, i)'
  <1>1. CASE UNCHANGED sales
    BY <1>1 DEF SoldTo, SalesBy
  <1>2. ASSUME NEW s \in SaleRow, sales' = Append(sales, s)
        PROVE  \A u, i : SoldTo(u, i) => SoldTo(u, i)'
    <2>1. PICK n : n = Len(sales) + 1
      OBVIOUS
    <2>2. /\ \A k \in DOMAIN sales : sales'[k] = sales[k]
          /\ DOMAIN sales' = DOMAIN sales \cup {n}
      BY <1>2, <2>1, SaleListed
    <2> QED
      BY <2>2 DEF SoldTo, SalesBy
  <1> QED
    BY <1>1, <1>2

\* One call goes on, the others stay where they are.
LEMMA CallGoesOn ==
    ASSUME TypeOK, CallsOK, NEW r \in Requests, NEW x \in Calls, Becomes(r, x),
           \A u, i : SoldTo(u, i) => SoldTo(u, i)', CallOK(x)'
    PROVE  req' \in [Requests -> Calls] /\ CallsOK'
  <1>1. req \in [Requests -> Calls] /\ req' = [req EXCEPT ![r] = x]
    BY DEF TypeOK, Becomes
  <1>2. req' \in [Requests -> Calls] /\ req'[r] = x /\ \A t \in Requests \ {r} : req'[t] = req[t]
    BY <1>1
  <1>3. ASSUME NEW t \in Requests
        PROVE  CallOK(req[t])'
    <2>1. CASE t = r
      BY <1>2, <2>1 DEF CallOK
    <2>2. CASE t # r
      <3>1. CallOK(req[t]) /\ req'[t] = req[t]
        BY <1>2, <2>2 DEF CallsOK
      <3> QED
        BY <3>1 DEF CallOK
    <2> QED
      BY <2>1, <2>2
  <1> QED
    BY <1>2, <1>3 DEF CallsOK

\* The same when nothing is sold.
LEMMA CallGoesOnUnsold ==
    ASSUME TypeOK, CallsOK, NEW r \in Requests, NEW x \in Calls, Becomes(r, x),
           UNCHANGED sales, CallOK(x)
    PROVE  req' \in [Requests -> Calls] /\ CallsOK'
  <1>1. \A u, i : SoldTo(u, i) => SoldTo(u, i)'
    BY SoldIsKept
  <1>2. CallOK(x)'
    BY <1>1 DEF CallOK
  <1> QED
    BY <1>1, <1>2, CallGoesOn

\* A request goes on and leaves items, shares and money alone.
LEMMA CallStep ==
    ASSUME Base, NEW r \in Requests, NEW x \in Calls, CallOK(x), Becomes(r, x),
           UNCHANGED <<item, shares, money, overwritten, budget>>,
           likes' \in [Items -> [Users -> Nat]], cart' \subseteq Users \X Items
    PROVE  Unsold
  <1>1. req' \in [Requests -> Calls] /\ CallsOK'
    BY CallGoesOnUnsold DEF Base, money
  <1>2. TypeOK'
    BY <1>1 DEF TypeOK, Base, money
  <1>3. SharesWhole'
    BY DEF SharesWhole, Base
  <1> QED
    BY <1>1, <1>2, <1>3 DEF Unsold

\* The row of an item changes.
LEMMA ItemStep ==
    ASSUME Base, req' \in [Requests -> Calls], CallsOK', NEW i \in Items, NEW y \in ItemRow,
           item' = [item EXCEPT ![i] = y],
           overwritten' = overwritten \/ overwritten' = overwritten \cup {i},
           i \in overwritten' \/ y.purchaseCnt = item[i].purchaseCnt,
           budget' \in [trades : Nat, shows : Nat],
           UNCHANGED <<shares, likes, cart, money>>
    PROVE  Unsold
  <1>1. item \in [Items -> ItemRow] /\ overwritten \subseteq Items
    BY DEF Base, TypeOK
  <1>2. item' \in [Items -> ItemRow] /\ overwritten' \subseteq Items
    BY <1>1
  <1>3. TypeOK'
    BY <1>2 DEF TypeOK, Base, money
  <1>4. SharesWhole'
    BY DEF SharesWhole, Base
  <1>5. \A j \in Items \ overwritten' : item'[j].purchaseCnt = item[j].purchaseCnt
    BY <1>1
  <1> QED
    BY <1>3, <1>4, <1>5 DEF Unsold

----------------------------------------------------------------------------
(* Steps that sell nothing, one action after the other                      *)

\* A call that is not one to buy promises nothing.
LEMMA OtherCalls ==
    /\ Free \in Calls /\ CallOK(Free)
    /\ Done \in Calls /\ CallOK(Done)
    /\ \A e \in Users \X Items : LET x == [step |-> "done", uncart |-> e]
                                IN  x \in Calls /\ CallOK(x)
    /\ \A x \in LikeCalls \cup SaveCalls \cup DeleteCalls : x \in Calls /\ CallOK(x)
    /\ \A x \in BuyCalls : x \in Calls
  BY DEF Calls, CallOK, Free, Done, BuyCalls, LikeCalls, SaveCalls, DeleteCalls

\* A purchase or a batch begins.
LEMMA BuyingStarts ==
    ASSUME Base, NEW r \in Requests, NEW u \in Users,
           \/ \E i \in Items : StartPurchase(r, u, i)
           \/ \E todo \in Batches : StartBatch(r, u, todo)
    PROVE  Unsold
  <1>1. TypeOK /\ item \in [Items -> ItemRow]
    BY DEF Base, TypeOK
  <1>2. UNCHANGED tables
    BY DEF StartPurchase, StartBatch
  <1>3. \E x \in BuyCalls : CallOK(x) /\ Becomes(r, x)
    <2>1. ASSUME NEW i \in Items, StartPurchase(r, u, i)
          PROVE  \E x \in BuyCalls : CallOK(x) /\ Becomes(r, x)
      <3>1. PICK e \in ItemRow : e = item[i]
        BY <1>1
      <3>2. PICK x : x = [step |-> "lookup", kind |-> "one", user |-> u, item |-> i,
                          entity |-> e, shared |-> FALSE, todo |-> <<>>]
        OBVIOUS
      <3>3. Becomes(r, x)
        BY <2>1, <3>1, <3>2 DEF StartPurchase
      <3>4. <<>> \in Seq(Items)
        BY EmptySeq
      <3>5. x \in BuyCalls
        BY <3>2, <3>4 DEF BuyCalls
      <3>6. CallOK(x)
        BY <3>2 DEF CallOK
      <3> QED
        BY <3>3, <3>5, <3>6
    <2>2. ASSUME NEW todo \in Batches, StartBatch(r, u, todo)
          PROVE  \E x \in BuyCalls : CallOK(x) /\ Becomes(r, x)
      <3>1. todo \in Seq(Items) /\ todo[1] \in Items /\ todo # <<>>
        <4>1. PICK n \in 1 .. 2 : todo \in [1 .. n -> Items]
          BY DEF Batches
        <4>2. todo \in Seq(Items)
          BY <4>1, SeqDef
        <4> QED
          BY <4>1, <4>2
      <3>2. PICK e \in ItemRow : e = item[todo[1]]
        BY <1>1, <3>1
      <3>3. PICK x : x = [step |-> "next", kind |-> "batch", user |-> u, item |-> todo[1],
                          entity |-> e, shared |-> FALSE, todo |-> todo]
        OBVIOUS
      <3>4. Becomes(r, x)
        BY <2>2, <3>2, <3>3 DEF StartBatch
      <3>5. x \in BuyCalls
        BY <3>1, <3>3 DEF BuyCalls
      <3>6. CallOK(x)
        BY <3>3 DEF CallOK
      <3> QED
        BY <3>4, <3>5, <3>6
    <2> QED
      BY <2>1, <2>2
  <1>4. PICK x \in BuyCalls : CallOK(x) /\ Becomes(r, x)
    BY <1>3
  <1>5. x \in Calls
    BY OtherCalls
  <1>6. likes' \in [Items -> [Users -> Nat]] /\ cart' \subseteq Users \X Items
    BY <1>2 DEF tables, Base, TypeOK
  <1> QED
    BY <1>2, <1>4, <1>5, <1>6, CallStep DEF tables, money

\* A purchase looks the shares up, a batch goes to its next item.
LEMMA BuyingGoesOn ==
    ASSUME Base, NEW r \in Requests, Lookup(r) \/ BatchNext(r) \/ TransactionFails(r)
    PROVE  Unsold
  <1>1. TypeOK /\ item \in [Items -> ItemRow] /\ CallOK(req[r])
    BY DEF Base, TypeOK, CallsOK
  <1>2. UNCHANGED tables
    BY DEF Lookup, BatchNext, TransactionFails
  <1>3. PICK q \in BuyCalls : q = req[r] /\ CallOK(q)
    BY <1>1, CallTypes DEF Lookup, BatchNext, TransactionFails
  <1>4. \E x \in Calls : CallOK(x) /\ Becomes(r, x)
    <2>1. CASE Lookup(r)
      <3>1. PICK b \in BOOLEAN : Becomes(r, [q EXCEPT !.step = "pay", !.shared = b])
        <4>1. OwnerIsFound(q.item) \in BOOLEAN
          BY DEF OwnerIsFound
        <4>2. Becomes(r, [q EXCEPT !.step = "pay", !.shared = OwnerIsFound(q.item)])
          BY <1>3, <2>1 DEF Lookup
        <4> QED
          BY <4>1, <4>2
      <3>2. PICK x : x = [q EXCEPT !.step = "pay", !.shared = b]
        OBVIOUS
      <3>3. x \in BuyCalls /\ x.step = "pay" /\ x.kind = q.kind
        BY <3>2 DEF BuyCalls
      <3>4. q.kind = "one"
        BY <1>3, <2>1 DEF Lookup, CallOK
      <3>5. CallOK(x) /\ x \in Calls
        BY <3>3, <3>4, OtherCalls DEF CallOK
      <3> QED
        BY <3>1, <3>2, <3>5
    <2>2. CASE BatchNext(r)
      <3>1. CASE q.todo = <<>>
        BY <1>3, <2>2, <3>1, OtherCalls DEF BatchNext
      <3>2. CASE q.todo # <<>>
        <4>1. PICK i \in Items : i = Head(q.todo)
          BY <3>2, BuyType, HeadTailProperties
        <4>2. PICK e \in ItemRow : e = item[i]
          BY <1>1
        <4>3. PICK x : x = [q EXCEPT !.step = "pay", !.item = i, !.entity = e]
          OBVIOUS
        <4>4. Becomes(r, x)
          BY <1>3, <2>2, <3>2, <4>1, <4>2, <4>3 DEF BatchNext
        <4>5. x \in BuyCalls /\ x.step = "pay" /\ x.todo = q.todo
          BY <4>3 DEF BuyCalls
        <4>6. CallOK(x) /\ x \in Calls
          BY <3>2, <4>5, OtherCalls DEF CallOK
        <4> QED
          BY <4>4, <4>6
      <3> QED
        BY <3>1, <3>2
    <2>3. CASE TransactionFails(r)
      BY <2>3, OtherCalls DEF TransactionFails
    <2> QED
      BY <2>1, <2>2, <2>3
  <1>5. PICK x \in Calls : CallOK(x) /\ Becomes(r, x)
    BY <1>4
  <1>6. likes' \in [Items -> [Users -> Nat]] /\ cart' \subseteq Users \X Items
    BY <1>2 DEF tables, Base, TypeOK
  <1> QED
    BY <1>2, <1>5, <1>6, CallStep DEF tables, money

\* A batch takes what it has bought out of the cart.
LEMMA BatchUncarts ==
    ASSUME Base, NEW r \in Requests, UncartPaid(r)
    PROVE  Unsold
  <1>1. CallOK(req[r]) /\ TypeOK
    BY DEF Base, CallsOK
  <1>2. PICK q \in BuyCalls : q = req[r] /\ CallOK(q) /\ q.step = "uncart"
    BY <1>1, CallTypes DEF UncartPaid
  <1>3. q.todo \in Seq(Items) /\ q.todo # <<>>
    BY <1>2, BuyType DEF CallOK
  <1>4. PICK rest \in Seq(Items) : rest = Tail(q.todo)
    BY <1>3, HeadTailProperties
  <1>5. PICK x : x = [q EXCEPT !.step = "next", !.todo = rest]
    OBVIOUS
  <1>6. Becomes(r, x)
    BY <1>2, <1>4, <1>5 DEF UncartPaid
  <1>7. x \in BuyCalls /\ x.step = "next"
    BY <1>5 DEF BuyCalls
  <1>8. CallOK(x) /\ x \in Calls
    BY <1>7, OtherCalls DEF CallOK
  <1>9. likes' \in [Items -> [Users -> Nat]] /\ cart' \subseteq Users \X Items
    BY DEF UncartPaid, Base, TypeOK
  <1>10. UNCHANGED <<item, shares, money, overwritten, budget>>
    BY DEF UncartPaid, money
  <1> QED
    BY <1>6, <1>8, <1>9, <1>10, CallStep

\* The user fills and empties the cart.
LEMMA CartChanges ==
    ASSUME Base, NEW r \in Requests, NEW u \in Users, NEW i \in Items,
           CreateCart(r, u, i) \/ DeleteCart(r, u, i)
    PROVE  Unsold
  <1>1. cart \subseteq Users \X Items /\ likes \in [Items -> [Users -> Nat]]
    BY DEF Base, TypeOK
  <1>2. /\ UNCHANGED <<item, shares, money, overwritten, budget>>
        /\ likes' \in [Items -> [Users -> Nat]] /\ cart' \subseteq Users \X Items
    BY <1>1 DEF CreateCart, DeleteCart
  <1>3. \E x \in Calls : CallOK(x) /\ Becomes(r, x)
    <2>1. CASE CreateCart(r, u, i)
      BY <2>1, OtherCalls DEF CreateCart
    <2>2. CASE DeleteCart(r, u, i)
      <3>1. PICK e \in Users \X Items : e = <<u, i>>
        OBVIOUS
      <3>2. PICK x : x = [step |-> "done", uncart |-> e]
        OBVIOUS
      <3>3. Becomes(r, x)
        BY <2>2, <3>1, <3>2 DEF DeleteCart
      <3> QED
        BY <3>2, <3>3, OtherCalls
    <2> QED
      BY <2>1, <2>2
  <1> QED
    BY <1>2, <1>3, CallStep

\* Likes are checked, stored and taken back.
LEMMA LikesChange ==
    ASSUME Base, NEW r \in Requests,
           \/ \E u \in Users, i \in Items : StartLike(r, u, i) \/ StartUnlike(r, u, i)
           \/ Like(r) \/ Unlike(r)
    PROVE  Unsold
  <1>1. cart \subseteq Users \X Items /\ likes \in [Items -> [Users -> Nat]] /\ TypeOK
    BY DEF Base, TypeOK
  <1>2. ASSUME NEW u \in Users, NEW i \in Items, StartLike(r, u, i) \/ StartUnlike(r, u, i)
        PROVE  Unsold
    <2>1. UNCHANGED tables
      BY <1>2 DEF StartLike, StartUnlike
    <2>2. PICK s \in {"like", "unlike"} : Becomes(r, [step |-> s, user |-> u, item |-> i])
      BY <1>2 DEF StartLike, StartUnlike
    <2>3. PICK x \in LikeCalls : x = [step |-> s, user |-> u, item |-> i]
      BY DEF LikeCalls
    <2> QED
      BY <1>1, <2>1, <2>2, <2>3, OtherCalls, CallStep DEF tables, money
  <1>3. ASSUME Like(r) \/ Unlike(r)
        PROVE  Unsold
    <2>1. PICK q \in LikeCalls : q = req[r]
      BY <1>1, <1>3, CallTypes DEF Like, Unlike
    <2>2. q.user \in Users /\ q.item \in Items
      BY DEF LikeCalls
    <2>3. PICK n \in Nat : n = likes[q.item][q.user] + 1
      BY <1>1, <2>2
    <2>4. \E m \in Nat : likes' = [likes EXCEPT ![q.item][q.user] = m]
      BY <1>3, <2>1, <2>3 DEF Like, Unlike
    <2>5. likes' \in [Items -> [Users -> Nat]]
      BY <1>1, <2>2, <2>4
    <2>6. PICK s \in {"liked", "unliked"} : Becomes(r, [q EXCEPT !.step = s])
      BY <1>3, <2>1 DEF Like, Unlike
    <2>7. PICK x \in LikeCalls : x = [q EXCEPT !.step = s]
      BY DEF LikeCalls
    <2>8. UNCHANGED <<item, shares, cart, money, overwritten, budget>>
      BY <1>3 DEF Like, Unlike
    <2> QED
      BY <1>1, <2>5, <2>6, <2>7, <2>8, OtherCalls, CallStep
  <1> QED
    BY <1>2, <1>3

\* Likes and views are counted.
LEMMA CountsChange ==
    ASSUME Base, NEW r \in Requests,
           \/ IncreaseLikeCnt(r) \/ DecreaseLikeCnt(r)
           \/ \E i \in Items : IncreaseViewCnt(r, i)
    PROVE  Unsold
  <1>1. item \in [Items -> ItemRow] /\ TypeOK /\ CallsOK
    BY DEF Base, TypeOK
  <1>2. /\ Becomes(r, Done)
        /\ UNCHANGED <<shares, likes, cart, money, overwritten, budget>>
    BY DEF IncreaseLikeCnt, DecreaseLikeCnt, Count, IncreaseViewCnt
  <1>3. req' \in [Requests -> Calls] /\ CallsOK'
    BY <1>1, <1>2, OtherCalls, CallGoesOnUnsold DEF money
  <1>4. \E i \in Items, y \in ItemRow : /\ item' = [item EXCEPT ![i] = y]
                                       /\ y.purchaseCnt = item[i].purchaseCnt
    <2>1. ASSUME NEW d \in {1, -1}, NEW step \in {"liked", "unliked"}, Count(r, step, d)
          PROVE  \E i \in Items, y \in ItemRow : /\ item' = [item EXCEPT ![i] = y]
                                                /\ y.purchaseCnt = item[i].purchaseCnt
      <3>1. PICK i \in Items : i = req[r].item
        BY <1>1, <2>1, CallTypes DEF Count, LikeCalls
      <3>2. PICK n \in Int : n = item[i].likeCnt + d
        BY <1>1 DEF ItemRow
      <3>3. item' = [item EXCEPT ![i] = [item[i] EXCEPT !.likeCnt = n]]
        BY <1>1, <2>1, <3>1, <3>2 DEF Count
      <3>4. PICK y : y = [item[i] EXCEPT !.likeCnt = n]
        OBVIOUS
      <3>5. y \in ItemRow /\ y.purchaseCnt = item[i].purchaseCnt
        BY <1>1, <3>4 DEF ItemRow
      <3> QED
        BY <3>3, <3>4, <3>5
    <2>2. ASSUME NEW i \in Items, IncreaseViewCnt(r, i)
          PROVE  \E y \in ItemRow : /\ item' = [item EXCEPT ![i] = y]
                                   /\ y.purchaseCnt = item[i].purchaseCnt
      <3>1. PICK n \in Nat : n = item[i].viewCnt + 1
        BY <1>1 DEF ItemRow
      <3>2. item' = [item EXCEPT ![i] = [item[i] EXCEPT !.viewCnt = n]]
        BY <1>1, <2>2, <3>1 DEF IncreaseViewCnt
      <3>3. PICK y : y = [item[i] EXCEPT !.viewCnt = n]
        OBVIOUS
      <3>4. y \in ItemRow /\ y.purchaseCnt = item[i].purchaseCnt
        BY <1>1, <3>3 DEF ItemRow
      <3> QED
        BY <3>2, <3>3, <3>4
    <2> QED
      BY <2>1, <2>2 DEF IncreaseLikeCnt, DecreaseLikeCnt
  <1>5. PICK i \in Items, y \in ItemRow : /\ item' = [item EXCEPT ![i] = y]
                                        /\ y.purchaseCnt = item[i].purchaseCnt
    BY <1>4
  <1>6. budget' \in [trades : Nat, shows : Nat] /\ overwritten' = overwritten
    BY <1>1, <1>2 DEF TypeOK
  <1> QED
    BY <1>2, <1>3, <1>5, <1>6, ItemStep

\* The owner's update reads an item, and writes it back as it was read.
LEMMA UpdateSaves ==
    ASSUME Base, NEW r \in Requests,
           Save(r) \/ \E i \in Items, price \in Prices : StartUpdate(r, i, price)
    PROVE  Unsold
  <1>1. item \in [Items -> ItemRow] /\ TypeOK /\ CallsOK
    BY DEF Base, TypeOK
  <1>2. ASSUME NEW i \in Items, NEW price \in Prices, StartUpdate(r, i, price)
        PROVE  Unsold
    <2>1. PICK e \in ItemRow : e = [item[i] EXCEPT !.price = price]
      BY <1>1 DEF ItemRow
    <2>2. PICK x \in SaveCalls : x = [step |-> "save", item |-> i, entity |-> e]
      BY DEF SaveCalls
    <2>3. Becomes(r, x) /\ UNCHANGED tables
      BY <1>2, <2>1, <2>2 DEF StartUpdate
    <2>4. likes' \in [Items -> [Users -> Nat]] /\ cart' \subseteq Users \X Items
      BY <1>1, <2>3 DEF tables, TypeOK
    <2> QED
      BY <2>2, <2>3, <2>4, OtherCalls, CallStep DEF tables, money
  <1>3. ASSUME Save(r)
        PROVE  Unsold
    <2>1. PICK q \in SaveCalls : q = req[r]
      BY <1>1, <1>3, CallTypes DEF Save
    <2>2. PICK i \in Items, y \in ItemRow : i = q.item /\ y = q.entity
      BY DEF SaveCalls
    <2>3. /\ item' = [item EXCEPT ![i] = y] /\ Becomes(r, Done)
          /\ UNCHANGED <<shares, likes, cart, money, budget>>
      BY <1>3, <2>1, <2>2 DEF Save
    <2>4. \/ overwritten' = overwritten \cup {i}
          \/ /\ overwritten' = overwritten
             /\ [item[i] EXCEPT !.price = 0] = [y EXCEPT !.price = 0]
      BY <1>3, <2>1, <2>2 DEF Save
    <2>5. ASSUME [item[i] EXCEPT !.price = 0] = [y EXCEPT !.price = 0]
          PROVE  y.purchaseCnt = item[i].purchaseCnt
      <3>1. /\ [item[i] EXCEPT !.price = 0].purchaseCnt = item[i].purchaseCnt
            /\ [y EXCEPT !.price = 0].purchaseCnt = y.purchaseCnt
        BY <1>1 DEF ItemRow
      <3> QED
        BY <2>5, <3>1
    <2>6. req' \in [Requests -> Calls] /\ CallsOK'
      BY <1>1, <2>3, OtherCalls, CallGoesOnUnsold DEF money
    <2>7. budget' \in [trades : Nat, shows : Nat]
      BY <1>1, <2>3 DEF TypeOK
    <2>8. overwritten' = overwritten \/ overwritten' = overwritten \cup {i}
      BY <2>4
    <2>9. i \in overwritten' \/ y.purchaseCnt = item[i].purchaseCnt
      BY <2>4, <2>5
    <2> QED
      BY <2>3, <2>6, <2>7, <2>8, <2>9, ItemStep
  <1> QED
    BY <1>2, <1>3

\* The owner deletes an item, first its shares and then the item.
LEMMA Deletes ==
    ASSUME Base, NEW r \in Requests,
           \/ \E i \in Items : StartDelete(r, i)
           \/ Unlist(r) \/ MarkDeleted(r)
    PROVE  Unsold
  <1>1. /\ item \in [Items -> ItemRow] /\ TypeOK /\ CallsOK /\ SharesWhole
        /\ likes \in [Items -> [Users -> Nat]] /\ cart \subseteq Users \X Items
        /\ shares \in [Items -> Seq(ShareRow)] /\ budget \in [trades : Nat, shows : Nat]
    BY DEF Base, TypeOK
  <1>2. ASSUME NEW i \in Items, StartDelete(r, i)
        PROVE  Unsold
    <2>1. PICK s \in {"unlist", "remove"} : Becomes(r, [step |-> s, item |-> i])
      BY <1>2 DEF StartDelete
    <2>2. PICK x \in DeleteCalls : x = [step |-> s, item |-> i]
      BY DEF DeleteCalls
    <2>3. Becomes(r, x) /\ UNCHANGED tables
      BY <1>2, <2>1, <2>2 DEF StartDelete
    <2> QED
      BY <1>1, <2>3, OtherCalls, CallStep DEF tables, money
  <1>3. ASSUME Unlist(r)
        PROVE  Unsold
    <2>1. PICK q \in DeleteCalls : q = req[r]
      BY <1>1, <1>3, CallTypes DEF Unlist
    <2>2. PICK i \in Items : i = q.item
      BY DEF DeleteCalls
    <2>3. PICK x \in DeleteCalls : x = [q EXCEPT !.step = "remove"]
      BY DEF DeleteCalls
    <2>4. Becomes(r, x) \/ Becomes(r, Done)
      BY <1>3, <2>1, <2>3 DEF Unlist
    <2>5. shares' = [shares EXCEPT ![i] = <<>>] \/ UNCHANGED shares
      BY <1>3, <2>1, <2>2 DEF Unlist
    <2>6. UNCHANGED <<item, likes, cart, money, overwritten, budget>>
      BY <1>3 DEF Unlist
    <2>7. req' \in [Requests -> Calls] /\ CallsOK'
      BY <1>1, <2>4, <2>6, OtherCalls, CallGoesOnUnsold DEF money
    <2>8. \A j \in Items : shares'[j] = shares[j] \/ shares'[j] = <<>>
      BY <1>1, <2>5
    <2>9. shares' \in [Items -> Seq(ShareRow)]
      BY <1>1, <2>5, EmptySeq
    <2>10. \A k \in Items : \A a, b \in DOMAIN shares'[k] :
              shares'[k][a].user = shares'[k][b].user => a = b
      <3>1. DOMAIN <<>> = {}
        OBVIOUS
      <3> QED
        BY <1>1, <2>8, <3>1 DEF TypeOK
    <2>11. TypeOK'
      BY <1>1, <2>6, <2>7, <2>9, <2>10 DEF TypeOK, money
    <2>12. SharesWhole'
      BY <1>1, <2>8 DEF SharesWhole
    <2> QED
      BY <1>1, <2>6, <2>7, <2>11, <2>12 DEF Unsold, money
  <1>4. ASSUME MarkDeleted(r)
        PROVE  Unsold
    <2>1. PICK i \in Items : i = req[r].item
      BY <1>1, <1>4, CallTypes DEF MarkDeleted, DeleteCalls
    <2>2. PICK y : y = [item[i] EXCEPT !.isDeleted = TRUE, !.isShow = FALSE]
      OBVIOUS
    <2>3. y \in ItemRow /\ y.purchaseCnt = item[i].purchaseCnt
      BY <1>1, <2>2 DEF ItemRow
    <2>4. /\ item' = [item EXCEPT ![i] = y] /\ Becomes(r, Done)
          /\ UNCHANGED <<shares, likes, cart, money, overwritten, budget>>
      BY <1>1, <1>4, <2>1, <2>2 DEF MarkDeleted
    <2>5. req' \in [Requests -> Calls] /\ CallsOK'
      BY <1>1, <2>4, OtherCalls, CallGoesOnUnsold DEF money
    <2> QED
      BY <1>1, <2>3, <2>4, <2>5, ItemStep
  <1> QED
    BY <1>2, <1>3, <1>4

\* The engine moves a share from one holder to another.
LEMMA SharesAreTraded ==
    ASSUME Base, NEW i \in Items, NEW seller \in Users, NEW buyer \in Users,
           Trade(i, seller, buyer)
    PROVE  Unsold
  <1>1. /\ item \in [Items -> ItemRow] /\ TypeOK /\ CallsOK /\ SharesWhole
        /\ shares \in [Items -> Seq(ShareRow)] /\ budget \in [trades : Nat, shows : Nat]
        /\ ShareTotal \in Nat \ {0}
    BY MarketAssumption DEF Base, TypeOK
  <1>2. PICK rows \in Seq(ShareRow) : rows = shares[i]
    BY <1>1
  <1>3. PICK t : t = Transferred(rows, seller, buyer)
    OBVIOUS
  <1>4. shares' = [shares EXCEPT ![i] = t] /\ seller # buyer /\ VolumeOf(rows, seller) > 0
    BY <1>1, <1>2, <1>3 DEF Trade
  <1>5. OneRowEach(rows)
    BY <1>1, <1>2 DEF TypeOK, OneRowEach
  <1>6. t \in Seq(ShareRow) /\ OneRowEach(t) /\ Volumes(t) = Volumes(rows)
    BY <1>3, <1>4, <1>5, TradeKeepsShares
  <1>7. rows # <<>>
    <2>1. ASSUME rows = <<>>
          PROVE  FALSE
      <3> DEFINE ks == {k \in DOMAIN rows : rows[k].user = seller}
                 f == Held(rows)
      <3>1. ks = {}
        BY <2>1
      <3>2. VolumeOf(rows, seller) = SumOver(ks, f)
        BY DEF VolumeOf
      <3> HIDE DEF ks, f
      <3>3. SumOver(ks, f) = 0
        BY <3>1, SumEmpty
      <3> QED
        BY <1>4, <3>2, <3>3
    <2> QED
      BY <2>1
  <1>8. UNCHANGED <<item, likes, cart, money, req, overwritten>>
    BY DEF Trade
  <1>9. budget' \in [trades : Nat, shows : Nat]
    <2>1. PICK n \in Nat : n = budget.trades - 1
      BY <1>1 DEF Trade
    <2>2. budget' = [budget EXCEPT !.trades = n]
      BY <2>1 DEF Trade
    <2> QED
      BY <1>1, <2>1, <2>2
  <1>10. /\ shares' \in [Items -> Seq(ShareRow)] /\ shares'[i] = t
         /\ \A j \in Items \ {i} : shares'[j] = shares[j]
    BY <1>1, <1>4, <1>6
  <1>11. \A k \in Items : \A a, b \in DOMAIN shares'[k] :
            shares'[k][a].user = shares'[k][b].user => a = b
    <2> TAKE k \in Items
    <2>1. CASE k = i
      BY <1>6, <1>10, <2>1 DEF OneRowEach
    <2>2. CASE k # i
      BY <1>1, <1>10, <2>2 DEF TypeOK
    <2> QED
      BY <2>1, <2>2
  <1>12. TypeOK'
    BY <1>1, <1>8, <1>9, <1>10, <1>11 DEF TypeOK, money
  <1>13. SharesWhole'
    <2>1. Volumes(t) = ShareTotal
      BY <1>1, <1>2, <1>6, <1>7 DEF SharesWhole
    <2>2. ASSUME NEW j \in Items
          PROVE  shares'[j] = <<>> \/ Volumes(shares'[j]) = ShareTotal
      <3>1. CASE j = i
        BY <1>10, <2>1, <3>1
      <3>2. CASE j # i
        BY <1>1, <1>10, <3>2 DEF SharesWhole
      <3> QED
        BY <3>1, <3>2
    <2> QED
      BY <2>2 DEF SharesWhole
  <1>14. CallsOK'
    BY <1>1, <1>8 DEF CallsOK, CallOK, SoldTo, SalesBy, money
  <1> QED
    BY <1>8, <1>12, <1>13, <1>14 DEF Unsold

\* The administration shows and hides, the process dies, or nothing happens.
LEMMA Others ==
    ASSUME Base, (\E i \in Items : ShowOrHide(i)) \/ Crash \/ UNCHANGED vars
    PROVE  Unsold
  <1>1. /\ item \in [Items -> ItemRow] /\ TypeOK /\ CallsOK /\ SharesWhole
        /\ budget \in [trades : Nat, shows : Nat]
        /\ req \in [Requests -> Calls]
    BY DEF Base, TypeOK
  <1>2. ASSUME NEW i \in Items, ShowOrHide(i)
        PROVE  Unsold
    <2>1. PICK b \in BOOLEAN : b = ~item[i].isShow
      OBVIOUS
    <2>2. PICK y : y = [item[i] EXCEPT !.isShow = b]
      OBVIOUS
    <2>3. y \in ItemRow /\ y.purchaseCnt = item[i].purchaseCnt
      BY <1>1, <2>2 DEF ItemRow
    <2>4. /\ item' = [item EXCEPT ![i] = y]
          /\ UNCHANGED <<shares, likes, cart, money, req, overwritten>>
      BY <1>1, <1>2, <2>1, <2>2 DEF ShowOrHide
    <2>5. budget' \in [trades : Nat, shows : Nat]
      <3>1. PICK n \in Nat : n = budget.shows - 1
        BY <1>1, <1>2 DEF ShowOrHide
      <3>2. budget' = [budget EXCEPT !.shows = n]
        BY <1>2, <3>1 DEF ShowOrHide
      <3> QED
        BY <1>1, <3>1, <3>2
    <2>6. req' \in [Requests -> Calls] /\ CallsOK'
      BY <1>1, <2>4 DEF CallsOK, CallOK, SoldTo, SalesBy, money
    <2> QED
      BY <2>3, <2>4, <2>5, <2>6, ItemStep
  <1>3. CASE Crash
    <2>1. req' \in [Requests -> Calls] /\ \A r \in Requests : req'[r] \in {Free, Done}
      BY <1>3, OtherCalls DEF Crash
    <2>2. CallsOK'
      BY <2>1 DEF CallsOK, CallOK, Free, Done, BuyCalls
    <2>3. UNCHANGED tables
      BY <1>3 DEF Crash
    <2>4. TypeOK' /\ SharesWhole'
      BY <1>1, <2>1, <2>3 DEF TypeOK, SharesWhole, tables
    <2> QED
      BY <2>2, <2>3, <2>4 DEF Unsold, tables, money
  <1>4. CASE UNCHANGED vars
    <2>1. TypeOK' /\ SharesWhole' /\ CallsOK'
      BY <1>1, <1>4 DEF TypeOK, SharesWhole, CallsOK, CallOK, SoldTo, SalesBy, vars
    <2> QED
      BY <1>4, <2>1 DEF Unsold, vars, money
  <1> QED
    BY <1>2, <1>3, <1>4

----------------------------------------------------------------------------
(* The invariant                                                            *)

MarketInv ==
    Base /\ PaidOK /\ ProfitsAreWhole /\ HistoryExplainsBalance /\ CumulativeIsSum /\ PurchasesAreCounted

\* A purchase keeps all of it: the sale continues the amounts of its item, the
\* item's counter and its sales grow together, and what the history and the
\* balance of the buyer differ by is in the sale.
LEMMA SaleKeepsAll ==
    ASSUME MarketInv, NEW r \in Requests, NEW paid \in Nat, Sells(r, paid)
    PROVE  MarketInv' /\ UNCHANGED cart
  <1>1. /\ TypeOK /\ SharesWhole /\ CallsOK /\ PaidOK /\ ProfitsAreWhole
        /\ HistoryExplainsBalance /\ CumulativeIsSum /\ PurchasesAreCounted
    BY DEF MarketInv, Base
  <1>2. PICK q \in BuyCalls : q = req[r] /\ q.step = "pay"
    BY DEF Sells
  <1>3. PICK p \in Prices : /\ p = q.entity.price /\ p \in Nat /\ Remain(p) \in Nat
                            /\ Remain(p) + Fee(p) = p /\ paid <= p
    BY <1>2, BuyType, PriceType DEF Sells
  <1>4. PICK i \in Items, u \in Users : i = q.item /\ u = q.user
    BY BuyType
  <1>5. PICK s \in SaleRow : s = Sale(q, paid, Remain(p))
    BY <1>1, <1>3, SaleType
  <1>6. /\ s.item = i /\ s.buyer = u /\ s.price = p /\ s.paid = paid
        /\ s.profits = s.amount /\ s.amount + s.fee = s.price
        /\ s.cumulative = Cumulative(s.item) + s.price
    BY <1>3, <1>4, <1>5 DEF Sale
  <1>7. /\ sales' = Append(sales, s) /\ item' = Counted(q) /\ Paid(r)
        /\ UNCHANGED <<shares, likes, cart, overwritten, budget>>
        /\ balance' \in [Users -> Int] /\ history' \in [Users -> Int]
        /\ \A v \in Users : balance'[v] - history'[v]
                             = balance[v] - history[v] + (IF v = u THEN p - paid ELSE 0)
    BY <1>2, <1>3, <1>4, <1>5 DEF Sells
  <1>8. PICK n : n = Len(sales) + 1
    OBVIOUS
  <1>9. /\ sales' \in Seq(SaleRow) /\ DOMAIN sales' = DOMAIN sales \cup {n}
        /\ n \in Nat /\ n \notin DOMAIN sales /\ sales'[n] = s
        /\ \A k \in DOMAIN sales : sales'[k] = sales[k] /\ k \in Nat /\ k < n
        /\ \A j : SalesOf(j)' = SalesOf(j) \cup (IF j = i THEN {n} ELSE {})
        /\ \A v : SalesBy(v)' = SalesBy(v) \cup (IF v = u THEN {n} ELSE {})
    BY <1>1, <1>6, <1>7, <1>8, SaleListed
  <1>10. /\ item' \in [Items -> ItemRow]
         /\ item'[i].purchaseCnt = item[i].purchaseCnt + 1
         /\ \A j \in Items \ {i} : item'[j] = item[j]
    <2>1. item \in [Items -> ItemRow]
      BY <1>1 DEF TypeOK
    <2>2. PICK m \in Nat : m = item[i].purchaseCnt + 1
      BY <2>1 DEF ItemRow
    <2>3. PICK y : y = [item[i] EXCEPT !.purchaseCnt = m]
      OBVIOUS
    <2>4. y \in ItemRow /\ y.purchaseCnt = m
      BY <2>1, <2>3 DEF ItemRow
    <2>5. item' = [item EXCEPT ![i] = y]
      BY <1>4, <1>7, <2>1, <2>2, <2>3 DEF Counted
    <2> QED
      BY <2>1, <2>2, <2>4, <2>5
  <1>11. req' \in [Requests -> Calls] /\ CallsOK'
    <2>1. \A v, j : SoldTo(v, j) => SoldTo(v, j)'
      BY <1>1, <1>7, SoldIsKept
    <2>2. SoldTo(u, i)'
      <3>1. n \in SalesBy(u)' /\ sales'[n].item = i
        BY <1>6, <1>9
      <3> QED
        BY <3>1 DEF SoldTo
    <2>3. CASE q.kind = "one"
      <3>1. Becomes(r, Done)
        BY <1>2, <1>7, <2>3 DEF Paid
      <3>2. CallOK(Done)'
        BY DEF CallOK, Done, BuyCalls
      <3> QED
        BY <1>1, <2>1, <3>1, <3>2, OtherCalls, CallGoesOn
    <2>4. CASE q.kind # "one"
      <3>1. PICK x : x = [q EXCEPT !.step = "uncart"]
        OBVIOUS
      <3>2. Becomes(r, x)
        BY <1>2, <1>7, <2>4, <3>1 DEF Paid
      <3>3. /\ x \in BuyCalls /\ x.step = "uncart" /\ x.kind = q.kind
            /\ x.user = u /\ x.item = i /\ x.todo = q.todo
        BY <1>4, <3>1 DEF BuyCalls
      <3>4. q.kind = "batch" /\ q.todo # <<>>
        <4>1. CallOK(q)
          BY <1>1, <1>2 DEF CallsOK
        <4>2. q.kind = "batch"
          BY <2>4, BuyType
        <4> QED
          BY <1>2, <4>1, <4>2 DEF CallOK
      <3>5. CallOK(x)'
        BY <2>2, <3>3, <3>4 DEF CallOK
      <3>6. x \in Calls
        BY <3>3, OtherCalls
      <3> QED
        BY <1>1, <2>1, <3>2, <3>5, <3>6, CallGoesOn
    <2> QED
      BY <2>3, <2>4
  <1>12. TypeOK'
    BY <1>1, <1>7, <1>9, <1>10, <1>11 DEF TypeOK
  <1>13. SharesWhole'
    BY <1>1, <1>7 DEF SharesWhole
  <1>14. PaidOK' /\ HistoryExplainsBalance'
    <2>1. /\ PaidOK'
          /\ \A v \in Users : /\ SumOver(SalesBy(v), SaleDebt) \in Nat
                              /\ SumOver(SalesBy(v)', SaleDebt') = SumOver(SalesBy(v), SaleDebt)
                                   + (IF v = u THEN p - paid ELSE 0)
      BY <1>1, <1>3, <1>6, <1>7, DebtGrows
    <2>2. balance \in [Users -> Int] /\ history \in [Users -> Int] /\ Opening \in Nat
      BY <1>1, MarketAssumption DEF TypeOK
    <2>3. ASSUME NEW v \in Users
          PROVE  balance'[v] = Opening + history'[v] + SumOver(SalesBy(v)', SaleDebt')
      <3>1. PICK d \in Nat : d = SumOver(SalesBy(v), SaleDebt)
        BY <2>1
      <3>2. PICK e \in Int : e = IF v = u THEN p - paid ELSE 0
        BY <1>3
      <3>3. SumOver(SalesBy(v)', SaleDebt') = d + e
        BY <2>1, <3>1, <3>2
      <3>4. balance[v] = Opening + history[v] + d
        BY <1>1, <3>1 DEF HistoryExplainsBalance, SaleDebt
      <3>5. balance'[v] - history'[v] = balance[v] - history[v] + e
        BY <1>7, <3>2
      <3>6. /\ balance[v] \in Int /\ history[v] \in Int
            /\ balance'[v] \in Int /\ history'[v] \in Int
        BY <1>7, <2>2
      <3>7. PICK a \in Int, b \in Int : a = balance'[v] /\ b = history'[v]
        BY <3>6
      <3>8. PICK x \in Int, y \in Int : x = balance[v] /\ y = history[v]
        BY <3>6
      <3>9. PICK z : z = SumOver(SalesBy(v)', SaleDebt')
        OBVIOUS
      <3>10. a - b = x - y + e /\ x = Opening + y + d /\ z = d + e
        BY <3>3, <3>4, <3>5, <3>7, <3>8, <3>9
      <3>11. a = Opening + b + z
        BY <2>2, <3>10
      <3> QED
        BY <3>7, <3>9, <3>11
    <2> QED
      BY <2>1, <2>3 DEF HistoryExplainsBalance, SaleDebt
  <1>15. ProfitsAreWhole'
    BY <1>1, <1>6, <1>9 DEF ProfitsAreWhole
  <1>16. CumulativeIsSum'
    BY <1>1, <1>6, <1>7, CumulativeGoesOn
  <1>17. PurchasesAreCounted'
    <2>1. ASSUME NEW j \in Items \ overwritten
          PROVE  item'[j].purchaseCnt = Cardinality(SalesOf(j)')
      <3>1. PICK A : A = SalesOf(j)
        OBVIOUS
      <3>2. IsFiniteSet(A) /\ n \notin A /\ item[j].purchaseCnt = Cardinality(A)
        BY <1>1, <1>9, <3>1, SalesType DEF PurchasesAreCounted
      <3>3. CASE j = i
        <4>1. Cardinality(A \cup {n}) = Cardinality(A) + 1
          BY <3>2, FS_AddElement
        <4> QED
          <5>1. SalesOf(j)' = A \cup {n}
            BY <1>9, <3>1, <3>3
          <5>2. item'[j].purchaseCnt = item[j].purchaseCnt + 1
            BY <1>10, <3>3
          <5> QED
            BY <3>2, <4>1, <5>1, <5>2
      <3>4. CASE j # i
        BY <1>9, <1>10, <3>1, <3>2, <3>4
      <3> QED
        BY <3>3, <3>4
    <2> QED
      BY <1>7, <2>1 DEF PurchasesAreCounted
  <1> QED
    BY <1>7, <1>11, <1>12, <1>13, <1>14, <1>15, <1>16, <1>17 DEF MarketInv, Base

\* A step that sells nothing keeps all of it.
LEMMA UnsoldKeepsAll ==
    ASSUME MarketInv, Unsold
    PROVE  MarketInv'
  <1>1. Base' /\ UNCHANGED <<balance, history, sales>>
    BY DEF Unsold, Base, money
  <1>2. PaidOK' /\ ProfitsAreWhole' /\ HistoryExplainsBalance'
    BY <1>1 DEF MarketInv, PaidOK, ProfitsAreWhole, HistoryExplainsBalance, SalesBy
  <1>3. CumulativeIsSum'
    BY <1>1 DEF MarketInv, CumulativeIsSum, SalesUpTo, SalesOf
  <1>4. PurchasesAreCounted'
    BY <1>1 DEF MarketInv, PurchasesAreCounted, SalesOf, Unsold
  <1> QED
    BY <1>1, <1>2, <1>3, <1>4 DEF MarketInv

\* A market opens without sales, with one holder of all shares of an item.
LEMMA MarketInit == Init => MarketInv
  <1> SUFFICES ASSUME Init PROVE MarketInv
    OBVIOUS
  <1>1. /\ ShareTotal \in Nat \ {0} /\ Owner \in [Items -> Users] /\ Opening \in Nat
        /\ MaxTrades \in Nat /\ MaxShows \in Nat
    BY MarketAssumption
  <1>2. \A i \in Items : /\ shares[i] \in Seq(ShareRow)
                         /\ OneRowEach(shares[i])
                         /\ shares[i] = <<>> \/ Volumes(shares[i]) = ShareTotal
    <2> TAKE i \in Items
    <2>1. CASE i \in Listed
      <3>1. PICK x \in ShareRow : x = [user |-> Owner[i], volume |-> ShareTotal]
        BY <1>1 DEF ShareRow
      <3>2. PICK rows : rows = <<x>>
        OBVIOUS
      <3>3. shares[i] = rows
        BY <2>1, <3>1, <3>2 DEF Init
      <3>4. DOMAIN rows = {1} /\ rows[1] = x /\ rows \in Seq(ShareRow)
        BY <3>2
      <3>5. Volumes(rows) = SumOver({1}, Held(rows)) /\ Held(rows)[1] = ShareTotal
        BY <3>1, <3>4 DEF Volumes, Held
      <3>6. SumOver({1}, Held(rows)) = ShareTotal
        BY <1>1, <3>5, SumSingle
      <3> QED
        BY <3>3, <3>4, <3>5, <3>6 DEF OneRowEach
    <2>2. CASE i \notin Listed
      <3>1. shares[i] = <<>> /\ DOMAIN <<>> = {}
        BY <2>2 DEF Init
      <3>2. shares[i] \in Seq(ShareRow)
        BY <3>1, EmptySeq
      <3> QED
        BY <3>1, <3>2 DEF OneRowEach
    <2> QED
      BY <2>1, <2>2
  <1>3. item \in [Items -> ItemRow] /\ \A i \in Items : item[i].purchaseCnt = 0
    BY DEF Init, ItemRow
  <1>4. sales = <<>> /\ DOMAIN sales = {} /\ sales \in Seq(SaleRow)
    BY EmptySeq DEF Init
  <1>5. req = [r \in Requests |-> Free] /\ req \in [Requests -> Calls]
    BY OtherCalls DEF Init
  <1>6. TypeOK
    <2>1. shares \in [Items -> Seq(ShareRow)]
      BY <1>2 DEF Init
    <2>2. \A i \in Items : \A j, k \in DOMAIN shares[i] :
             shares[i][j].user = shares[i][k].user => j = k
      BY <1>2 DEF OneRowEach
    <2>3. balance \in [Users -> Int] /\ history \in [Users -> Int]
      BY <1>1 DEF Init
    <2>4. likes \in [Items -> [Users -> Nat]] /\ cart \subseteq Users \X Items
          /\ overwritten \subseteq Items /\ budget \in [trades : Nat, shows : Nat]
      BY <1>1 DEF Init
    <2> QED
      BY <1>3, <1>4, <1>5, <2>1, <2>2, <2>3, <2>4 DEF TypeOK
  <1>7. SharesWhole
    BY <1>2 DEF SharesWhole
  <1>8. CallsOK
    BY <1>5, OtherCalls DEF CallsOK
  <1>9. PaidOK /\ ProfitsAreWhole /\ CumulativeIsSum
    BY <1>4 DEF PaidOK, ProfitsAreWhole, CumulativeIsSum
  <1>10. HistoryExplainsBalance
    <2>1. ASSUME NEW u \in Users
          PROVE  balance[u] = Opening + history[u] + SumOver(SalesBy(u), SaleDebt)
      <3>1. SalesBy(u) = {}
        BY <1>4 DEF SalesBy
      <3>2. SumOver(SalesBy(u), SaleDebt) = 0
        BY <3>1, SumEmpty
      <3>3. balance[u] = Opening /\ history[u] = 0
        BY DEF Init
      <3> QED
        BY <1>1, <3>2, <3>3
    <2> QED
      BY <2>1 DEF HistoryExplainsBalance, SaleDebt
  <1>11. PurchasesAreCounted
    <2>1. \A i : SalesOf(i) = {}
      BY <1>4 DEF SalesOf
    <2> QED
      BY <1>3, <2>1, FS_EmptySet DEF PurchasesAreCounted
  <1> QED
    BY <1>6, <1>7, <1>8, <1>9, <1>10, <1>11 DEF MarketInv, Base

\* Every step sells or does not.
LEMMA MarketNext == MarketInv /\ [Next]_vars => MarketInv'
  <1> SUFFICES ASSUME MarketInv, [Next]_vars PROVE MarketInv'
    OBVIOUS
  <1>1. Base /\ TypeOK /\ SharesWhole
    BY DEF MarketInv, Base
  <1>2. ASSUME NEW r \in Requests, PayOwner(r) \/ PayHolders(r)
        PROVE  MarketInv'
    <2>1. PICK paid \in Nat : Sells(r, paid)
      BY <1>1, <1>2, OwnerIsPaid, HoldersArePaid
    <2> QED
      BY <2>1, SaleKeepsAll
  <1>3. CASE Unsold
    BY <1>3, UnsoldKeepsAll
  <1>4. CASE UNCHANGED vars
    BY <1>1, <1>3, <1>4, Others
  <1>5. CASE Next
    <2>1. ASSUME NEW r \in Requests, NEW u \in Users, NEW i \in Items,
                 \/ StartPurchase(r, u, i) \/ StartLike(r, u, i) \/ StartUnlike(r, u, i)
                 \/ CreateCart(r, u, i) \/ DeleteCart(r, u, i)
          PROVE  Unsold
      BY <1>1, <2>1, BuyingStarts, LikesChange, CartChanges
    <2>2. ASSUME NEW r \in Requests, NEW u \in Users, NEW todo \in Batches, StartBatch(r, u, todo)
          PROVE  Unsold
      BY <1>1, <2>2, BuyingStarts
    <2>3. ASSUME NEW r \in Requests, NEW i \in Items, IncreaseViewCnt(r, i) \/ StartDelete(r, i)
          PROVE  Unsold
      BY <1>1, <2>3, CountsChange, Deletes
    <2>4. ASSUME NEW r \in Requests, NEW i \in Items, NEW price \in Prices, StartUpdate(r, i, price)
          PROVE  Unsold
      BY <1>1, <2>4, UpdateSaves
    <2>5. ASSUME NEW r \in Requests,
                 \/ Lookup(r) \/ BatchNext(r) \/ TransactionFails(r) \/ UncartPaid(r)
                 \/ Like(r) \/ Unlike(r) \/ IncreaseLikeCnt(r) \/ DecreaseLikeCnt(r)
                 \/ Save(r) \/ Unlist(r) \/ MarkDeleted(r)
          PROVE  Unsold
      BY <1>1, <2>5, BuyingGoesOn, BatchUncarts, LikesChange, CountsChange, UpdateSaves, Deletes
    <2>6. ASSUME NEW i \in Items, NEW seller \in Users, NEW buyer \in Users, Trade(i, seller, buyer)
          PROVE  Unsold
      BY <1>1, <2>6, SharesAreTraded
    <2>7. CASE (\E i \in Items : ShowOrHide(i)) \/ Crash
      BY <1>1, <1>3, <2>7, Others
    <2> QED
      BY <1>2, <1>3, <1>5, <2>1, <2>2, <2>3, <2>4, <2>5, <2>6, <2>7 DEF Next
  <1> QED
    BY <1>4, <1>5

\* Only a batch that has bought and the user itself take rows out of the cart.
LEMMA CartNext ==
    ASSUME MarketInv, [Next]_vars, NEW e \in cart \ cart'
    PROVE  \/ \E k \in SalesBy(e[1]) : sales[k].item = e[2]
           \/ \E r \in Requests : req[r] = Free /\ req'[r] = [step |-> "done", uncart |-> e]
  <1>1. TypeOK /\ CallsOK /\ req \in [Requests -> Calls]
    BY DEF MarketInv, Base, TypeOK
  <1>2. ASSUME NEW r \in Requests, UncartPaid(r)
        PROVE  \E k \in SalesBy(e[1]) : sales[k].item = e[2]
    <2>1. PICK q \in BuyCalls : q = req[r] /\ q.step = "uncart" /\ CallOK(q)
      BY <1>1, <1>2, CallTypes DEF UncartPaid, CallsOK
    <2>2. SoldTo(q.user, q.item)
      BY <2>1 DEF CallOK
    <2>3. e = <<q.user, q.item>>
      BY <1>2, <2>1 DEF UncartPaid
    <2>4. e[1] = q.user /\ e[2] = q.item
      BY <2>3
    <2> QED
      BY <2>2, <2>4 DEF SoldTo
  <1>3. ASSUME NEW r \in Requests, NEW u \in Users, NEW i \in Items, DeleteCart(r, u, i)
        PROVE  req[r] = Free /\ req'[r] = [step |-> "done", uncart |-> e]
    <2>1. e = <<u, i>>
      BY <1>3 DEF DeleteCart
    <2> QED
      BY <1>1, <1>3, <2>1 DEF DeleteCart, Becomes
  <1>4. ASSUME NEW r \in Requests, NEW u \in Users, NEW i \in Items, CreateCart(r, u, i)
        PROVE  FALSE
    BY <1>4 DEF CreateCart
  <1>5. ASSUME NEW r \in Requests,
               \/ \E u \in Users, i \in Items :
                    StartPurchase(r, u, i) \/ StartLike(r, u, i) \/ StartUnlike(r, u, i)
               \/ \E u \in Users, todo \in Batches : StartBatch(r, u, todo)
               \/ \E i \in Items : IncreaseViewCnt(r, i) \/ StartDelete(r, i)
               \/ \E i \in Items, price \in Prices : StartUpdate(r, i, price)
        PROVE  FALSE
    BY <1>5 DEF StartPurchase, StartLike, StartUnlike, StartBatch, IncreaseViewCnt, StartDelete,
                StartUpdate, tables
  <1>6. ASSUME NEW r \in Requests,
               \/ Lookup(r) \/ BatchNext(r) \/ TransactionFails(r)
               \/ Like(r) \/ Unlike(r) \/ IncreaseLikeCnt(r) \/ DecreaseLikeCnt(r)
               \/ Save(r) \/ Unlist(r) \/ MarkDeleted(r)
        PROVE  FALSE
    BY <1>6 DEF Lookup, BatchNext, TransactionFails, Like, Unlike, IncreaseLikeCnt, DecreaseLikeCnt,
                Count, Save, Unlist, MarkDeleted, tables
  <1>7. ASSUME NEW r \in Requests, PayOwner(r) \/ PayHolders(r)
        PROVE  FALSE
    BY <1>7 DEF PayOwner, PayHolders
  <1>8. ASSUME \/ \E i \in Items, seller, buyer \in Users : Trade(i, seller, buyer)
               \/ \E i \in Items : ShowOrHide(i)
               \/ Crash \/ UNCHANGED vars
        PROVE  FALSE
    BY <1>8 DEF Trade, ShowOrHide, Crash, tables, vars
  <1> QED
    BY <1>2, <1>3, <1>4, <1>5, <1>6, <1>7, <1>8 DEF Next

----------------------------------------------------------------------------
(* The theorems                                                             *)

\* The invariant of the market.
LEMMA MarketInvariant == Spec => []MarketInv
  BY MarketInit, MarketNext, PTL DEF Spec

\* Every table and every call has its type, and a user has one share account
\* of an item at most, however calls, trades and crashes interleave.
THEOREM MarketTypeCorrect == Spec => []TypeOK
  <1>1. MarketInv => TypeOK
    BY DEF MarketInv, Base
  <1> QED
    BY <1>1, MarketInvariant, PTL

\* A sale, shared or not, pays out all that remains after the fee: the parts
\* of the holders add up (MarketPaymentService.purchaseMarketItem).
THEOREM SharedProfitsAreWhole == Spec => []ProfitsAreWhole
  <1>1. MarketInv => ProfitsAreWhole
    BY DEF MarketInv
  <1> QED
    BY <1>1, MarketInvariant, PTL

\* The history of a user and its balance differ by what the user was recorded
\* for and never charged, and by nothing else.
THEOREM HistoryAlwaysExplains == Spec => []HistoryExplainsBalance
  <1>1. MarketInv => HistoryExplainsBalance
    BY DEF MarketInv
  <1> QED
    BY <1>1, MarketInvariant, PTL

\* The cumulative amount of a sale is the sum of the prices up to it, and an
\* item that no update overwrote has counted each of its sales once.
THEOREM CountersAlwaysAgree == Spec => []CountersAreSales
  <1>1. MarketInv => CountersAreSales
    BY DEF MarketInv, CountersAreSales
  <1> QED
    BY <1>1, MarketInvariant, PTL

\* A cart row goes only after its user has bought the item, or by its user.
THEOREM CartRowsLeaveWithSales == Spec => CartLeavesWithSale
  <1>1. MarketInv /\ [Next]_vars
          => [\A e \in cart \ cart' :
                \/ \E k \in SalesBy(e[1]) : sales[k].item = e[2]
                \/ \E r \in Requests : req[r] = Free
                                       /\ req'[r] = [step |-> "done", uncart |-> e]]_vars
    BY CartNext
  <1> QED
    BY <1>1, MarketInvariant, PTL DEF Spec, CartLeavesWithSale

-----------------------------------------------------------------------------
(***************************************************************************)
(* The workspace                                                           *)
(***************************************************************************)


(* Lists of keywords                                                        *)

\* What is taken from a list is what it has at those places.
LEMMA TakenIs ==
    ASSUME NEW s \in Seq(Keywords), NEW ids \in SUBSET DOMAIN s
    PROVE  /\ Taken(s, ids) \in Seq(Keywords)
           /\ ToSet(Taken(s, ids)) = {s[n] : n \in ids}
  <1> DEFINE k == Cardinality(ids)
             InOrder(f) == \A a, b \in 1 .. k : a < b => f[a] < f[b]
             order == CHOOSE f \in [1 .. k -> ids] : InOrder(f)
  <1>1. PICK n \in Nat : n = Len(s) /\ DOMAIN s = 1 .. n
    OBVIOUS
  <1>2. ids \in SUBSET (1 .. n)
    BY <1>1
  <1>3. k \in Nat /\ \E f \in [1 .. k -> ids] : InOrder(f)
    BY <1>2, ListedInOrder
  <1>4. order \in [1 .. k -> ids] /\ InOrder(order)
    BY <1>3
  <1>5. PICK f : f = order
    OBVIOUS
  <1>6. f \in [1 .. k -> ids] /\ \A a, b \in 1 .. k : a < b => f[a] < f[b]
    BY <1>4, <1>5
  <1>7. Taken(s, ids) = [m \in 1 .. k |-> s[f[m]]]
    BY <1>5 DEF Taken
  <1>8. \A i \in ids : \E a \in 1 .. k : f[a] = i
    BY <1>2, <1>6, EachIsListedOnce, ZenonT(60)
  <1>9. \A i \in ids : s[i] \in Keywords
    BY <1>1, <1>2
  <1> HIDE DEF k
  <1>10. Taken(s, ids) \in [1 .. k -> Keywords]
    BY <1>6, <1>7, <1>9
  <1>11. Taken(s, ids) \in Seq(Keywords)
    BY <1>3, <1>10, SeqDef
  <1>12. ToSet(Taken(s, ids)) = {s[m] : m \in ids}
    <2>1. PICK t : t = Taken(s, ids)
      OBVIOUS
    <2>2. DOMAIN t = 1 .. k /\ \A m \in 1 .. k : t[m] = s[f[m]]
      BY <1>7, <2>1
    <2>3. ToSet(t) = {s[m] : m \in ids}
      BY <1>6, <1>8, <2>2 DEF ToSet
    <2> QED
      BY <2>1, <2>3
  <1> QED
    BY <1>11, <1>12

\* A list without some keywords has the others.
LEMMA WithoutIs ==
    ASSUME NEW s \in Seq(Keywords), NEW K
    PROVE  /\ Without(s, K) \in Seq(Keywords)
           /\ ToSet(Without(s, K)) = ToSet(s) \ K
  <1> DEFINE ids == {n \in DOMAIN s : s[n] \notin K}
  <1>1. ids \in SUBSET DOMAIN s
    OBVIOUS
  <1>2. {s[n] : n \in ids} = ToSet(s) \ K
    BY DEF ToSet
  <1>3. Without(s, K) = Taken(s, ids)
    BY DEF Without
  <1> HIDE DEF ids
  <1> QED
    BY <1>1, <1>2, <1>3, TakenIs

\* A list in which each keyword is left once has the same keywords.
LEMMA OnceIs ==
    ASSUME NEW s \in Seq(Keywords)
    PROVE  Once(s) \in Seq(Keywords) /\ ToSet(Once(s)) = ToSet(s)
  <1> DEFINE ids == {n \in DOMAIN s : \A m \in 1 .. (n - 1) : s[m] # s[n]}
  <1>1. ids \in SUBSET DOMAIN s
    OBVIOUS
  <1>2. PICK l \in Nat : l = Len(s) /\ DOMAIN s = 1 .. l
    OBVIOUS
  <1>3. ASSUME NEW n \in DOMAIN s PROVE \E m \in ids : s[m] = s[n]
    <2> DEFINE same == {m \in 1 .. l : s[m] = s[n]}
    <2>1. same \in SUBSET Nat /\ n \in same
      BY <1>2
    <2> HIDE DEF same
    <2>2. PICK m \in same : \A j \in same : m <= j
      BY <2>1, LowestId
    <2>3. m \in 1 .. l /\ s[m] = s[n]
      BY <2>2 DEF same
    <2>4. ASSUME NEW j \in 1 .. (m - 1) PROVE s[j] # s[m]
      <3>1. j \in 1 .. l /\ j < m
        BY <1>2, <2>3
      <3> QED
        BY <2>2, <2>3, <3>1 DEF same
    <2> QED
      BY <1>2, <2>3, <2>4
  <1>4. {s[n] : n \in ids} = ToSet(s)
    BY <1>1, <1>3 DEF ToSet
  <1>5. Once(s) = Taken(s, ids)
    BY DEF Once
  <1> HIDE DEF ids
  <1> QED
    BY <1>1, <1>4, <1>5, TakenIs

\* A list after another has the keywords of both.
LEMMA BothHave ==
    ASSUME NEW s \in Seq(Keywords), NEW t \in Seq(Keywords)
    PROVE  s \o t \in Seq(Keywords) /\ ToSet(s \o t) = ToSet(s) \cup ToSet(t)
  <1>1. PICK m \in Nat, n \in Nat : m = Len(s) /\ n = Len(t)
    OBVIOUS
  <1>2. /\ s \o t \in Seq(Keywords) /\ Len(s \o t) = m + n
        /\ \A i \in 1 .. (m + n) : (s \o t)[i] = IF i <= m THEN s[i] ELSE t[i - m]
    BY <1>1
  <1>3. PICK c : c = s \o t
    OBVIOUS
  <1>4. DOMAIN c = 1 .. (m + n) /\ DOMAIN s = 1 .. m /\ DOMAIN t = 1 .. n
    BY <1>1, <1>2, <1>3
  <1>5. \A i \in 1 .. m : i \in 1 .. (m + n) /\ c[i] = s[i]
    BY <1>2, <1>3
  <1>6. \A i \in 1 .. n : m + i \in 1 .. (m + n) /\ c[m + i] = t[i]
    <2> TAKE i \in 1 .. n
    <2>1. m + i \in 1 .. (m + n) /\ ~(m + i <= m) /\ m + i - m = i
      OBVIOUS
    <2> QED
      BY <1>2, <1>3, <2>1
  <1>7. \A i \in 1 .. (m + n) : i \in 1 .. m \/ \E j \in 1 .. n : i = m + j
    <2> TAKE i \in 1 .. (m + n)
    <2>1. CASE i <= m
      BY <2>1
    <2>2. CASE ~(i <= m)
      <3>1. i - m \in 1 .. n /\ i = m + (i - m)
        BY <2>2
      <3> QED
        BY <3>1
    <2> QED
      BY <2>1, <2>2
  <1>8. ToSet(c) = ToSet(s) \cup ToSet(t)
    <2>1. \A x \in ToSet(c) : x \in ToSet(s) \cup ToSet(t)
      <3> TAKE x \in ToSet(c)
      <3>1. PICK i \in 1 .. (m + n) : x = c[i]
        BY <1>4 DEF ToSet
      <3>2. CASE i \in 1 .. m
        BY <1>4, <1>5, <3>1, <3>2 DEF ToSet
      <3>3. ASSUME NEW j \in 1 .. n, i = m + j PROVE x \in ToSet(t)
        BY <1>4, <1>6, <3>1, <3>3 DEF ToSet
      <3> QED
        BY <1>7, <3>2, <3>3
    <2>2. \A x \in ToSet(s) : x \in ToSet(c)
      BY <1>4, <1>5, Zenon DEF ToSet
    <2>3. \A x \in ToSet(t) : x \in ToSet(c)
      BY <1>4, <1>6, Zenon DEF ToSet
    <2> QED
      BY <2>1, <2>2, <2>3
  <1> QED
    BY <1>2, <1>3, <1>8

\* A keyword put at the end of a list is one more.
LEMMA OneMore ==
    ASSUME NEW s \in Seq(Keywords), NEW k \in Keywords
    PROVE  Append(s, k) \in Seq(Keywords) /\ ToSet(Append(s, k)) = ToSet(s) \cup {k}
  <1>1. PICK m \in Nat : m = Len(s) /\ DOMAIN s = 1 .. m
    OBVIOUS
  <1>2. PICK c : c = Append(s, k)
    OBVIOUS
  <1>3. /\ c \in Seq(Keywords) /\ DOMAIN c = 1 .. (m + 1)
        /\ \A i \in 1 .. m : c[i] = s[i]
        /\ c[m + 1] = k
    BY <1>1, <1>2
  <1>4. 1 .. (m + 1) = (1 .. m) \cup {m + 1}
    BY <1>1
  <1> QED
    BY <1>1, <1>2, <1>3, <1>4 DEF ToSet

\* What a list has is keywords.
LEMMA HasKeywords ==
    ASSUME NEW s \in Seq(Keywords)
    PROVE  ToSet(s) \in SUBSET Keywords
  BY DEF ToSet

-----------------------------------------------------------------------------
(* Renaming                                                                 *)

Pairs == [old : Keywords, new : Keywords]
Names(pairs) == {pairs[n].new : n \in DOMAIN pairs}
Renames(pairs, K) == {Renaming(pairs, k) : k \in K}
\* No keyword has two new names.
Apart(pairs) == \A m, n \in DOMAIN pairs : pairs[m].old = pairs[n].old => m = n

\* A keyword keeps its name or gets a new one.
LEMMA NewNameIs ==
    ASSUME NEW pairs \in Seq(Pairs), NEW k \in Keywords
    PROVE  /\ Renaming(pairs, k) \in Keywords
           /\ Renaming(pairs, k) = k \/ Renaming(pairs, k) \in Names(pairs)
           /\ (\A n \in DOMAIN pairs : pairs[n].old # k) => Renaming(pairs, k) = k
           /\ Apart(pairs) =>
                \A n \in DOMAIN pairs : pairs[n].old = k => Renaming(pairs, k) = pairs[n].new
  <1>1. \A n \in DOMAIN pairs : pairs[n] \in Pairs
    OBVIOUS
  <1>2. \A n \in DOMAIN pairs : pairs[n].new \in Keywords
    BY <1>1 DEF Pairs
  <1>3. CASE \E n \in DOMAIN pairs : pairs[n].old = k
    <2> DEFINE c == CHOOSE n \in DOMAIN pairs : pairs[n].old = k
    <2>1. c \in DOMAIN pairs /\ pairs[c].old = k
      BY <1>3
    <2>2. Renaming(pairs, k) = pairs[c].new
      BY <1>3 DEF Renaming
    <2> HIDE DEF c
    <2> QED
      BY <1>2, <1>3, <2>1, <2>2 DEF Names, Apart
  <1>4. CASE ~\E n \in DOMAIN pairs : pairs[n].old = k
    BY <1>4 DEF Renaming
  <1> QED
    BY <1>3, <1>4

\* A keyword that no pair is about keeps its name; another gets the new name of
\* its pair.
Spares(pairs, k) == \A n \in DOMAIN pairs : pairs[n].old # k
LEMMA KeepsItsName ==
    ASSUME NEW pairs \in Seq(Pairs), NEW k \in Keywords, Spares(pairs, k)
    PROVE  Renaming(pairs, k) = k
  BY NewNameIs DEF Spares

\* A keyword gets the new name of its pair.
LEMMA GetsItsName ==
    ASSUME NEW pairs \in Seq(Pairs), Apart(pairs), NEW n \in DOMAIN pairs
    PROVE  Renaming(pairs, pairs[n].old) = pairs[n].new
  <1>1. pairs[n] \in Pairs
    OBVIOUS
  <1>2. pairs[n].old \in Keywords
    BY <1>1 DEF Pairs
  <1> QED
    BY <1>2, NewNameIs

\* A list whose keywords are renamed has the new names.
LEMMA RenamedIs ==
    ASSUME NEW s \in Seq(Keywords), NEW pairs \in Seq(Pairs)
    PROVE  /\ Renamed(s, pairs) \in Seq(Keywords)
           /\ ToSet(Renamed(s, pairs)) = Renames(pairs, ToSet(s))
  <1>1. PICK m \in Nat : m = Len(s) /\ DOMAIN s = 1 .. m /\ \A n \in 1 .. m : s[n] \in Keywords
    OBVIOUS
  <1>2. PICK c : c = Renamed(s, pairs)
    OBVIOUS
  <1>3. DOMAIN c = 1 .. m /\ \A n \in 1 .. m : c[n] = Renaming(pairs, s[n])
    BY <1>1, <1>2 DEF Renamed
  <1>4. c \in [1 .. m -> Keywords]
    <2>1. \A n \in 1 .. m : c[n] \in Keywords
      BY <1>1, <1>3, NewNameIs
    <2>2. c = [n \in 1 .. m |-> Renaming(pairs, s[n])]
      BY <1>1, <1>2 DEF Renamed
    <2> QED
      BY <1>3, <2>1, <2>2
  <1>5. c \in Seq(Keywords)
    BY <1>1, <1>4, SeqDef
  <1>6. ToSet(c) = Renames(pairs, ToSet(s))
    <2>1. \A x \in ToSet(c) : x \in Renames(pairs, ToSet(s))
      <3> TAKE x \in ToSet(c)
      <3>1. PICK i \in 1 .. m : x = c[i]
        BY <1>3 DEF ToSet
      <3>2. s[i] \in ToSet(s) /\ x = Renaming(pairs, s[i])
        BY <1>1, <1>3, <3>1 DEF ToSet
      <3> QED
        BY <3>2 DEF Renames
    <2>2. \A x \in Renames(pairs, ToSet(s)) : x \in ToSet(c)
      <3> TAKE x \in Renames(pairs, ToSet(s))
      <3>1. PICK k \in ToSet(s) : x = Renaming(pairs, k)
        BY DEF Renames
      <3>2. PICK i \in 1 .. m : k = s[i]
        BY <1>1 DEF ToSet
      <3>3. x = c[i] /\ i \in DOMAIN c
        BY <1>3, <3>1, <3>2
      <3> QED
        BY <3>3 DEF ToSet
    <2> QED
      BY <2>1, <2>2
  <1> QED
    BY <1>2, <1>5, <1>6

\* The places of a sequence are its first and those of its tail, one further.
LEMMA OneFurther ==
    ASSUME NEW n \in Nat
    PROVE  /\ \A i \in 1 .. n : i + 1 \in 1 .. (n + 1) /\ 1 < i + 1 /\ i + 1 # 1
           /\ \A i, j \in 1 .. n : (i < j => i + 1 < j + 1) /\ (i + 1 = j + 1 => i = j)
           /\ 1 \in 1 .. (n + 1)
           /\ \A i \in 1 .. (n + 1) : i = 1 \/ \E j \in 1 .. n : i = j + 1
  <1>1. \A i \in 1 .. (n + 1) : i = 1 \/ (i - 1 \in 1 .. n /\ i = (i - 1) + 1)
    OBVIOUS
  <1>2. \A i \in 1 .. (n + 1) : i = 1 \/ \E j \in 1 .. n : i = j + 1
    BY <1>1
  <1>3. \A i \in 1 .. n : i + 1 \in 1 .. (n + 1) /\ 1 < i + 1 /\ i + 1 # 1
    OBVIOUS
  <1>4. \A i, j \in 1 .. n : (i < j => i + 1 < j + 1) /\ (i + 1 = j + 1 => i = j)
    OBVIOUS
  <1> QED
    BY <1>2, <1>3, <1>4

\* Taking the pairs one after the other is taking them at once, when no keyword
\* gets two new names and none is another's new name before its turn.
LEMMA InTurn ==
    ASSUME NEW pairs \in Seq(Pairs), pairs # <<>>, Apart(pairs), ~Chained(pairs)
    PROVE  /\ Tail(pairs) \in Seq(Pairs) /\ Head(pairs) \in Pairs
           /\ Apart(Tail(pairs)) /\ ~Chained(Tail(pairs))
           /\ \A k \in Keywords :
                Renaming(Tail(pairs), Renaming(<<Head(pairs)>>, k)) = Renaming(pairs, k)
  <1>1. PICK n \in Nat : n = Len(pairs) - 1 /\ Len(pairs) = n + 1 /\ DOMAIN pairs = 1 .. (n + 1)
    <2>1. Len(pairs) \in Nat /\ Len(pairs) # 0 /\ DOMAIN pairs = 1 .. Len(pairs)
      BY EmptySeq
    <2>2. \A l \in Nat : l # 0 => l - 1 \in Nat /\ l = (l - 1) + 1
      OBVIOUS
    <2>3. PICK l \in Nat : l = Len(pairs) /\ l - 1 \in Nat /\ l = (l - 1) + 1
      BY <2>1, <2>2
    <2> QED
      BY <2>1, <2>3
  <1>2. PICK t : t = Tail(pairs)
    OBVIOUS
  <1>3. PICK h : h = Head(pairs)
    OBVIOUS
  <1>4. /\ t \in Seq(Pairs) /\ DOMAIN t = 1 .. n
        /\ \A i \in 1 .. n : t[i] = pairs[i + 1]
        /\ h = pairs[1] /\ h \in Pairs
    BY <1>1, <1>2, <1>3
  <1>5. /\ \A i \in 1 .. n : i + 1 \in 1 .. (n + 1) /\ 1 < i + 1 /\ i + 1 # 1
        /\ \A i, j \in 1 .. n : (i < j => i + 1 < j + 1) /\ (i + 1 = j + 1 => i = j)
        /\ 1 \in 1 .. (n + 1)
        /\ \A i \in 1 .. (n + 1) : i = 1 \/ \E j \in 1 .. n : i = j + 1
    BY OneFurther, Zenon
  <1>6. Apart(t)
    <2> SUFFICES ASSUME NEW a \in 1 .. n, NEW b \in 1 .. n, t[a].old = t[b].old
                 PROVE  a = b
      BY <1>4 DEF Apart
    <2>1. /\ a + 1 \in DOMAIN pairs /\ b + 1 \in DOMAIN pairs
          /\ t[a] = pairs[a + 1] /\ t[b] = pairs[b + 1] /\ (a + 1 = b + 1 => a = b)
      BY <1>1, <1>4, <1>5, Zenon
    <2> QED
      BY <2>1 DEF Apart
  <1>7. ~Chained(t)
    <2>1. \A a, b \in 1 .. (n + 1) : a < b => pairs[a].new # pairs[b].old
      BY <1>1 DEF Chained
    <2> SUFFICES ASSUME NEW a \in 1 .. n, NEW b \in 1 .. n, a < b
                 PROVE  t[a].new # t[b].old
      BY <1>4 DEF Chained
    <2>2. /\ a + 1 \in 1 .. (n + 1) /\ b + 1 \in 1 .. (n + 1) /\ a + 1 < b + 1
          /\ t[a] = pairs[a + 1] /\ t[b] = pairs[b + 1]
      BY <1>4, <1>5
    <2> QED
      BY <2>1, <2>2
  <1>8. PICK one : one = <<h>>
    OBVIOUS
  <1>9. one \in Seq(Pairs) /\ Apart(one) /\ DOMAIN one = 1 .. 1 /\ 1 \in DOMAIN one /\ one[1] = h
    BY <1>4, <1>8 DEF Apart
  <1>10. ASSUME NEW k \in Keywords
         PROVE  Renaming(t, Renaming(one, k)) = Renaming(pairs, k)
    <2>1. CASE k = h.old
      <3>1. Renaming(one, k) = h.new
        BY <1>9, <2>1, GetsItsName
      <3>2. Renaming(pairs, k) = h.new
        BY <1>1, <1>4, <1>5, <2>1, GetsItsName
      <3>3. Spares(t, h.new)
        <4> SUFFICES ASSUME NEW i \in 1 .. n PROVE t[i].old # h.new
          BY <1>4 DEF Spares
        <4>1. i + 1 \in DOMAIN pairs /\ 1 \in DOMAIN pairs /\ 1 < i + 1 /\ pairs[i + 1] = t[i]
          BY <1>1, <1>4, <1>5
        <4> QED
          BY <1>4, <4>1 DEF Chained
      <3>4. h.new \in Keywords
        BY <1>4 DEF Pairs
      <3>5. Renaming(t, h.new) = h.new
        BY <1>4, <3>3, <3>4, KeepsItsName
      <3> QED
        BY <3>1, <3>2, <3>5
    <2>2. CASE k # h.old
      <3>1. Renaming(one, k) = k
        <4>1. Spares(one, k)
          BY <1>9, <2>2 DEF Spares
        <4> QED
          BY <1>9, <4>1, KeepsItsName
      <3>2. CASE \E i \in 1 .. n : t[i].old = k
        <4>1. PICK i \in 1 .. n : t[i].old = k
          BY <3>2
        <4>2. i + 1 \in DOMAIN pairs /\ pairs[i + 1] = t[i] /\ i \in DOMAIN t
          BY <1>1, <1>4, <1>5
        <4>3. Renaming(t, k) = t[i].new
          BY <1>4, <1>6, <4>1, <4>2, GetsItsName
        <4>4. Renaming(pairs, k) = t[i].new
          BY <4>1, <4>2, GetsItsName
        <4> QED
          BY <3>1, <4>3, <4>4
      <3>3. CASE ~\E i \in 1 .. n : t[i].old = k
        <4>1. Spares(t, k)
          BY <1>4, <3>3 DEF Spares
        <4>2. Spares(pairs, k)
          <5> SUFFICES ASSUME NEW i \in 1 .. (n + 1) PROVE pairs[i].old # k
            BY <1>1 DEF Spares
          <5>1. CASE i = 1
            BY <1>4, <2>2, <5>1
          <5>2. ASSUME NEW j \in 1 .. n, i = j + 1 PROVE pairs[i].old # k
            BY <1>4, <3>3, <5>2
          <5> QED
            BY <1>5, <5>1, <5>2
        <4>3. Renaming(pairs, k) = k
          BY <4>2, KeepsItsName
        <4>4. Renaming(t, k) = k
          BY <1>4, <4>1, KeepsItsName
        <4> QED
          BY <3>1, <4>3, <4>4
      <3> QED
        BY <3>2, <3>3
    <2> QED
      BY <2>1, <2>2
  <1> QED
    BY <1>2, <1>3, <1>4, <1>6, <1>7, <1>8, <1>10


\* And so for some keywords.
LEMMA EachInTurn ==
    ASSUME NEW pairs \in Seq(Pairs), pairs # <<>>, Apart(pairs), ~Chained(pairs),
           NEW K \in SUBSET Keywords
    PROVE  Renames(Tail(pairs), Renames(<<Head(pairs)>>, K)) = Renames(pairs, K)
  <1>1. \A k \in Keywords : Renaming(Tail(pairs), Renaming(<<Head(pairs)>>, k)) = Renaming(pairs, k)
    BY InTurn
  <1> QED
    BY <1>1 DEF Renames

\* Without pairs nothing is renamed.
LEMMA NothingRenamed ==
    ASSUME NEW K \in SUBSET Keywords
    PROVE  Renames(<<>>, K) = K
  <1>1. ASSUME NEW k \in K PROVE Renaming(<<>>, k) = k
    BY DEF Renaming
  <1> QED
    BY <1>1 DEF Renames

\* What is sent has the keywords that stay, by their new names, and the added.
LEMMA SentIs ==
    ASSUME keywords \in Seq(Keywords), NEW e \in Edits
    PROVE  /\ Final(e) \in Seq(Keywords)
           /\ ToSet(Final(e)) = Renames(e.renamed, ToSet(keywords) \ ToSet(e.deleted))
                                    \cup ToSet(e.added)
  <1>1. e.renamed \in Seq(Pairs) /\ e.added \in Seq(Keywords)
    BY EditsAssumption DEF Pairs
  <1>2. PICK w : w = Without(keywords, ToSet(e.deleted))
    OBVIOUS
  <1>3. w \in Seq(Keywords) /\ ToSet(w) = ToSet(keywords) \ ToSet(e.deleted)
    BY <1>2, WithoutIs
  <1>4. PICK n : n = Renamed(w, e.renamed)
    OBVIOUS
  <1>5. n \in Seq(Keywords) /\ ToSet(n) = Renames(e.renamed, ToSet(w))
    BY <1>1, <1>3, <1>4, RenamedIs
  <1>6. n \o e.added \in Seq(Keywords) /\ ToSet(n \o e.added) = ToSet(n) \cup ToSet(e.added)
    BY <1>1, <1>5, BothHave
  <1>7. PICK s : s = n \o e.added
    OBVIOUS
  <1>8. Once(s) \in Seq(Keywords) /\ ToSet(Once(s)) = ToSet(s)
    BY <1>6, <1>7, OnceIs
  <1>9. Final(e) = IF Verified THEN Once(s) ELSE s
    BY <1>2, <1>4, <1>7 DEF Final
  <1> QED
    BY <1>3, <1>5, <1>6, <1>7, <1>8, <1>9

\* Each new name is sent, when the keywords it is given to are on the list.
LEMMA NewNamesAreSent ==
    ASSUME keywords \in Seq(Keywords), NEW e \in Edits,
           \A n \in DOMAIN e.renamed : e.renamed[n].old \in ToSet(keywords)
    PROVE  Names(e.renamed) \in SUBSET ToSet(Final(e))
  <1>1. e.renamed \in Seq(Pairs) /\ Apart(e.renamed)
    BY EditsAssumption DEF Pairs, Apart
  <1>2. ASSUME NEW n \in DOMAIN e.renamed PROVE e.renamed[n].new \in ToSet(Final(e))
    <2>1. PICK m \in DOMAIN e.renamed : /\ e.renamed[m].new = e.renamed[n].new
                                        /\ e.renamed[m].old \notin ToSet(e.deleted)
      BY EditsAssumption
    <2>2. Renaming(e.renamed, e.renamed[m].old) = e.renamed[m].new
      BY <1>1, GetsItsName
    <2>3. e.renamed[m].old \in ToSet(keywords) \ ToSet(e.deleted)
      BY <2>1
    <2>4. e.renamed[n].new \in Renames(e.renamed, ToSet(keywords) \ ToSet(e.deleted))
      BY <2>1, <2>2, <2>3 DEF Renames
    <2> QED
      BY <2>4, SentIs
  <1> QED
    BY <1>2 DEF Names


-----------------------------------------------------------------------------
(* The invariant                                                            *)

SomeRows == UNION {[D -> Seq(Keywords)] : D \in SUBSET Videos}
EditJobs ==
    [op : {"edit"}, phase : {"save", "find", "write"}, final : Seq(Keywords),
     deleted : SUBSET Keywords, left : Seq(Keywords), renamed : Seq(Pairs), rows : SomeRows]
MoveJobs ==
    [op : {"move"}, phase : {"find", "write", "done"}, keyword : Keywords,
     videos : SUBSET Videos, left : {<<>>}, renamed : {<<>>}, rows : SomeRows]
\* Rows are there only while they are written.
JobOK(j) == j \in EditJobs \cup MoveJobs /\ (j.phase # "write" => DOMAIN j.rows = {})

Workspaces == [keywords : SUBSET Keywords, tags : [Videos -> SUBSET Keywords]]
RequestsOK == request \in [Tabs -> {Idle} \cup EditJobs \cup MoveJobs]
WorkspaceTyped ==
    /\ keywords \in Seq(Keywords) /\ tags \in [Videos -> Seq(Keywords)]
    /\ RequestsOK /\ \A r \in Tabs : request[r] # Idle => JobOK(request[r])
    /\ asked \in Workspaces /\ blurred \in SUBSET {"overlap", "chain", "cut", "crash"}

\* What a request may still write on videos was on the list, or will be before.
JobListed(j, L) ==
    /\ \A v \in DOMAIN j.rows : ToSet(j.rows[v]) \subseteq L
    /\ j.op = "edit" => /\ Names(j.renamed) \subseteq ToSet(j.final)
                        /\ j.phase # "save" => ToSet(j.final) \subseteq L
    /\ j.op = "move" => j.keyword \in L
TagsInv ==
    /\ ToSet(keywords) \subseteq listed
    /\ \A v \in Videos : ToSet(tags[v]) \subseteq listed
    /\ \A r \in Tabs : request[r] # Idle => JobListed(request[r], listed)

\* A video as it is once the rows at hand are written, and what is left to do
\* until list and videos are what was asked for.
Now(j, T, v) == IF v \in DOMAIN j.rows THEN j.rows[v] ELSE T[v]
Gone(j) == IF j.left = <<>> THEN {} ELSE j.deleted
EditDue(j, a, K, T) ==
    /\ a.keywords = IF j.phase = "save" THEN ToSet(j.final) ELSE ToSet(K)
    /\ \A v \in Videos : a.tags[v] = Renames(j.renamed, ToSet(Now(j, T, v)) \ Gone(j))
    /\ j.left # <<>> =>
          \A v \in Videos : ToSet(Now(j, T, v)) \cap j.deleted \subseteq ToSet(j.left)
    /\ Apart(j.renamed) /\ ~Chained(j.renamed)
MoveDue(j, a, K, T) ==
    /\ a.keywords = ToSet(K)
    /\ \A v \in Videos :
          a.tags[v] = IF j.phase = "find" /\ v \in j.videos THEN ToSet(T[v]) \cup {j.keyword}
                      ELSE ToSet(Now(j, T, v))
Due(j, a, K, T) ==
    /\ j.op = "edit" => EditDue(j, a, K, T)
    /\ j.op = "move" => MoveDue(j, a, K, T)
AsAsked(a, K, T) == a.keywords = ToSet(K) /\ \A v \in Videos : a.tags[v] = ToSet(T[v])
OthersIdle(r) == \A q \in Tabs : q # r => request[q] = Idle
AskedInv ==
    blurred = {} =>
        /\ \A r \in Tabs : request[r] # Idle => /\ OthersIdle(r)
                                                /\ Due(request[r], asked, keywords, tags)
        /\ Quiet => AsAsked(asked, keywords, tags)

WorkspaceInv == WorkspaceTyped /\ TagsInv /\ AskedInv

\* What a step of one request must do to keep the invariant.
StepTyped(r, j) ==
    /\ request' = [request EXCEPT ![r] = j] /\ (j = Idle \/ JobOK(j))
    /\ keywords' \in Seq(Keywords) /\ tags' \in [Videos -> Seq(Keywords)]
    /\ asked' \in Workspaces /\ blurred' \in SUBSET {"overlap", "chain", "cut", "crash"}
StepListed(j) ==
    /\ listed \subseteq listed' /\ ToSet(keywords') \subseteq listed'
    /\ \A v \in Videos : ToSet(tags'[v]) \subseteq listed'
    /\ j # Idle => JobListed(j, listed')
StepAsked(r, j) ==
    /\ blurred \subseteq blurred'
    /\ blurred' = {} =>
          /\ request[r] # Idle \/ OthersIdle(r)
          /\ j = Idle => AsAsked(asked', keywords', tags')
          /\ j # Idle => Due(j, asked', keywords', tags')

LEMMA ListedLonger ==
    ASSUME NEW j, NEW L, NEW M, L \subseteq M, JobListed(j, L)
    PROVE  JobListed(j, M)
  BY DEF JobListed

LEMMA StepsKeep ==
    ASSUME WorkspaceInv, NEW r \in Tabs, NEW j, StepTyped(r, j), StepListed(j), StepAsked(r, j)
    PROVE  WorkspaceInv'
  <1>1. WorkspaceTyped /\ TagsInv /\ AskedInv
    BY DEF WorkspaceInv
  <1>2. /\ request'[r] = j /\ \A q \in Tabs : q # r => request'[q] = request[q]
        /\ RequestsOK'
    BY <1>1 DEF WorkspaceTyped, RequestsOK, StepTyped, JobOK
  <1>3. WorkspaceTyped'
    <2>1. ASSUME NEW q \in Tabs, request'[q] # Idle PROVE JobOK(request'[q])
      BY <1>1, <1>2, <2>1 DEF WorkspaceTyped, StepTyped
    <2>2. \A q \in Tabs : (request[q] # Idle => JobOK(request[q]))'
      BY <2>1
    <2> QED
      BY <1>2, <2>2 DEF WorkspaceTyped, StepTyped
  <1>4. TagsInv'
    <2>1. ASSUME NEW q \in Tabs, request'[q] # Idle PROVE JobListed(request'[q], listed')
      <3>1. CASE q = r
        BY <1>2, <2>1, <3>1 DEF StepListed
      <3>2. CASE q # r
        BY <1>1, <1>2, <2>1, <3>2, ListedLonger DEF TagsInv, StepListed
      <3> QED
        BY <3>1, <3>2
    <2> QED
      BY <2>1 DEF TagsInv, StepListed
  <1>5. AskedInv'
    <2> SUFFICES ASSUME blurred' = {} PROVE AskedInv'
      BY DEF AskedInv
    <2>1. blurred = {}
      BY DEF StepAsked
    <2>2. OthersIdle(r)
      BY <1>1, <2>1 DEF StepAsked, AskedInv
    <2>3. \A q \in Tabs : q # r => request'[q] = Idle
      BY <1>2, <2>2 DEF OthersIdle
    <2>4. ASSUME NEW q \in Tabs, request'[q] # Idle
          PROVE  /\ \A p \in Tabs : p # q => request'[p] = Idle
                 /\ Due(request'[q], asked', keywords', tags')
      BY <1>2, <2>3, <2>4 DEF StepAsked
    <2>5. ASSUME \A q \in Tabs : request'[q] = Idle PROVE AsAsked(asked', keywords', tags')
      BY <1>2, <2>5 DEF StepAsked
    <2>6. \A q \in Tabs : request'[q] # Idle => OthersIdle(q)'
      BY <2>4 DEF OthersIdle
    <2>7. \A q \in Tabs : request'[q] # Idle => Due(request'[q], asked', keywords', tags')
      BY <2>4
    <2>8. Quiet' => AsAsked(asked', keywords', tags')
      BY <2>5 DEF Quiet
    <2> QED
      BY <2>6, <2>7, <2>8 DEF AskedInv
  <1> QED
    BY <1>3, <1>4, <1>5 DEF WorkspaceInv


\* A request at work edits or moves.
LEMMA KindsOfJobs ==
    ASSUME WorkspaceTyped, NEW r \in Tabs, request[r].op # "idle"
    PROVE  /\ request[r] # Idle /\ JobOK(request[r])
           /\ request[r].op = "edit" => request[r] \in EditJobs
           /\ request[r].op = "move" => request[r] \in MoveJobs
           /\ request[r].op \in {"edit", "move"}
  <1>1. request[r] # Idle
    BY DEF Idle
  <1>2. JobOK(request[r])
    BY <1>1 DEF WorkspaceTyped
  <1> QED
    BY <1>1, <1>2 DEF JobOK, EditJobs, MoveJobs

\* A job is no idle tab.
LEMMA JobsAreBusy ==
    ASSUME NEW j, JobOK(j)
    PROVE  j # Idle /\ j.op # "idle"
  BY DEF JobOK, EditJobs, MoveJobs, Idle

\* No rows yet.
LEMMA NoRowsYet == NoRows \in SomeRows /\ DOMAIN NoRows = {}
  <1>1. NoRows \in [{} -> Seq(Keywords)] /\ {} \in SUBSET Videos
    BY DEF NoRows
  <1>2. DOMAIN NoRows = {}
    BY DEF NoRows
  <1> QED
    BY <1>1, <1>2 DEF SomeRows

\* Rows are lists of keywords of videos.
LEMMA RowsAre ==
    ASSUME NEW rows \in SomeRows
    PROVE  /\ DOMAIN rows \in SUBSET Videos
           /\ \A v \in DOMAIN rows : rows[v] \in Seq(Keywords)
  BY DEF SomeRows

LEMMA SaveKeeps ==
    ASSUME WorkspaceInv, NEW r \in Tabs, SaveKeywords(r)
    PROVE  WorkspaceInv'
  <1> DEFINE j == [request[r] EXCEPT !.phase = "find"]
  <1>1. WorkspaceTyped /\ TagsInv /\ AskedInv
    BY DEF WorkspaceInv
  <1>2. /\ request[r].op = "edit" /\ request[r].phase = "save"
        /\ keywords' = request[r].final /\ listed' = listed \cup ToSet(request[r].final)
        /\ request' = [request EXCEPT ![r].phase = "find"]
        /\ UNCHANGED <<tags, asked, blurred>>
    BY DEF SaveKeywords
  <1>3. request[r] \in EditJobs /\ request[r] # Idle /\ DOMAIN request[r].rows = {}
    BY <1>1, <1>2, KindsOfJobs DEF JobOK
  <1>4. /\ j \in EditJobs /\ j.op = "edit" /\ j.phase = "find" /\ j.final = request[r].final
        /\ j.deleted = request[r].deleted /\ j.left = request[r].left
        /\ j.renamed = request[r].renamed /\ j.rows = request[r].rows
    BY <1>3 DEF EditJobs
  <1>5. request' = [request EXCEPT ![r] = j]
    BY <1>1, <1>2 DEF WorkspaceTyped, RequestsOK
  <1>6. request[r].final \in Seq(Keywords)
    BY <1>3 DEF EditJobs
  <1>7. /\ JobListed(request[r], listed)
        /\ blurred = {} => EditDue(request[r], asked, keywords, tags)
    BY <1>1, <1>2, <1>3 DEF TagsInv, AskedInv, Due
  <1> HIDE DEF j
  <1>8. StepTyped(r, j)
    BY <1>1, <1>2, <1>3, <1>4, <1>5, <1>6 DEF WorkspaceTyped, StepTyped, JobOK
  <1>9. StepListed(j)
    BY <1>1, <1>2, <1>3, <1>4, <1>7 DEF TagsInv, StepListed, JobListed
  <1>10. StepAsked(r, j)
    <2>1. ASSUME blurred = {} PROVE EditDue(j, asked', keywords', tags')
      <3>1. \A v \in Videos : Now(j, tags', v) = Now(request[r], tags, v)
        BY <1>2, <1>4 DEF Now
      <3>2. Gone(j) = Gone(request[r])
        BY <1>4 DEF Gone
      <3> QED
        BY <1>2, <1>4, <1>7, <2>1, <3>1, <3>2 DEF EditDue
    <2>2. j # Idle
      BY <1>4 DEF Idle
    <2> QED
      BY <1>2, <1>3, <1>4, <2>1, <2>2 DEF StepAsked, Due
  <1> QED
    BY <1>8, <1>9, <1>10, StepsKeep


\* A sequence that is not empty has a first element.
LEMMA HasAFirst ==
    ASSUME NEW S, NEW s \in Seq(S), s # <<>>
    PROVE  1 \in DOMAIN s
  <1>1. PICK l \in Nat \ {0} : l = Len(s)
    BY EmptySeq
  <1>2. DOMAIN s = 1 .. l
    BY <1>1
  <1>3. 1 \in 1 .. l
    OBVIOUS
  <1> QED
    BY <1>2, <1>3

\* What is left of a list of keywords after its first.
LEMMA LeftAfter ==
    ASSUME NEW s \in Seq(Keywords), s # <<>>, NEW rows,
           ~(DOMAIN rows = {} /\ Len(s) > 1)
    PROVE  /\ Rest(s, rows) \in Seq(Keywords) /\ Head(s) \in Keywords
           /\ ToSet(s) = {Head(s)} \cup ToSet(Rest(s, rows))
  <1>1. PICK n \in Nat : Len(s) = n + 1 /\ DOMAIN s = 1 .. (n + 1)
    <2>1. Len(s) \in Nat /\ Len(s) # 0 /\ DOMAIN s = 1 .. Len(s)
      BY EmptySeq
    <2>2. \A l \in Nat : l # 0 => l - 1 \in Nat /\ l = (l - 1) + 1
      OBVIOUS
    <2>3. PICK l \in Nat : l = Len(s) /\ l - 1 \in Nat /\ l = (l - 1) + 1
      BY <2>1, <2>2
    <2> QED
      BY <2>1, <2>3
  <1>2. PICK t : t = Tail(s)
    OBVIOUS
  <1>3. PICK h : h = Head(s)
    OBVIOUS
  <1>4. /\ t \in Seq(Keywords) /\ DOMAIN t = 1 .. n /\ \A i \in 1 .. n : t[i] = s[i + 1]
        /\ h = s[1] /\ h \in Keywords
    BY <1>1, <1>2, <1>3
  <1>5. /\ \A i \in 1 .. n : i + 1 \in 1 .. (n + 1)
        /\ 1 \in 1 .. (n + 1)
        /\ \A i \in 1 .. (n + 1) : i = 1 \/ \E j \in 1 .. n : i = j + 1
    <2>1. \A i \in 1 .. (n + 1) : i = 1 \/ (i - 1 \in 1 .. n /\ i = (i - 1) + 1)
      OBVIOUS
    <2>2. \A i \in 1 .. (n + 1) : i = 1 \/ \E j \in 1 .. n : i = j + 1
      BY <2>1
    <2> QED
      BY <2>2
  <1>6. ToSet(s) = {h} \cup ToSet(t)
    <2>1. \A x \in ToSet(s) : x \in {h} \cup ToSet(t)
      <3> TAKE x \in ToSet(s)
      <3>1. PICK i \in 1 .. (n + 1) : x = s[i]
        BY <1>1 DEF ToSet
      <3>2. CASE i = 1
        BY <1>4, <3>1, <3>2
      <3>3. ASSUME NEW k \in 1 .. n, i = k + 1 PROVE x \in ToSet(t)
        BY <1>4, <3>1, <3>3 DEF ToSet
      <3> QED
        BY <1>5, <3>2, <3>3
    <2>2. \A x \in {h} \cup ToSet(t) : x \in ToSet(s)
      <3>1. h \in ToSet(s)
        BY <1>1, <1>4, <1>5 DEF ToSet
      <3>2. ASSUME NEW x \in ToSet(t) PROVE x \in ToSet(s)
        <4>1. PICK i \in 1 .. n : x = t[i]
          BY <1>4 DEF ToSet
        <4>2. i + 1 \in DOMAIN s /\ x = s[i + 1]
          BY <1>1, <1>4, <1>5, <4>1
        <4> QED
          BY <4>2 DEF ToSet
      <3> QED
        BY <3>1, <3>2
    <2> QED
      BY <2>1, <2>2
  <1>7. CASE DOMAIN rows = {}
    <2>1. n = 0
      BY <1>1, <1>7
    <2>2. Rest(s, rows) = <<>> /\ ToSet(<<>>) = {}
      BY <1>7 DEF Rest, ToSet
    <2>3. ToSet(t) = {}
      BY <1>4, <2>1 DEF ToSet
    <2> QED
      BY <1>3, <1>4, <1>6, <2>2, <2>3
  <1>8. CASE DOMAIN rows # {}
    <2>1. Rest(s, rows) = t
      BY <1>2, <1>8 DEF Rest
    <2> QED
      BY <1>3, <1>4, <1>6, <2>1
  <1> QED
    BY <1>7, <1>8

\* And in any case it is a list.
LEMMA RestIs ==
    ASSUME NEW S, NEW s \in Seq(S), s # <<>>, NEW rows
    PROVE  /\ Rest(s, rows) \in Seq(S)
           /\ \A n \in DOMAIN Rest(s, rows) :
                 \E m \in DOMAIN s : Rest(s, rows)[n] = s[m]
  <1>1. CASE DOMAIN rows = {}
    BY <1>1 DEF Rest
  <1>2. CASE DOMAIN rows # {}
    <2>1. PICK t : t = Tail(s)
      OBVIOUS
    <2>2. PICK l \in Nat : l = Len(s) /\ l # 0
      BY EmptySeq
    <2>3. /\ t \in Seq(S) /\ DOMAIN t = 1 .. (l - 1)
          /\ \A n \in 1 .. (l - 1) : t[n] = s[n + 1]
      BY <2>1, <2>2
    <2>4. \A n \in 1 .. (l - 1) : n + 1 \in DOMAIN s
      BY <2>2
    <2>5. Rest(s, rows) = t
      BY <1>2, <2>1 DEF Rest
    <2> QED
      BY <2>3, <2>4, <2>5
  <1> QED
    BY <1>1, <1>2


LEMMA DeletedKeeps ==
    ASSUME WorkspaceInv, NEW r \in Tabs, FindDeleted(r)
    PROVE  WorkspaceInv'
  <1> DEFINE left == request[r].left
             rows == [v \in Tagged(Head(left)) |-> Untagged(r, v)]
             j == [request[r] EXCEPT !.rows = rows, !.left = Rest(left, rows), !.phase = "write"]
             D == request[r].deleted
  <1>1. WorkspaceTyped /\ TagsInv /\ AskedInv
    BY DEF WorkspaceInv
  <1>2. /\ request[r].op = "edit" /\ request[r].phase = "find" /\ left # <<>>
        /\ request' = [request EXCEPT ![r].rows = rows, ![r].left = Rest(left, rows),
                                      ![r].phase = "write"]
        /\ Cut(left, rows)
        /\ UNCHANGED <<keywords, tags, asked, listed>>
    BY DEF FindDeleted
  <1>3. request[r] \in EditJobs /\ request[r] # Idle /\ DOMAIN request[r].rows = {}
    BY <1>1, <1>2, KindsOfJobs DEF JobOK
  <1>4. left \in Seq(Keywords) /\ D \in SUBSET Keywords
    BY <1>3 DEF EditJobs
  <1>5. Rest(left, rows) \in Seq(Keywords)
    <2> HIDE DEF left, rows
    <2> QED
      BY <1>2, <1>4, RestIs
  <1>6. /\ DOMAIN rows = Tagged(Head(left)) /\ Tagged(Head(left)) \in SUBSET Videos
        /\ \A v \in Tagged(Head(left)) :
              /\ rows[v] \in Seq(Keywords) /\ ToSet(rows[v]) = ToSet(tags[v]) \ D
    <2>1. Tagged(Head(left)) \in SUBSET Videos
      BY DEF Tagged
    <2>2. ASSUME NEW v \in Videos
          PROVE  /\ Untagged(r, v) \in Seq(Keywords) /\ ToSet(Untagged(r, v)) = ToSet(tags[v]) \ D
      <3>1. tags[v] \in Seq(Keywords)
        BY <1>1 DEF WorkspaceTyped
      <3> QED
        BY <3>1, WithoutIs DEF Untagged
    <2> HIDE DEF left
    <2> QED
      BY <2>1, <2>2
  <1>7. rows \in SomeRows
    <2> HIDE DEF left
    <2>1. rows \in [Tagged(Head(left)) -> Seq(Keywords)]
      BY <1>6
    <2> HIDE DEF rows
    <2> QED
      BY <1>6, <2>1 DEF SomeRows
  <1>8. request' = [request EXCEPT ![r] = j]
    <2> HIDE DEF left, rows
    <2> QED
      BY <1>1, <1>2 DEF WorkspaceTyped, RequestsOK
  <1>9. /\ j \in EditJobs /\ j.op = "edit" /\ j.phase = "write" /\ j.final = request[r].final
        /\ j.deleted = D /\ j.left = Rest(left, rows) /\ j.renamed = request[r].renamed
        /\ j.rows = rows
    <2>1. PICK l \in Seq(Keywords), w \in SomeRows : l = Rest(left, rows) /\ w = rows
      BY <1>5, <1>7
    <2> HIDE DEF left, rows
    <2>2. PICK k : k = [request[r] EXCEPT !.rows = w, !.left = l, !.phase = "write"]
      OBVIOUS
    <2>3. j = k
      BY <2>1, <2>2
    <2> HIDE DEF j
    <2>4. /\ k \in EditJobs /\ k.op = "edit" /\ k.phase = "write" /\ k.final = request[r].final
          /\ k.deleted = D /\ k.left = l /\ k.renamed = request[r].renamed /\ k.rows = w
      BY <1>3, <2>2 DEF EditJobs
    <2> QED
      BY <2>1, <2>3, <2>4
  <1>10. /\ JobListed(request[r], listed)
         /\ blurred = {} => EditDue(request[r], asked, keywords, tags)
    BY <1>1, <1>2, <1>3 DEF TagsInv, AskedInv, Due
  <1>11. /\ blurred \subseteq blurred' /\ blurred' \subseteq blurred \cup {"cut"}
         /\ blurred' = {} => ~(DOMAIN rows = {} /\ Len(left) > 1)
    <2> HIDE DEF left, rows
    <2> QED
      BY <1>2 DEF Cut
  <1> HIDE DEF j, rows, left
  <1>12. StepTyped(r, j)
    BY <1>1, <1>2, <1>8, <1>9, <1>11 DEF WorkspaceTyped, StepTyped, JobOK
  <1>13. StepListed(j)
    <2>1. \A v \in DOMAIN rows : ToSet(rows[v]) \subseteq listed
      BY <1>1, <1>6 DEF TagsInv
    <2> QED
      BY <1>1, <1>2, <1>9, <1>10, <2>1 DEF TagsInv, StepListed, JobListed
  <1>14. StepAsked(r, j)
    <2>1. ASSUME blurred' = {} PROVE EditDue(j, asked', keywords', tags')
      <3>1. blurred = {} /\ EditDue(request[r], asked, keywords, tags)
        BY <1>10, <1>11, <2>1
      <3>2. ToSet(left) = {Head(left)} \cup ToSet(Rest(left, rows))
        BY <1>2, <1>4, <1>11, <2>1, LeftAfter
      <3>3. ASSUME NEW v \in Videos
            PROVE  /\ ToSet(Now(j, tags, v)) \ D = ToSet(tags[v]) \ D
                   /\ ToSet(Now(j, tags, v)) \cap D \subseteq ToSet(Rest(left, rows))
        <4>1. CASE v \in Tagged(Head(left))
          <5>1. ToSet(Now(j, tags, v)) = ToSet(tags[v]) \ D
            BY <1>6, <1>9, <4>1 DEF Now
          <5> QED
            BY <5>1
        <4>2. CASE v \notin Tagged(Head(left))
          <5>1. Now(j, tags, v) = tags[v] /\ Now(request[r], tags, v) = tags[v]
            BY <1>3, <1>6, <1>9, <4>2 DEF Now
          <5>2. Head(left) \notin ToSet(tags[v])
            BY <4>2 DEF Tagged
          <5>3. ToSet(tags[v]) \cap D \subseteq ToSet(left)
            BY <1>2, <3>1, <5>1 DEF EditDue, left
          <5> QED
            BY <3>2, <5>1, <5>2, <5>3
        <4> QED
          BY <4>1, <4>2
      <3>4. ASSUME NEW v \in Videos
            PROVE  ToSet(Now(j, tags, v)) \ Gone(j) = ToSet(tags[v]) \ D
        <4>1. CASE Rest(left, rows) = <<>>
          <5>1. ToSet(<<>>) = {}
            BY DEF ToSet
          <5> QED
            BY <1>9, <3>3, <4>1, <5>1 DEF Gone
        <4>2. CASE Rest(left, rows) # <<>>
          BY <1>9, <3>3, <4>2 DEF Gone
        <4> QED
          BY <4>1, <4>2
      <3>5. ASSUME NEW v \in Videos
            PROVE  asked.tags[v] = Renames(request[r].renamed, ToSet(tags[v]) \ D)
        <4>1. Gone(request[r]) = D /\ Now(request[r], tags, v) = tags[v]
          BY <1>2, <1>3 DEF Gone, Now, left
        <4> QED
          BY <3>1, <4>1 DEF EditDue
      <3> QED
        BY <1>2, <1>9, <3>1, <3>3, <3>4, <3>5 DEF EditDue
    <2>2. j # Idle
      BY <1>9 DEF Idle
    <2> QED
      BY <1>3, <1>9, <1>11, <2>1, <2>2 DEF StepAsked, Due
  <1> QED
    BY <1>12, <1>13, <1>14, StepsKeep

LEMMA RenamedKeeps ==
    ASSUME WorkspaceInv, NEW r \in Tabs, FindRenamed(r)
    PROVE  WorkspaceInv'
  <1> DEFINE pairs == request[r].renamed
             rows == [v \in Tagged(Head(pairs).old) |-> Renamed(tags[v], <<Head(pairs)>>)]
             j == [request[r] EXCEPT !.rows = rows, !.renamed = Rest(pairs, rows),
                                     !.phase = "write"]
  <1>1. WorkspaceTyped /\ TagsInv /\ AskedInv
    BY DEF WorkspaceInv
  <1>2. /\ request[r].op = "edit" /\ request[r].phase = "find"
        /\ request[r].left = <<>> /\ pairs # <<>>
        /\ request' = [request EXCEPT ![r].rows = rows, ![r].renamed = Rest(pairs, rows),
                                      ![r].phase = "write"]
        /\ Cut(pairs, rows)
        /\ UNCHANGED <<keywords, tags, asked, listed>>
    BY DEF FindRenamed
  <1>3. request[r] \in EditJobs /\ request[r] # Idle /\ DOMAIN request[r].rows = {}
    BY <1>1, <1>2, KindsOfJobs DEF JobOK
  <1>4. pairs \in Seq(Pairs)
    BY <1>3 DEF EditJobs
  <1>5. PICK one : one = <<Head(pairs)>>
    OBVIOUS
  <1>6. Head(pairs) \in Pairs /\ one \in Seq(Pairs) /\ Head(pairs) = pairs[1] /\ 1 \in DOMAIN pairs
    <2> HIDE DEF pairs
    <2>1. pairs # <<>>
      BY <1>2
    <2>2. 1 \in DOMAIN pairs
      BY <1>4, <2>1, HasAFirst
    <2>3. PICK h : h = Head(pairs)
      OBVIOUS
    <2>4. h = pairs[1] /\ h \in Pairs
      BY <1>4, <2>2, <2>3
    <2>5. <<h>> \in Seq(Pairs)
      BY <2>4
    <2> QED
      BY <1>5, <2>2, <2>3, <2>4, <2>5
  <1>7. /\ Rest(pairs, rows) \in Seq(Pairs)
        /\ \A n \in DOMAIN Rest(pairs, rows) :
              \E m \in DOMAIN pairs : Rest(pairs, rows)[n] = pairs[m]
    <2> HIDE DEF pairs, rows
    <2> QED
      BY <1>2, <1>4, RestIs
  <1>8. /\ DOMAIN rows = Tagged(Head(pairs).old) /\ Tagged(Head(pairs).old) \in SUBSET Videos
        /\ \A v \in Tagged(Head(pairs).old) :
              /\ rows[v] \in Seq(Keywords) /\ ToSet(rows[v]) = Renames(one, ToSet(tags[v]))
    <2>1. Tagged(Head(pairs).old) \in SUBSET Videos
      BY DEF Tagged
    <2>2. ASSUME NEW v \in Videos
          PROVE  /\ Renamed(tags[v], one) \in Seq(Keywords)
                 /\ ToSet(Renamed(tags[v], one)) = Renames(one, ToSet(tags[v]))
      <3>1. tags[v] \in Seq(Keywords)
        BY <1>1 DEF WorkspaceTyped
      <3> QED
        BY <1>6, <3>1, RenamedIs
    <2> HIDE DEF pairs
    <2> QED
      BY <1>5, <2>1, <2>2
  <1>9. rows \in SomeRows
    <2> HIDE DEF pairs
    <2>1. rows \in [Tagged(Head(pairs).old) -> Seq(Keywords)]
      BY <1>8
    <2> HIDE DEF rows
    <2> QED
      BY <1>8, <2>1 DEF SomeRows
  <1>10. request' = [request EXCEPT ![r] = j]
    <2> HIDE DEF pairs, rows
    <2> QED
      BY <1>1, <1>2 DEF WorkspaceTyped, RequestsOK
  <1>11. /\ j \in EditJobs /\ j.op = "edit" /\ j.phase = "write" /\ j.final = request[r].final
         /\ j.deleted = request[r].deleted /\ j.left = <<>> /\ j.renamed = Rest(pairs, rows)
         /\ j.rows = rows
    <2>1. PICK p \in Seq(Pairs), w \in SomeRows : p = Rest(pairs, rows) /\ w = rows
      BY <1>7, <1>9
    <2> HIDE DEF pairs, rows
    <2>2. PICK k : k = [request[r] EXCEPT !.rows = w, !.renamed = p, !.phase = "write"]
      OBVIOUS
    <2>3. j = k
      BY <2>1, <2>2
    <2> HIDE DEF j
    <2>4. /\ k \in EditJobs /\ k.op = "edit" /\ k.phase = "write" /\ k.final = request[r].final
          /\ k.deleted = request[r].deleted /\ k.left = request[r].left
          /\ k.renamed = p /\ k.rows = w
      BY <1>3, <2>2 DEF EditJobs
    <2> QED
      BY <1>2, <2>1, <2>3, <2>4
  <1>12. /\ JobListed(request[r], listed)
         /\ blurred = {} => EditDue(request[r], asked, keywords, tags)
    BY <1>1, <1>2, <1>3 DEF TagsInv, AskedInv, Due
  <1>13. /\ blurred \subseteq blurred' /\ blurred' \subseteq blurred \cup {"cut"}
         /\ blurred' = {} => ~(DOMAIN rows = {} /\ Len(pairs) > 1)
    <2> HIDE DEF pairs, rows
    <2> QED
      BY <1>2 DEF Cut
  <1>14. Names(pairs) \subseteq ToSet(request[r].final) /\ ToSet(request[r].final) \subseteq listed
    BY <1>2, <1>12 DEF JobListed
  <1> HIDE DEF j, rows, pairs
  <1>15. StepTyped(r, j)
    BY <1>1, <1>2, <1>10, <1>11, <1>13 DEF WorkspaceTyped, StepTyped, JobOK
  <1>16. StepListed(j)
    <2>1. ASSUME NEW v \in DOMAIN rows, NEW k \in ToSet(rows[v]) PROVE k \in listed
      <3>1. PICK i \in ToSet(tags[v]) : k = Renaming(one, i)
        BY <1>8, <2>1 DEF Renames
      <3>2. v \in Videos /\ i \in Keywords /\ i \in listed
        <4>1. v \in Videos /\ tags[v] \in Seq(Keywords)
          BY <1>1, <1>8, <2>1 DEF WorkspaceTyped
        <4> QED
          BY <1>1, <4>1, HasKeywords DEF TagsInv
      <3>3. k = i \/ k \in Names(one)
        BY <1>6, <3>1, <3>2, NewNameIs
      <3>4. Names(one) \subseteq Names(pairs)
        <4>1. DOMAIN one = {1} /\ one[1] = pairs[1]
          BY <1>5, <1>6
        <4> QED
          BY <1>6, <4>1 DEF Names
      <3> QED
        BY <1>14, <3>2, <3>3, <3>4
    <2>2. \A v \in DOMAIN rows : ToSet(rows[v]) \subseteq listed
      BY <2>1
    <2>3. Names(Rest(pairs, rows)) \subseteq Names(pairs)
      BY <1>7 DEF Names
    <2> QED
      BY <1>1, <1>2, <1>11, <1>14, <2>2, <2>3 DEF TagsInv, StepListed, JobListed
  <1>17. StepAsked(r, j)
    <2>1. ASSUME blurred' = {} PROVE EditDue(j, asked', keywords', tags')
      <3>1. blurred = {} /\ EditDue(request[r], asked, keywords, tags)
        BY <1>12, <1>13, <2>1
      <3>2. Apart(pairs) /\ ~Chained(pairs)
        BY <3>1 DEF EditDue, pairs
      <3>3. Rest(pairs, rows) = Tail(pairs)
        <4>1. CASE DOMAIN rows = {}
          <5>1. Len(pairs) \in Nat \ {0} /\ ~(Len(pairs) > 1)
            BY <1>2, <1>4, <1>13, <2>1, <4>1, EmptySeq
          <5>2. Len(pairs) = 1
            <6>1. \A l \in Nat \ {0} : ~(l > 1) => l = 1
              OBVIOUS
            <6> QED
              BY <5>1, <6>1
          <5>3. Tail(pairs) \in Seq(Pairs) /\ Len(Tail(pairs)) = 0
            <6>1. Tail(pairs) \in Seq(Pairs) /\ Len(Tail(pairs)) = Len(pairs) - 1
              BY <1>2, <1>4, HeadTailProperties
            <6> QED
              BY <5>2, <6>1
          <5>4. Tail(pairs) = <<>>
            BY <5>3, EmptySeq
          <5> QED
            BY <4>1, <5>4 DEF Rest
        <4>2. CASE DOMAIN rows # {}
          BY <4>2 DEF Rest
        <4> QED
          BY <4>1, <4>2
      <3>4. Apart(Tail(pairs)) /\ ~Chained(Tail(pairs))
        BY <1>2, <1>4, <3>2, InTurn
      <3>5. ASSUME NEW v \in Videos
            PROVE  /\ ToSet(tags[v]) \in SUBSET Keywords
                   /\ ToSet(Now(j, tags, v)) = Renames(one, ToSet(tags[v]))
        <4>1. ToSet(tags[v]) \in SUBSET Keywords
          BY <1>1, HasKeywords DEF WorkspaceTyped
        <4>2. CASE v \in Tagged(Head(pairs).old)
          BY <1>8, <1>11, <4>1, <4>2 DEF Now
        <4>3. CASE v \notin Tagged(Head(pairs).old)
          <5>1. Now(j, tags, v) = tags[v]
            BY <1>8, <1>11, <4>3 DEF Now
          <5>2. Head(pairs).old \notin ToSet(tags[v])
            BY <4>3 DEF Tagged
          <5>3. ASSUME NEW k \in ToSet(tags[v]) PROVE Renaming(one, k) = k
            <6>1. DOMAIN one = {1} /\ one[1] = Head(pairs)
              BY <1>5
            <6>2. Spares(one, k)
              BY <5>2, <6>1 DEF Spares
            <6> QED
              BY <1>6, <4>1, <6>2, KeepsItsName
          <5>4. Renames(one, ToSet(tags[v])) = ToSet(tags[v])
            BY <5>3 DEF Renames
          <5> QED
            BY <4>1, <5>1, <5>4
        <4> QED
          BY <4>2, <4>3
      <3>6. ASSUME NEW v \in Videos
            PROVE  asked.tags[v] = Renames(Tail(pairs), ToSet(Now(j, tags, v)))
        <4>1. Gone(request[r]) = {} /\ Now(request[r], tags, v) = tags[v]
          BY <1>2, <1>3 DEF Gone, Now
        <4>2. asked.tags[v] = Renames(pairs, ToSet(tags[v]))
          BY <3>1, <4>1 DEF EditDue, pairs
        <4>3. Renames(Tail(pairs), Renames(one, ToSet(tags[v]))) = Renames(pairs, ToSet(tags[v]))
          BY <1>2, <1>4, <1>5, <3>2, <3>5, EachInTurn
        <4> QED
          BY <3>5, <4>2, <4>3
      <3>7. Gone(j) = {}
        BY <1>11 DEF Gone
      <3>8. \A v \in Videos :
              asked.tags[v] = Renames(Tail(pairs), ToSet(Now(j, tags, v)) \ Gone(j))
        BY <3>6, <3>7
      <3> QED
        BY <1>2, <1>11, <3>1, <3>3, <3>4, <3>8 DEF EditDue
    <2>2. j # Idle
      BY <1>11 DEF Idle
    <2> QED
      BY <1>3, <1>11, <1>13, <2>1, <2>2 DEF StepAsked, Due
  <1> QED
    BY <1>15, <1>16, <1>17, StepsKeep


LEMMA MovedKeeps ==
    ASSUME WorkspaceInv, NEW r \in Tabs, FindMoved(r)
    PROVE  WorkspaceInv'
  <1> DEFINE k == request[r].keyword
             rows == [v \in request[r].videos |-> Append(Without(tags[v], {k}), k)]
             j == [request[r] EXCEPT !.rows = rows, !.phase = "write"]
  <1>1. WorkspaceTyped /\ TagsInv /\ AskedInv
    BY DEF WorkspaceInv
  <1>2. /\ request[r].op = "move" /\ request[r].phase = "find"
        /\ request' = [request EXCEPT ![r].rows = rows, ![r].phase = "write"]
        /\ UNCHANGED <<keywords, tags, asked, listed, blurred>>
    BY DEF FindMoved
  <1>3. request[r] \in MoveJobs /\ request[r] # Idle /\ DOMAIN request[r].rows = {}
    BY <1>1, <1>2, KindsOfJobs DEF JobOK
  <1>4. k \in Keywords /\ request[r].videos \in SUBSET Videos
    BY <1>3 DEF MoveJobs
  <1>5. /\ DOMAIN rows = request[r].videos
        /\ \A v \in request[r].videos :
              rows[v] \in Seq(Keywords) /\ ToSet(rows[v]) = ToSet(tags[v]) \cup {k}
    <2>1. ASSUME NEW v \in Videos
          PROVE  /\ Append(Without(tags[v], {k}), k) \in Seq(Keywords)
                 /\ ToSet(Append(Without(tags[v], {k}), k)) = ToSet(tags[v]) \cup {k}
      <3>1. tags[v] \in Seq(Keywords)
        BY <1>1 DEF WorkspaceTyped
      <3>2. PICK w \in Seq(Keywords) : w = Without(tags[v], {k}) /\ ToSet(w) = ToSet(tags[v]) \ {k}
        BY <3>1, WithoutIs
      <3>3. Append(w, k) \in Seq(Keywords) /\ ToSet(Append(w, k)) = ToSet(w) \cup {k}
        BY <1>4, OneMore
      <3> QED
        BY <3>2, <3>3
    <2> HIDE DEF k
    <2> QED
      BY <1>4, <2>1
  <1>6. rows \in SomeRows
    <2> HIDE DEF k
    <2>1. rows \in [request[r].videos -> Seq(Keywords)]
      BY <1>5
    <2> HIDE DEF rows
    <2> QED
      BY <1>4, <2>1 DEF SomeRows
  <1>7. request' = [request EXCEPT ![r] = j]
    <2> HIDE DEF rows
    <2> QED
      BY <1>1, <1>2 DEF WorkspaceTyped, RequestsOK
  <1>8. /\ j \in MoveJobs /\ j.op = "move" /\ j.phase = "write" /\ j.keyword = k
        /\ j.videos = request[r].videos /\ j.rows = rows
    <2>1. PICK w \in SomeRows : w = rows
      BY <1>6
    <2> HIDE DEF rows, k
    <2>2. PICK n : n = [request[r] EXCEPT !.rows = w, !.phase = "write"]
      OBVIOUS
    <2>3. j = n
      BY <2>1, <2>2
    <2> HIDE DEF j
    <2>4. /\ n \in MoveJobs /\ n.op = "move" /\ n.phase = "write"
          /\ n.keyword = request[r].keyword /\ n.videos = request[r].videos /\ n.rows = w
      BY <1>3, <2>2 DEF MoveJobs
    <2> QED
      BY <2>1, <2>3, <2>4 DEF k
  <1>9. /\ JobListed(request[r], listed)
        /\ blurred = {} => MoveDue(request[r], asked, keywords, tags)
    BY <1>1, <1>2, <1>3 DEF TagsInv, AskedInv, Due
  <1> HIDE DEF j, rows
  <1>10. StepTyped(r, j)
    BY <1>1, <1>2, <1>7, <1>8 DEF WorkspaceTyped, StepTyped, JobOK
  <1>11. StepListed(j)
    <2>1. k \in listed
      BY <1>2, <1>9 DEF JobListed
    <2>2. \A v \in DOMAIN rows : ToSet(rows[v]) \subseteq listed
      BY <1>1, <1>4, <1>5, <2>1 DEF TagsInv
    <2> QED
      BY <1>1, <1>2, <1>8, <2>1, <2>2 DEF TagsInv, StepListed, JobListed
  <1>12. StepAsked(r, j)
    <2>1. ASSUME blurred = {} PROVE MoveDue(j, asked', keywords', tags')
      <3>1. ASSUME NEW v \in Videos
            PROVE  asked.tags[v] = ToSet(Now(j, tags, v))
        <4>1. CASE v \in request[r].videos
          <5>1. Now(j, tags, v) = rows[v]
            BY <1>5, <1>8, <4>1 DEF Now
          <5>2. asked.tags[v] = ToSet(tags[v]) \cup {k}
            BY <1>2, <1>9, <2>1, <4>1 DEF MoveDue
          <5> QED
            BY <1>5, <4>1, <5>1, <5>2
        <4>2. CASE v \notin request[r].videos
          <5>1. Now(j, tags, v) = tags[v] /\ Now(request[r], tags, v) = tags[v]
            BY <1>3, <1>5, <1>8, <4>2 DEF Now
          <5>2. asked.tags[v] = ToSet(Now(request[r], tags, v))
            BY <1>9, <2>1, <4>2 DEF MoveDue
          <5> QED
            BY <5>1, <5>2
        <4> QED
          BY <4>1, <4>2
      <3> QED
        BY <1>2, <1>8, <1>9, <2>1, <3>1 DEF MoveDue
    <2>2. j # Idle
      BY <1>8 DEF Idle
    <2> QED
      BY <1>2, <1>3, <1>8, <2>1, <2>2 DEF StepAsked, Due
  <1> QED
    BY <1>10, <1>11, <1>12, StepsKeep

\* A row that is written is as it was to be.
LEMMA RowKeeps ==
    ASSUME WorkspaceInv, NEW r \in Tabs, NEW v \in Videos, WriteRow(r, v)
    PROVE  WorkspaceInv'
  <1> DEFINE old == request[r].rows
             rows == [w \in DOMAIN old \ {v} |-> old[w]]
             j == [request[r] EXCEPT !.rows = rows]
  <1>1. WorkspaceTyped /\ TagsInv /\ AskedInv
    BY DEF WorkspaceInv
  <1>2. /\ request[r].op # "idle" /\ request[r].phase = "write" /\ v \in DOMAIN old
        /\ tags' = [tags EXCEPT ![v] = old[v]]
        /\ request' = [request EXCEPT ![r].rows = rows]
        /\ UNCHANGED <<keywords, asked, listed, blurred>>
    BY DEF WriteRow
  <1>3. /\ JobOK(request[r]) /\ request[r] # Idle /\ request[r].op \in {"edit", "move"}
        /\ request[r].op = "edit" => request[r] \in EditJobs
        /\ request[r].op = "move" => request[r] \in MoveJobs
    BY <1>1, <1>2, KindsOfJobs
  <1>4. old \in SomeRows
    BY <1>3 DEF EditJobs, MoveJobs
  <1>5. DOMAIN old \in SUBSET Videos /\ \A w \in DOMAIN old : old[w] \in Seq(Keywords)
    BY <1>4, RowsAre
  <1>6. rows \in SomeRows /\ DOMAIN rows = DOMAIN old \ {v} /\ \A w \in DOMAIN rows : rows[w] = old[w]
    <2> HIDE DEF old
    <2>1. rows \in [DOMAIN old \ {v} -> Seq(Keywords)]
      BY <1>5
    <2>2. DOMAIN old \ {v} \in SUBSET Videos
      BY <1>5
    <2> QED
      BY <2>1, <2>2 DEF SomeRows
  <1>7. request' = [request EXCEPT ![r] = j]
    <2> HIDE DEF rows
    <2> QED
      BY <1>1, <1>2 DEF WorkspaceTyped, RequestsOK
  <1>8. PICK w \in SomeRows : w = rows
    BY <1>6
  <1>9. PICK n : n = [request[r] EXCEPT !.rows = w]
    OBVIOUS
  <1>10. j = n
    BY <1>8, <1>9
  <1>11. tags' \in [Videos -> Seq(Keywords)] /\ tags'[v] = old[v]
         /\ \A x \in Videos : x # v => tags'[x] = tags[x]
    <2> HIDE DEF old
    <2> QED
      BY <1>1, <1>2, <1>5 DEF WorkspaceTyped
  <1> HIDE DEF j, rows
  <1>12. /\ n.op = request[r].op /\ n.phase = "write" /\ n.rows = w
         /\ request[r].op = "edit" =>
               /\ n \in EditJobs /\ n.final = request[r].final /\ n.deleted = request[r].deleted
               /\ n.left = request[r].left /\ n.renamed = request[r].renamed
         /\ request[r].op = "move" =>
               /\ n \in MoveJobs /\ n.keyword = request[r].keyword /\ n.videos = request[r].videos
    <2>1. CASE request[r].op = "edit"
      <3>1. request[r] \in EditJobs
        BY <1>3, <2>1
      <3> QED
        BY <1>2, <1>9, <2>1, <3>1 DEF EditJobs
    <2>2. CASE request[r].op = "move"
      <3>1. request[r] \in MoveJobs
        BY <1>3, <2>2
      <3> QED
        BY <1>2, <1>9, <2>2, <3>1 DEF MoveJobs
    <2> QED
      BY <1>3, <2>1, <2>2
  <1>13. /\ JobListed(request[r], listed)
         /\ blurred = {} => Due(request[r], asked, keywords, tags)
    BY <1>1, <1>3 DEF TagsInv, AskedInv
  <1>14. StepTyped(r, n)
    BY <1>1, <1>2, <1>3, <1>7, <1>10, <1>11, <1>12 DEF WorkspaceTyped, StepTyped, JobOK
  <1>15. StepListed(n)
    <2>1. \A x \in DOMAIN w : ToSet(w[x]) \subseteq listed
      BY <1>6, <1>8, <1>13 DEF JobListed
    <2>2. ToSet(old[v]) \subseteq listed
      BY <1>2, <1>13 DEF JobListed
    <2>3. \A x \in Videos : ToSet(tags'[x]) \subseteq listed
      <3> TAKE x \in Videos
      <3> HIDE DEF old
      <3> QED
        BY <1>1, <1>11, <2>2 DEF TagsInv
    <2>4. JobListed(n, listed)
      BY <1>2, <1>3, <1>12, <1>13, <2>1 DEF JobListed
    <2> QED
      BY <1>1, <1>2, <2>3, <2>4 DEF TagsInv, StepListed
  <1>16. StepAsked(r, n)
    <2>1. ASSUME NEW x \in Videos PROVE Now(n, tags', x) = Now(request[r], tags, x)
      <3>1. CASE x = v
        BY <1>2, <1>6, <1>8, <1>11, <1>12, <3>1 DEF Now
      <3>2. CASE x # v
        BY <1>2, <1>6, <1>8, <1>11, <1>12, <3>2 DEF Now
      <3> QED
        BY <3>1, <3>2
    <2>2. ASSUME blurred = {}, request[r].op = "edit" PROVE EditDue(n, asked', keywords', tags')
      <3>1. EditDue(request[r], asked, keywords, tags)
        BY <1>13, <2>2 DEF Due
      <3>2. Gone(n) = Gone(request[r])
        BY <1>12, <2>2 DEF Gone
      <3> QED
        BY <1>2, <1>12, <2>1, <2>2, <3>1, <3>2 DEF EditDue
    <2>3. ASSUME blurred = {}, request[r].op = "move" PROVE MoveDue(n, asked', keywords', tags')
      <3>1. MoveDue(request[r], asked, keywords, tags)
        BY <1>13, <2>3 DEF Due
      <3> QED
        BY <1>2, <1>12, <2>1, <2>3, <3>1 DEF MoveDue
    <2>4. n # Idle
      BY <1>2, <1>12 DEF Idle
    <2> QED
      BY <1>2, <1>3, <1>12, <2>2, <2>3, <2>4 DEF StepAsked, Due
  <1> QED
    BY <1>14, <1>15, <1>16, StepsKeep


LEMMA WrittenKeeps ==
    ASSUME WorkspaceInv, NEW r \in Tabs, RowsWritten(r)
    PROVE  WorkspaceInv'
  <1> DEFINE phase == IF request[r].op = "edit" THEN "find" ELSE "done"
             j == [request[r] EXCEPT !.phase = phase]
  <1>1. WorkspaceTyped /\ TagsInv /\ AskedInv
    BY DEF WorkspaceInv
  <1>2. /\ request[r].op # "idle" /\ request[r].phase = "write" /\ DOMAIN request[r].rows = {}
        /\ request' = [request EXCEPT ![r].phase = phase]
        /\ UNCHANGED <<keywords, tags, asked, listed, blurred>>
    BY DEF RowsWritten
  <1>3. /\ JobOK(request[r]) /\ request[r] # Idle /\ request[r].op \in {"edit", "move"}
        /\ request[r].op = "edit" => request[r] \in EditJobs
        /\ request[r].op = "move" => request[r] \in MoveJobs
    BY <1>1, <1>2, KindsOfJobs
  <1>4. request' = [request EXCEPT ![r] = j]
    BY <1>1, <1>2 DEF WorkspaceTyped, RequestsOK
  <1>5. /\ JobListed(request[r], listed)
        /\ blurred = {} => Due(request[r], asked, keywords, tags)
    BY <1>1, <1>3 DEF TagsInv, AskedInv
  <1>6. CASE request[r].op = "edit"
    <2>1. request[r] \in EditJobs /\ phase = "find"
      BY <1>3, <1>6
    <2>2. /\ j \in EditJobs /\ j.op = "edit" /\ j.phase = "find" /\ j.final = request[r].final
          /\ j.deleted = request[r].deleted /\ j.left = request[r].left
          /\ j.renamed = request[r].renamed /\ j.rows = request[r].rows
      BY <1>6, <2>1 DEF EditJobs
    <2> HIDE DEF j
    <2>3. StepTyped(r, j)
      BY <1>1, <1>2, <1>4, <2>2 DEF WorkspaceTyped, StepTyped, JobOK
    <2>4. StepListed(j)
      BY <1>1, <1>2, <1>5, <1>6, <2>2 DEF TagsInv, StepListed, JobListed
    <2>5. ASSUME blurred = {} PROVE EditDue(j, asked', keywords', tags')
      <3>1. EditDue(request[r], asked, keywords, tags)
        BY <1>5, <1>6, <2>5 DEF Due
      <3>2. Gone(j) = Gone(request[r]) /\ \A v \in Videos : Now(j, tags', v) = Now(request[r], tags, v)
        BY <1>2, <2>2 DEF Gone, Now
      <3> QED
        BY <1>2, <2>2, <3>1, <3>2 DEF EditDue
    <2>6. j # Idle
      BY <2>2 DEF Idle
    <2>7. StepAsked(r, j)
      BY <1>2, <1>3, <2>2, <2>5, <2>6 DEF StepAsked, Due
    <2> QED
      BY <2>3, <2>4, <2>7, StepsKeep
  <1>7. CASE request[r].op = "move"
    <2>1. request[r] \in MoveJobs /\ phase = "done"
      BY <1>3, <1>7
    <2>2. /\ j \in MoveJobs /\ j.op = "move" /\ j.phase = "done"
          /\ j.keyword = request[r].keyword /\ j.videos = request[r].videos
          /\ j.rows = request[r].rows
      BY <1>7, <2>1 DEF MoveJobs
    <2> HIDE DEF j
    <2>3. StepTyped(r, j)
      BY <1>1, <1>2, <1>4, <2>2 DEF WorkspaceTyped, StepTyped, JobOK
    <2>4. StepListed(j)
      BY <1>1, <1>2, <1>5, <1>7, <2>2 DEF TagsInv, StepListed, JobListed
    <2>5. ASSUME blurred = {} PROVE MoveDue(j, asked', keywords', tags')
      <3>1. MoveDue(request[r], asked, keywords, tags)
        BY <1>5, <1>7, <2>5 DEF Due
      <3>2. \A v \in Videos : Now(j, tags', v) = Now(request[r], tags, v)
        BY <1>2, <2>2 DEF Now
      <3> QED
        BY <1>2, <2>2, <3>1, <3>2 DEF MoveDue
    <2>6. j # Idle
      BY <2>2 DEF Idle
    <2>7. StepAsked(r, j)
      BY <1>2, <1>3, <2>2, <2>5, <2>6 DEF StepAsked, Due
    <2> QED
      BY <2>3, <2>4, <2>7, StepsKeep
  <1> QED
    BY <1>3, <1>6, <1>7

\* The answer leaves nothing to do.
LEMMA AnswerKeeps ==
    ASSUME WorkspaceInv, NEW r \in Tabs, Answer(r)
    PROVE  WorkspaceInv'
  <1>1. WorkspaceTyped /\ TagsInv /\ AskedInv
    BY DEF WorkspaceInv
  <1>2. /\ request[r].op # "idle"
        /\ \/ request[r].phase = "done"
           \/ /\ request[r].op = "edit" /\ request[r].phase = "find"
              /\ request[r].left = <<>> /\ request[r].renamed = <<>>
        /\ request' = [request EXCEPT ![r] = Idle]
        /\ UNCHANGED <<keywords, tags, asked, listed, blurred>>
    BY DEF Answer
  <1>3. /\ JobOK(request[r]) /\ request[r] # Idle /\ request[r].op \in {"edit", "move"}
        /\ request[r].op = "edit" => request[r] \in EditJobs
        /\ request[r].op = "move" => request[r] \in MoveJobs
    BY <1>1, <1>2, KindsOfJobs
  <1>4. DOMAIN request[r].rows = {}
    BY <1>2, <1>3 DEF JobOK
  <1>5. \A v \in Videos : Now(request[r], tags, v) = tags[v] /\ ToSet(tags[v]) \in SUBSET Keywords
    BY <1>1, <1>4, HasKeywords DEF Now, WorkspaceTyped
  <1>6. ASSUME blurred = {} PROVE AsAsked(asked, keywords, tags)
    <2>1. Due(request[r], asked, keywords, tags)
      BY <1>1, <1>3, <1>6 DEF AskedInv
    <2>2. CASE request[r].op = "edit"
      <3>1. EditDue(request[r], asked, keywords, tags)
        BY <2>1, <2>2 DEF Due
      <3>2. /\ request[r].phase = "find" /\ request[r].left = <<>> /\ request[r].renamed = <<>>
        BY <1>2, <1>3, <2>2 DEF EditJobs
      <3>3. Gone(request[r]) = {}
        BY <3>2 DEF Gone
      <3>4. ASSUME NEW v \in Videos PROVE asked.tags[v] = ToSet(tags[v])
        <4>1. asked.tags[v] = Renames(<<>>, ToSet(tags[v]) \ {})
          BY <1>5, <3>1, <3>2, <3>3 DEF EditDue
        <4>2. ToSet(tags[v]) \ {} = ToSet(tags[v])
          OBVIOUS
        <4> QED
          BY <1>5, <4>1, <4>2, NothingRenamed
      <3> QED
        BY <3>1, <3>2, <3>4 DEF EditDue, AsAsked
    <2>3. CASE request[r].op = "move"
      <3>1. MoveDue(request[r], asked, keywords, tags)
        BY <2>1, <2>3 DEF Due
      <3>2. request[r].phase = "done"
        BY <1>2, <2>3
      <3> QED
        BY <1>5, <3>1, <3>2 DEF MoveDue, AsAsked
    <2> QED
      BY <1>3, <2>2, <2>3
  <1>7. StepTyped(r, Idle)
    BY <1>1, <1>2 DEF WorkspaceTyped, StepTyped
  <1>8. StepListed(Idle)
    BY <1>1, <1>2 DEF TagsInv, StepListed
  <1>9. StepAsked(r, Idle)
    BY <1>2, <1>3, <1>6 DEF StepAsked
  <1> QED
    BY <1>7, <1>8, <1>9, StepsKeep

LEMMA DieKeeps ==
    ASSUME WorkspaceInv, NEW r \in Tabs, Die(r)
    PROVE  WorkspaceInv'
  <1>1. WorkspaceTyped /\ TagsInv /\ AskedInv
    BY DEF WorkspaceInv
  <1>2. /\ request' = [request EXCEPT ![r] = Idle] /\ blurred' = blurred \cup {"crash"}
        /\ UNCHANGED <<keywords, tags, asked, listed>>
    BY DEF Die
  <1>3. StepTyped(r, Idle)
    BY <1>1, <1>2 DEF WorkspaceTyped, StepTyped
  <1>4. StepListed(Idle)
    BY <1>1, <1>2 DEF TagsInv, StepListed
  <1>5. StepAsked(r, Idle)
    BY <1>2 DEF StepAsked
  <1> QED
    BY <1>3, <1>4, <1>5, StepsKeep

\* What an edit asks for, and what a move asks for, when they come.
LEMMA EditKeeps ==
    ASSUME WorkspaceInv, NEW r \in Tabs, NEW e \in Edits, StartEdit(r, e)
    PROVE  WorkspaceInv'
  <1> DEFINE j == EditJob(e)
             D == ToSet(e.deleted)
  <1>1. WorkspaceTyped /\ TagsInv /\ AskedInv
    BY DEF WorkspaceInv
  <1>2. /\ D \cup {e.renamed[n].old : n \in DOMAIN e.renamed} \subseteq ToSet(keywords)
        /\ request[r] = Idle /\ request' = [request EXCEPT ![r] = j]
        /\ asked' = Edited(e)
        /\ blurred' = (blurred \cup IF Chained(e.renamed) THEN {"chain"} ELSE {})
                         \cup IF \A q \in Tabs : request[q] = Idle THEN {} ELSE {"overlap"}
        /\ UNCHANGED <<keywords, tags, listed>>
    BY DEF StartEdit, Begin
  <1>3. /\ e.deleted \in Seq(Keywords) /\ e.added \in Seq(Keywords)
        /\ e.renamed \in Seq(Pairs) /\ Apart(e.renamed)
    BY EditsAssumption DEF Pairs, Apart
  <1>4. D \in SUBSET Keywords /\ ToSet(e.added) \in SUBSET Keywords
    BY <1>3, HasKeywords
  <1>5. /\ Final(e) \in Seq(Keywords)
        /\ ToSet(Final(e)) = Renames(e.renamed, ToSet(keywords) \ D) \cup ToSet(e.added)
    BY <1>1, SentIs DEF WorkspaceTyped
  <1>6. Names(e.renamed) \subseteq ToSet(Final(e))
    <2>1. \A n \in DOMAIN e.renamed : e.renamed[n].old \in ToSet(keywords)
      BY <1>2
    <2> QED
      BY <1>1, <2>1, NewNamesAreSent DEF WorkspaceTyped
  <1>7. /\ j \in EditJobs /\ j.op = "edit" /\ j.phase = "save" /\ j.final = Final(e)
        /\ j.deleted = D /\ j.left = e.deleted /\ j.renamed = e.renamed /\ j.rows = NoRows
    <2>1. NoRows \in SomeRows
      BY NoRowsYet
    <2> QED
      BY <1>3, <1>4, <1>5, <2>1 DEF EditJob, EditJobs
  <1>8. DOMAIN j.rows = {}
    BY <1>7, NoRowsYet
  <1> HIDE DEF j
  <1>9. /\ asked' = [keywords |-> Renames(e.renamed, asked.keywords \ D) \cup ToSet(e.added),
                     tags |-> [v \in Videos |-> Renames(e.renamed, asked.tags[v] \ D)]]
    BY <1>2 DEF Edited, Renames
  <1>10. \A K \in SUBSET Keywords : Renames(e.renamed, K \ D) \in SUBSET Keywords
    BY <1>3, NewNameIs DEF Renames
  <1>11. asked' \in Workspaces
    BY <1>1, <1>4, <1>9, <1>10 DEF WorkspaceTyped, Workspaces
  <1>12. StepTyped(r, j)
    BY <1>1, <1>2, <1>7, <1>8, <1>11 DEF WorkspaceTyped, StepTyped, JobOK
  <1>13. StepListed(j)
    BY <1>1, <1>2, <1>6, <1>7, <1>8 DEF TagsInv, StepListed, JobListed
  <1>14. StepAsked(r, j)
    <2>1. blurred' = {} => blurred = {} /\ (\A q \in Tabs : request[q] = Idle) /\ ~Chained(e.renamed)
      BY <1>2
    <2>2. ASSUME blurred' = {} PROVE EditDue(j, asked', keywords', tags')
      <3>1. AsAsked(asked, keywords, tags)
        BY <1>1, <2>1, <2>2 DEF AskedInv, Quiet
      <3>2. asked'.keywords = ToSet(j.final)
        BY <1>5, <1>7, <1>9, <3>1 DEF AsAsked
      <3>3. \A v \in Videos : Now(j, tags', v) = tags[v]
        BY <1>2, <1>8 DEF Now
      <3>4. \A v \in Videos : asked'.tags[v] = Renames(e.renamed, ToSet(tags[v]) \ D)
        BY <1>9, <3>1 DEF AsAsked
      <3>5. ASSUME NEW v \in Videos PROVE ToSet(tags[v]) \ Gone(j) = ToSet(tags[v]) \ D
        <4>1. CASE e.deleted = <<>>
          <5>1. D = {} /\ Gone(j) = {}
            BY <1>7, <4>1 DEF Gone, ToSet
          <5> QED
            BY <5>1
        <4>2. CASE e.deleted # <<>>
          BY <1>7, <4>2 DEF Gone
        <4> QED
          BY <4>1, <4>2
      <3>6. \A v \in Videos :
              asked'.tags[v] = Renames(j.renamed, ToSet(Now(j, tags', v)) \ Gone(j))
        BY <1>7, <3>3, <3>4, <3>5
      <3>7. \A v \in Videos : ToSet(Now(j, tags', v)) \cap j.deleted \subseteq ToSet(j.left)
        BY <1>7
      <3> QED
        BY <1>3, <1>7, <2>1, <2>2, <3>2, <3>6, <3>7 DEF EditDue
    <2>3. j # Idle
      BY <1>7 DEF Idle
    <2>4. blurred' = {} => OthersIdle(r)
      BY <2>1 DEF OthersIdle
    <2>5. blurred \subseteq blurred'
      BY <1>2
    <2> QED
      BY <1>7, <2>2, <2>3, <2>4, <2>5 DEF StepAsked, Due
  <1> QED
    BY <1>12, <1>13, <1>14, StepsKeep

LEMMA MoveKeeps ==
    ASSUME WorkspaceInv, NEW r \in Tabs, NEW k \in Keywords, NEW V \in SUBSET Videos,
           StartMove(r, k, V)
    PROVE  WorkspaceInv'
  <1> DEFINE j == [op |-> "move", phase |-> "find", keyword |-> k, videos |-> V,
                   left |-> <<>>, renamed |-> <<>>, rows |-> NoRows]
             after == [v \in Videos |-> IF v \in V THEN asked.tags[v] \cup {k} ELSE asked.tags[v]]
  <1>1. WorkspaceTyped /\ TagsInv /\ AskedInv
    BY DEF WorkspaceInv
  <1>2. /\ k \in ToSet(keywords)
        /\ request[r] = Idle /\ request' = [request EXCEPT ![r] = j]
        /\ asked' = [asked EXCEPT !.tags = after]
        /\ blurred' = (blurred \cup {})
                         \cup IF \A q \in Tabs : request[q] = Idle THEN {} ELSE {"overlap"}
        /\ UNCHANGED <<keywords, tags, listed>>
    BY DEF StartMove, Begin, OnList
  <1>3. /\ j \in MoveJobs /\ j.op = "move" /\ j.phase = "find" /\ j.keyword = k
        /\ j.videos = V /\ j.rows = NoRows
    BY NoRowsYet DEF MoveJobs
  <1>4. DOMAIN j.rows = {}
    BY <1>3, NoRowsYet
  <1> HIDE DEF j
  <1>5. after \in [Videos -> SUBSET Keywords]
    BY <1>1 DEF WorkspaceTyped, Workspaces
  <1>6. asked' \in Workspaces /\ asked'.keywords = asked.keywords /\ asked'.tags = after
    <2> HIDE DEF after
    <2> QED
      BY <1>1, <1>2, <1>5 DEF WorkspaceTyped, Workspaces
  <1>7. StepTyped(r, j)
    BY <1>1, <1>2, <1>3, <1>4, <1>6 DEF WorkspaceTyped, StepTyped, JobOK
  <1>8. StepListed(j)
    BY <1>1, <1>2, <1>3, <1>4 DEF TagsInv, StepListed, JobListed
  <1>9. StepAsked(r, j)
    <2>1. blurred' = {} => blurred = {} /\ \A q \in Tabs : request[q] = Idle
      BY <1>2
    <2>2. ASSUME blurred' = {} PROVE MoveDue(j, asked', keywords', tags')
      <3>1. AsAsked(asked, keywords, tags)
        BY <1>1, <2>1, <2>2 DEF AskedInv, Quiet
      <3>2. \A v \in Videos : Now(j, tags', v) = tags[v]
        BY <1>2, <1>4 DEF Now
      <3>3. \A v \in Videos :
              asked'.tags[v] = IF v \in V THEN asked.tags[v] \cup {k} ELSE asked.tags[v]
        BY <1>6
      <3> QED
        BY <1>2, <1>3, <1>6, <3>1, <3>2, <3>3 DEF MoveDue, AsAsked
    <2>3. j # Idle
      BY <1>3 DEF Idle
    <2>4. blurred' = {} => OthersIdle(r)
      BY <2>1 DEF OthersIdle
    <2>5. blurred \subseteq blurred'
      BY <1>2
    <2> QED
      BY <1>3, <2>2, <2>3, <2>4, <2>5 DEF StepAsked, Due
  <1> QED
    BY <1>7, <1>8, <1>9, StepsKeep


-----------------------------------------------------------------------------
(* Theorems                                                                 *)

\* A set of keywords as a list.
LEMMA SetAsList ==
    ASSUME NEW S \in SUBSET Keywords
    PROVE  SetToSeq(S) \in Seq(Keywords) /\ ToSet(SetToSeq(S)) \subseteq S
  <1> DEFINE n == Cardinality(S)
             s == CHOOSE f \in [1 .. n -> S] : IsInjective(f)
  <1>1. IsFiniteSet(S)
    BY KeywordsAssumption, FS_Subset
  <1>2. n \in Nat /\ ExistsBijection(1 .. n, S)
    BY <1>1, FS_CardinalityType
  <1>3. \E f \in [1 .. n -> S] : IsInjective(f)
    BY <1>2, Zenon DEF ExistsBijection, Bijection, Injection, IsInjective
  <1>4. s \in [1 .. n -> S]
    BY <1>3
  <1>5. SetToSeq(S) = s
    BY DEF SetToSeq
  <1> HIDE DEF s, n
  <1>6. s \in Seq(S)
    BY <1>2, <1>4, SeqDef
  <1>7. s \in Seq(Keywords)
    <2>1. s \in [1 .. n -> Keywords]
      BY <1>4
    <2> QED
      BY <1>2, <2>1, SeqDef
  <1>8. ToSet(s) \subseteq S
    BY <1>4 DEF ToSet
  <1> QED
    BY <1>5, <1>7, <1>8

LEMMA WorkspaceBegins == WorkspaceInit => WorkspaceInv
  <1> SUFFICES ASSUME WorkspaceInit PROVE WorkspaceInv
    OBVIOUS
  <1>1. PICK K \in SUBSET Keywords : keywords = SetToSeq(K)
    BY DEF WorkspaceInit
  <1>2. PICK f \in [Videos -> SUBSET ToSet(keywords)] : tags = [v \in Videos |-> SetToSeq(f[v])]
    BY DEF WorkspaceInit
  <1>3. /\ request = [r \in Tabs |-> Idle]
        /\ asked = [keywords |-> ToSet(keywords), tags |-> [v \in Videos |-> ToSet(tags[v])]]
        /\ listed = ToSet(keywords) /\ blurred = {}
    BY DEF WorkspaceInit
  <1>4. keywords \in Seq(Keywords) /\ ToSet(keywords) \in SUBSET Keywords
    BY <1>1, SetAsList, HasKeywords
  <1>5. \A v \in Videos : tags[v] \in Seq(Keywords) /\ ToSet(tags[v]) \subseteq ToSet(keywords)
    <2> TAKE v \in Videos
    <2>1. f[v] \in SUBSET ToSet(keywords) /\ f[v] \in SUBSET Keywords
      BY <1>2, <1>4
    <2>2. tags[v] = SetToSeq(f[v])
      BY <1>2
    <2> QED
      BY <2>1, <2>2, SetAsList
  <1>6. \A r \in Tabs : request[r] = Idle
    BY <1>3
  <1>7. WorkspaceTyped
    <2>1. tags \in [Videos -> Seq(Keywords)]
      BY <1>2, <1>5
    <2>2. asked \in Workspaces
      BY <1>3, <1>4, <1>5 DEF Workspaces
    <2>3. RequestsOK
      BY <1>3 DEF RequestsOK
    <2> QED
      BY <1>3, <1>4, <1>6, <2>1, <2>2, <2>3 DEF WorkspaceTyped
  <1>8. TagsInv
    BY <1>3, <1>5, <1>6 DEF TagsInv
  <1>9. AskedInv
    BY <1>3, <1>6 DEF AskedInv, AsAsked
  <1> QED
    BY <1>7, <1>8, <1>9 DEF WorkspaceInv

LEMMA WorkspaceStep == WorkspaceInv /\ [WorkspaceNext]_workspaceVars => WorkspaceInv'
  <1> SUFFICES ASSUME WorkspaceInv, [WorkspaceNext]_workspaceVars PROVE WorkspaceInv'
    OBVIOUS
  <1>1. CASE WorkspaceNext
    <2>1. PICK r \in Tabs :
             \/ \E e \in Edits : StartEdit(r, e)
             \/ \E k \in Keywords, V \in SUBSET Videos : StartMove(r, k, V)
             \/ SaveKeywords(r) \/ FindDeleted(r) \/ FindRenamed(r) \/ FindMoved(r)
             \/ \E v \in Videos : WriteRow(r, v)
             \/ RowsWritten(r) \/ Answer(r) \/ Die(r)
      BY <1>1 DEF WorkspaceNext
    <2> QED
      BY <2>1, EditKeeps, MoveKeeps, SaveKeeps, DeletedKeeps, RenamedKeeps, MovedKeeps, RowKeeps,
         WrittenKeeps, AnswerKeeps, DieKeeps
  <1>2. CASE UNCHANGED workspaceVars
    <2>1. UNCHANGED <<keywords, tags, request, asked, listed, blurred>>
      BY <1>2 DEF workspaceVars
    <2>2. WorkspaceTyped'
      BY <2>1 DEF WorkspaceInv, WorkspaceTyped, RequestsOK
    <2>3. TagsInv'
      BY <2>1 DEF WorkspaceInv, TagsInv
    <2>4. AskedInv'
      BY <2>1 DEF WorkspaceInv, AskedInv, OthersIdle, Quiet
    <2> QED
      BY <2>2, <2>3, <2>4 DEF WorkspaceInv
  <1> QED
    BY <1>1, <1>2

\* The workspace is always as it is meant to be: list and tags are lists of
\* keywords, the rows that a request still writes are of videos.
THEOREM WorkspaceTypeCorrect == WorkspaceSpec => []WorkspaceTypeOK
  <1>1. WorkspaceInv => WorkspaceTypeOK
    <2> SUFFICES ASSUME WorkspaceInv PROVE WorkspaceTypeOK
      OBVIOUS
    <2>1. WorkspaceTyped
      BY DEF WorkspaceInv
    <2>2. ASSUME NEW r \in Tabs, request[r] # Idle PROVE DOMAIN request[r].rows \subseteq Videos
      <3>1. request[r].rows \in SomeRows
        BY <2>1, <2>2 DEF WorkspaceTyped, JobOK, EditJobs, MoveJobs
      <3> QED
        BY <3>1, RowsAre
    <2> QED
      BY <2>1, <2>2 DEF WorkspaceTyped, Workspaces, WorkspaceTypeOK
  <1> QED
    BY <1>1, WorkspaceBegins, WorkspaceStep, PTL DEF WorkspaceSpec

\* Whatever is edited, in however many tabs, and wherever requests end, a video
\* is tagged only with what was a keyword of the list before (editKeyword saves
\* the list first, updateWorkspace looks for the keyword on it).
THEOREM TagsAreOfTheList == WorkspaceSpec => []TagsWereListed
  <1>1. WorkspaceInv => TagsWereListed
    BY DEF WorkspaceInv, TagsInv, TagsWereListed
  <1> QED
    BY <1>1, WorkspaceBegins, WorkspaceStep, PTL DEF WorkspaceSpec

\* When requests came one after the other and were carried through, and no name
\* was given up and taken by one request, list and videos are what they would be
\* had each request been one step: for any edits, keywords and videos
\* (editKeyword with deleteKeyword and updateKeyword, moveToWorkspace).
THEOREM EditsAreDoneAsAsked == WorkspaceSpec => []DoneAsAsked
  <1>1. WorkspaceInv => DoneAsAsked
    BY DEF WorkspaceInv, AskedInv, AsAsked, DoneAsAsked
  <1> QED
    BY <1>1, WorkspaceBegins, WorkspaceStep, PTL DEF WorkspaceSpec

=============================================================================
