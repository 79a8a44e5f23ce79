---------------------------- MODULE NoticeProofs ----------------------------
(***************************************************************************)
(* Theorems about what users are shown, offered and told.                  *)
(***************************************************************************)
EXTENDS StockExchange, Desk, TableLemmas

(* Arithmetic that the proofs about totals need                             *)

\* Nothing is added.
LEMMA NothingMore == \A n \in Nat : n + 0 = n
  OBVIOUS

\* A number is at most itself and another.
LEMMA SameMore == \A m, n \in Nat : m + n <= m + n /\ m <= m /\ m <= m + n
  OBVIOUS

\* One number is taken out of a total.
LEMMA LessMore == \A a, b, c \in Nat : a = b \/ a = b - c + 0 => a <= b
  OBVIOUS

\* Totals are compared term by term.
LEMMA SumsCompared == \A a, b, c, d \in Nat : a <= b => a + c <= b + c /\ (c <= d => a + c <= b + d)
  OBVIOUS

\* The least of a total and a bound, when the total grows.
LEMMA LeastAdded ==
    \A s, w, q \in Nat :
        (IF s <= q THEN s ELSE q)
          + (IF q - s <= 0 THEN 0 ELSE IF q - s < w THEN q - s ELSE w)
        = IF s + w <= q THEN s + w ELSE q
  OBVIOUS

\* What is given is no longer offered.
LEMMA GivesLess ==
    \A a, b, g, l, m \in Nat :
        a <= b + g /\ m <= l /\ (m + g <= l \/ g = 0) => m + a <= l + b
  OBVIOUS

-----------------------------------------------------------------------------
(* Columns of the order table                                               *)

Rows == [user : Users, side : Sides, amount : Amounts, volume : Nat]

\* What is left of the orders at one price, of a user's offers, of all offers.
AtKey(os, k) ==
    [i \in DOMAIN os |-> IF <<os[i].side, os[i].amount>> = k THEN os[i].volume ELSE 0]
SoldBy(os, u) ==
    [i \in DOMAIN os |->
        IF os[i].side = "SELL" /\ os[i].user = u THEN os[i].volume ELSE 0]
OnSale(os) == [i \in DOMAIN os |-> IF os[i].side = "SELL" THEN os[i].volume ELSE 0]

\* A table of orders is a finite one of typed rows.
LEMMA OrderRows ==
    ASSUME NEW os \in Seq(Rows)
    PROVE  /\ Len(os) \in Nat /\ DOMAIN os = 1 .. Len(os) /\ IsFiniteSet(DOMAIN os)
           /\ \A i \in DOMAIN os :
                 /\ os[i] \in Rows /\ i \in Nat /\ i # 0
                 /\ os[i].user \in Users /\ os[i].side \in Sides
                 /\ os[i].amount \in Amounts /\ os[i].volume \in Nat
                 /\ <<os[i].side, os[i].amount>> \in Keys
  <1>1. Len(os) \in Nat /\ DOMAIN os = 1 .. Len(os) /\ IsFiniteSet(1 .. Len(os))
    BY LenProperties, FS_Interval
  <1>2. \A i \in DOMAIN os : os[i] \in Rows /\ i \in Nat /\ i # 0
    <2>1. \A i \in DOMAIN os : os[i] \in Rows
      BY <1>1, ElementOfSeq
    <2>2. \A i \in 1 .. Len(os) : i \in Nat /\ i # 0
      BY <1>1
    <2> QED
      BY <1>1, <2>1, <2>2
  <1> QED
    BY <1>1, <1>2 DEF Rows, Keys

\* The columns hold natural numbers.
LEMMA ColumnsTyped ==
    ASSUME NEW os \in Seq(Rows)
    PROVE  \A i \in DOMAIN os :
              /\ \A k : AtKey(os, k)[i] \in Nat
              /\ \A u : SoldBy(os, u)[i] \in Nat
              /\ OnSale(os)[i] \in Nat
  BY OrderRows DEF AtKey, SoldBy, OnSale

\* The volume that waits at a price, as the total of a column.
LEMMA VolumeTotal ==
    ASSUME NEW os \in Seq(Rows), NEW k
    PROVE  /\ VolumeAt(os, k) = SumOver(DOMAIN os, AtKey(os, k))
           /\ VolumeAt(os, k) \in Nat
  <1> DEFINE f == [i \in LiveAt(os, k) |-> os[i].volume]
  <1>1. LiveAt(os, k) \in SUBSET DOMAIN os
    BY DEF LiveAt
  <1>2. \A i \in LiveAt(os, k) : f[i] \in Nat
    BY OrderRows DEF LiveAt
  <1>3. \A i \in DOMAIN os : AtKey(os, k)[i] = IF i \in LiveAt(os, k) THEN f[i] ELSE 0
    BY OrderRows DEF LiveAt, AtKey
  <1>4. IsFiniteSet(DOMAIN os)
    BY OrderRows
  <1> HIDE DEF f
  <1>5. SumOver(DOMAIN os, AtKey(os, k)) = SumOver(LiveAt(os, k), f)
    BY <1>1, <1>2, <1>3, <1>4, SumOfPart
  <1>6. SumOver(DOMAIN os, AtKey(os, k)) \in Nat
    BY <1>4, ColumnsTyped, SumNat
  <1> QED
    BY <1>5, <1>6 DEF VolumeAt, f

\* What a user has on offer, as the total of a column.
LEMMA LiveSellTotal ==
    ASSUME NEW os \in Seq(Rows), NEW u
    PROVE  /\ LiveSell(os, u) = SumOver(DOMAIN os, SoldBy(os, u))
           /\ LiveSell(os, u) \in Nat
  <1> DEFINE f == [i \in SellsOf(os, u) |-> os[i].volume]
  <1>1. SellsOf(os, u) \in SUBSET DOMAIN os
    BY DEF SellsOf
  <1>2. \A i \in SellsOf(os, u) : f[i] \in Nat
    BY OrderRows DEF SellsOf
  <1>3. \A i \in DOMAIN os : SoldBy(os, u)[i] = IF i \in SellsOf(os, u) THEN f[i] ELSE 0
    <2>1. \A i \in DOMAIN os : os[i].volume \in Nat
      BY OrderRows
    <2> QED
      BY <2>1 DEF SellsOf, SoldBy
  <1>4. IsFiniteSet(DOMAIN os)
    BY OrderRows
  <1> HIDE DEF f
  <1>5. SumOver(DOMAIN os, SoldBy(os, u)) = SumOver(SellsOf(os, u), f)
    BY <1>1, <1>2, <1>3, <1>4, SumOfPart
  <1>6. SumOver(DOMAIN os, SoldBy(os, u)) \in Nat
    BY <1>4, ColumnsTyped, SumNat
  <1> QED
    BY <1>5, <1>6 DEF LiveSell, f

\* A book that follows the orders offers what they have left, all prices
\* together, and that is at least what any one user offers.
LEMMA SellBookTotal ==
    ASSUME NEW os \in Seq(Rows), NEW b, \A k \in Keys : RowVolume(b, k) = VolumeAt(os, k)
    PROVE  /\ SellBook(b) = SumOver(DOMAIN os, OnSale(os)) /\ SellBook(b) \in Nat
           /\ \A u : LiveSell(os, u) <= SellBook(b)
  <1> DEFINE S == {i \in DOMAIN os : os[i].volume > 0 /\ os[i].side = "SELL"}
             f == [i \in S |-> os[i].volume]
             owner == [i \in S |-> os[i].amount]
             group == [a \in Amounts |-> LiveAt(os, <<"SELL", a>>)]
             g == [a \in Amounts |-> RowVolume(b, <<"SELL", a>>)]
  <1>1. IsFiniteSet(DOMAIN os) /\ IsFiniteSet(Amounts) /\ S \in SUBSET DOMAIN os
    BY OrderRows, ShareAssumption
  <1>2. IsFiniteSet(S)
    BY <1>1, FS_Subset
  <1>3. (\A i \in S : f[i] \in Nat) /\ \A i \in S : owner[i] \in Amounts
    BY OrderRows
  <1>4. \A a \in Amounts : \A i : i \in group[a] <=> i \in S /\ owner[i] = a
    BY DEF LiveAt
  <1>5. ASSUME NEW a \in Amounts
        PROVE  g[a] = SumOver(group[a], f)
    <2>1. <<"SELL", a>> \in Keys
      BY DEF Keys, Sides
    <2>2. g[a] = VolumeAt(os, <<"SELL", a>>)
      BY <2>1
    <2> DEFINE L == LiveAt(os, <<"SELL", a>>)
               v == [i \in L |-> os[i].volume]
    <2>3. \A i \in L : i \in S /\ v[i] = f[i]
      BY DEF LiveAt
    <2>4. VolumeAt(os, <<"SELL", a>>) = SumOver(L, v)
      BY DEF VolumeAt
    <2> HIDE DEF L, v, f
    <2>5. SumOver(L, v) = SumOver(L, f)
      BY <2>3, SumSame
    <2> QED
      BY <2>2, <2>4, <2>5 DEF L
  <1>6. \A i \in DOMAIN os : OnSale(os)[i] = IF i \in S THEN f[i] ELSE 0
    <2>1. \A i \in DOMAIN os : os[i].volume \in Nat
      BY OrderRows
    <2> QED
      BY <2>1 DEF OnSale
  <1>7. SellBook(b) = SumOver(Amounts, g)
    BY DEF SellBook
  <1> HIDE DEF S, f, owner, group, g
  <1>8. SumOver(Amounts, g) = SumOver(S, f)
    <2>1. \A a \in Amounts : g[a] = SumOver(group[a], f)
      BY <1>5
    <2>2. IsFiniteSet(Amounts)
      BY <1>1
    <2> QED
      BY <1>2, <1>3, <1>4, <2>1, <2>2, SumGrouped
  <1>9. SumOver(DOMAIN os, OnSale(os)) = SumOver(S, f)
    BY <1>1, <1>3, <1>6, SumOfPart
  <1>10. SumOver(DOMAIN os, OnSale(os)) \in Nat
    BY <1>1, ColumnsTyped, SumNat
  <1>11. ASSUME NEW u
         PROVE  LiveSell(os, u) <= SumOver(DOMAIN os, OnSale(os))
    <2>1. \A i \in DOMAIN os : SoldBy(os, u)[i] <= OnSale(os)[i]
      <3>1. \A i \in DOMAIN os : os[i].volume \in Nat
        BY OrderRows
      <3> QED
        BY <3>1 DEF SoldBy, OnSale
    <2>2. SumOver(DOMAIN os, SoldBy(os, u)) <= SumOver(DOMAIN os, OnSale(os))
      BY <1>1, <2>1, ColumnsTyped, SumLess
    <2> QED
      BY <2>2, LiveSellTotal
  <1> QED
    BY <1>7, <1>8, <1>9, <1>10, <1>11

-----------------------------------------------------------------------------
(* What a request takes from the resting orders                             *)

\* What each order gives, as a column.
TakenOf(os, r) ==
    [i \in DOMAIN os |-> IF i \in Matched(os, r) THEN Taken(os, r, i) ELSE 0]

\* An order gives at most what is left of it.
LEMMA TakenTyped ==
    ASSUME NEW os \in Seq(Rows), NEW r, r.volume \in Nat, NEW i \in DOMAIN os
    PROVE  /\ Before(os, r, i) \in Nat
           /\ Taken(os, r, i) \in Nat /\ Taken(os, r, i) <= os[i].volume
           /\ TakenOf(os, r)[i] \in Nat /\ TakenOf(os, r)[i] <= os[i].volume
  <1> DEFINE older == {j \in LiveAt(os, MatchKey(r)) : j < i}
             v == [j \in older |-> os[j].volume]
  <1>1. older \in SUBSET DOMAIN os /\ \A j \in older : v[j] \in Nat
    BY OrderRows DEF LiveAt
  <1>2. IsFiniteSet(DOMAIN os) /\ os[i].volume \in Nat
    BY OrderRows
  <1>3. Before(os, r, i) = SumOver(older, v)
    BY DEF Before
  <1> HIDE DEF older, v
  <1>4. SumOver(older, v) \in Nat
    BY <1>1, <1>2, FS_Subset, SumNat
  <1>5. Before(os, r, i) \in Nat
    BY <1>3, <1>4
  <1>6. Taken(os, r, i) \in Nat /\ Taken(os, r, i) <= os[i].volume
    BY <1>2, <1>5 DEF Taken
  <1> QED
    BY <1>2, <1>5, <1>6 DEF TakenOf

\* All orders together give at most what is asked for: an order gives what
\* those before it leave of the request.
LEMMA TakenBound ==
    ASSUME NEW os \in Seq(Rows), NEW r, r.volume \in Nat
    PROVE  SumOver(LiveAt(os, MatchKey(r)),
                   [i \in LiveAt(os, MatchKey(r)) |-> Taken(os, r, i)]) <= r.volume
  <1> DEFINE L == LiveAt(os, MatchKey(r))
             v == [i \in L |-> os[i].volume]
             t == [i \in L |-> Taken(os, r, i)]
             U(n) == {i \in L : i <= n}
             least(n) == IF SumOver(U(n), v) <= r.volume THEN SumOver(U(n), v) ELSE r.volume
             P == {n \in Nat : SumOver(U(n), t) = least(n)}
  <1>1. PICK N \in Nat : N = Len(os) /\ DOMAIN os = 1 .. N
    BY OrderRows
  <1>2. IsFiniteSet(DOMAIN os) /\ L \in SUBSET DOMAIN os
    BY OrderRows DEF LiveAt
  <1>3. \A i \in L : /\ i \in DOMAIN os /\ i \in Nat /\ i # 0
                     /\ v[i] \in Nat /\ t[i] \in Nat
    BY OrderRows, TakenTyped DEF LiveAt
  <1>4. ASSUME NEW n \in Nat
        PROVE  /\ IsFiniteSet(U(n)) /\ U(n) \in SUBSET L
               /\ SumOver(U(n), v) \in Nat /\ SumOver(U(n), t) \in Nat
    <2>1. IsFiniteSet(U(n)) /\ U(n) \in SUBSET L
      BY <1>2, FS_Subset
    <2> HIDE DEF U, v, t, L
    <2> QED
      BY <1>3, <2>1, SumNat
  <1>5. 0 \in P
    <2>1. U(0) = {}
      BY <1>3
    <2>2. SumOver(U(0), v) = 0 /\ SumOver(U(0), t) = 0
      BY <2>1, SumEmpty
    <2> QED
      BY <2>2
  <1>6. ASSUME NEW n \in Nat, n \in P
        PROVE  n + 1 \in P
    <2>1. CASE n + 1 \notin L
      <3>1. U(n + 1) = U(n)
        BY <1>3, <2>1
      <3>2. SumOver(U(n), t) = least(n)
        BY <1>6
      <3> HIDE DEF U, v, t, L
      <3> QED
        BY <3>1, <3>2
    <2>2. CASE n + 1 \in L
      <3>1. U(n) = U(n + 1) \ {n + 1} /\ n + 1 \in U(n + 1)
        BY <1>3, <2>2
      <3>2. Before(os, r, n + 1) = SumOver(U(n), v)
        <4>1. {j \in L : j < n + 1} = U(n)
          BY <1>3
        <4> DEFINE w == [j \in U(n) |-> os[j].volume]
        <4>2. Before(os, r, n + 1) = SumOver(U(n), w)
          BY <4>1 DEF Before
        <4>3. \A j \in U(n) : w[j] = v[j]
          OBVIOUS
        <4> HIDE DEF w, U, v
        <4> QED
          BY <4>2, <4>3, SumSame
      <3>3. /\ SumOver(U(n + 1), v) = SumOver(U(n), v) + v[n + 1]
            /\ SumOver(U(n + 1), t) = SumOver(U(n), t) + t[n + 1]
        <4>1. \A i \in U(n + 1) : v[i] \in Nat /\ t[i] \in Nat
          BY <1>3
        <4>2. n + 1 \in Nat
          OBVIOUS
        <4> HIDE DEF U, v, t, L, P
        <4>3. IsFiniteSet(U(n + 1)) /\ n + 1 \in U(n + 1)
          BY <1>4, <3>1, <4>2
        <4>4. \A i \in U(n + 1) : v[i] \in Nat
          BY <4>1
        <4>5. \A i \in U(n + 1) : t[i] \in Nat
          BY <4>1
        <4>6. SumOver(U(n + 1), v) = SumOver(U(n + 1) \ {n + 1}, v) + v[n + 1]
          BY <4>3, <4>4, SumSplit
        <4>7. SumOver(U(n + 1), t) = SumOver(U(n + 1) \ {n + 1}, t) + t[n + 1]
          BY <4>3, <4>5, SumSplit
        <4> QED
          BY <3>1, <4>6, <4>7
      <3>4. /\ SumOver(U(n), v) \in Nat /\ SumOver(U(n), t) = least(n)
            /\ v[n + 1] \in Nat /\ v[n + 1] = os[n + 1].volume /\ v[n + 1] > 0
            /\ t[n + 1] = Taken(os, r, n + 1)
        BY <1>3, <1>4, <1>6, <2>2 DEF LiveAt
      <3>5. t[n + 1] = LET left == r.volume - SumOver(U(n), v)
                       IN  IF left <= 0 THEN 0 ELSE IF left < v[n + 1] THEN left ELSE v[n + 1]
        BY <3>2, <3>4 DEF Taken
      <3> HIDE DEF U, v, t, L
      <3>6. SumOver(U(n + 1), t) = least(n + 1)
        <4>1. PICK s, w, q \in Nat : s = SumOver(U(n), v) /\ w = v[n + 1] /\ q = r.volume
          BY <3>4
        <4>2. SumOver(U(n), t) = (IF s <= q THEN s ELSE q)
          BY <3>4, <4>1
        <4>3. t[n + 1] = IF q - s <= 0 THEN 0 ELSE IF q - s < w THEN q - s ELSE w
          BY <3>5, <4>1
        <4>4. SumOver(U(n + 1), v) = s + w
          BY <3>3, <4>1
        <4>5. SumOver(U(n + 1), t) = (IF s <= q THEN s ELSE q)
                 + (IF q - s <= 0 THEN 0 ELSE IF q - s < w THEN q - s ELSE w)
          BY <3>3, <4>2, <4>3
        <4>6. SumOver(U(n + 1), t) = IF s + w <= q THEN s + w ELSE q
          BY <4>5, LeastAdded
        <4> QED
          BY <4>1, <4>4, <4>6
      <3> QED
        BY <3>6
    <2> QED
      BY <2>1, <2>2
  <1>7. N \in P
    <2> HIDE DEF P
    <2>1. \A k \in 0 .. N - 1 : k \in P => k + 1 \in P
      BY <1>6
    <2>2. \A k \in 0 .. N : k \in P
      BY <1>1, <1>5, <2>1, CountingUp
    <2> QED
      BY <1>1, <2>2
  <1>8. U(N) = L
    BY <1>1, <1>2, <1>3
  <1>9. SumOver(L, t) = least(N) /\ SumOver(L, v) \in Nat
    BY <1>4, <1>7, <1>8
  <1> QED
    BY <1>8, <1>9

\* The volume matched, as the total of a column, and within the request.
LEMMA MatchedTotal ==
    ASSUME NEW os \in Seq(Rows), NEW r, r.volume \in Nat
    PROVE  /\ Matched(os, r) \in SUBSET DOMAIN os
           /\ MatchedVolume(os, r) = SumOver(DOMAIN os, TakenOf(os, r))
           /\ MatchedVolume(os, r) \in Nat /\ MatchedVolume(os, r) <= r.volume
  <1> DEFINE M == Matched(os, r)
             L == LiveAt(os, MatchKey(r))
             f == [i \in M |-> Taken(os, r, i)]
             t == [i \in L |-> Taken(os, r, i)]
  <1>1. IsFiniteSet(DOMAIN os) /\ M \in SUBSET DOMAIN os /\ L \in SUBSET DOMAIN os
    BY OrderRows DEF LiveAt, Matched
  <1>2. M \in SUBSET L
    BY DEF Matched
  <1>3. (\A i \in M : f[i] \in Nat) /\ (\A i \in L : t[i] \in Nat)
    BY <1>1, TakenTyped
  <1>4. \A i \in DOMAIN os : TakenOf(os, r)[i] = IF i \in M THEN f[i] ELSE 0
    BY DEF TakenOf
  <1>5. \A i \in M : f[i] = t[i]
    BY <1>2
  <1>6. MatchedVolume(os, r) = SumOver(M, f)
    BY DEF MatchedVolume
  <1>7. SumOver(L, t) <= r.volume
    BY TakenBound
  <1> HIDE DEF M, L, f, t
  <1>8. SumOver(DOMAIN os, TakenOf(os, r)) = SumOver(M, f)
    BY <1>1, <1>3, <1>4, SumOfPart
  <1>9. IsFiniteSet(L) /\ IsFiniteSet(M)
    BY <1>1, FS_Subset
  <1>10. SumOver(M, t) <= SumOver(L, t)
    BY <1>2, <1>3, <1>9, SumPart
  <1>11. SumOver(M, f) = SumOver(M, t)
    BY <1>5, SumSame
  <1>12. SumOver(M, f) \in Nat /\ SumOver(L, t) \in Nat
    BY <1>3, <1>9, SumNat
  <1> QED
    BY <1>1, <1>6, <1>7, <1>8, <1>10, <1>11, <1>12 DEF M

-----------------------------------------------------------------------------
(* The matches that are found                                               *)

\* A volume: a number, or a text to which numbers were appended.
VolumeRows == [text : BOOLEAN, parts : Seq(Nat)]

\* An entry of the match history: two users, and one volume.
FillOK(f) ==
    /\ f.buyUserId \in Users /\ f.sellUserId \in Users
    /\ f.volume \in VolumeRows /\ f.volume.parts \in Seq(Nat)
    /\ Len(f.volume.parts) = 1 /\ f.volume.parts[1] \in Nat
FillsOK(fs) == DOMAIN fs = 1 .. Len(fs) /\ Len(fs) \in Nat /\ \A n \in DOMAIN fs : FillOK(fs[n])

\* The orders a user gives shares from, when the request is matched.
GivesFrom(os, r, u) ==
    {i \in Matched(os, r) : Fill(os, r, i).sellUserId = u /\ Fill(os, r, i).buyUserId # u}

\* Each matched order has one entry, and that is well formed.
LEMMA FillsListed ==
    ASSUME NEW os \in Seq(Rows), NEW r, r.volume \in Nat, r.user \in Users
    PROVE  /\ FillsOK(Fills(os, r))
           /\ Fills(os, r) = <<>> <=> Matched(os, r) = {}
           /\ \E ids \in [DOMAIN Fills(os, r) -> Matched(os, r)] :
                 /\ \A a, b \in DOMAIN Fills(os, r) : ids[a] = ids[b] => a = b
                 /\ \A i \in Matched(os, r) : \E a \in DOMAIN Fills(os, r) : ids[a] = i
                 /\ \A a \in DOMAIN Fills(os, r) : Fills(os, r)[a] = Fill(os, r, ids[a])
  <1> DEFINE M == Matched(os, r)
             Increasing(s) == \A m, n \in DOMAIN s : m < n => s[m] < s[n]
             ids == CHOOSE s \in [1 .. Cardinality(M) -> M] : Increasing(s)
             fs == Fills(os, r)
  <1>1. Len(os) \in Nat /\ M \in SUBSET (1 .. Len(os)) /\ M \in SUBSET DOMAIN os
    BY OrderRows, MatchedTotal
  <1>2. /\ IsFiniteSet(M) /\ Cardinality(M) \in Nat
        /\ \E s \in [1 .. Cardinality(M) -> M] :
              \A a, b \in 1 .. Cardinality(M) : a < b => s[a] < s[b]
    <2> HIDE DEF M
    <2> QED
      BY <1>1, ListedInOrder
  <1>3. ids \in [1 .. Cardinality(M) -> M] /\ Increasing(ids)
    <2>1. \E s \in [1 .. Cardinality(M) -> M] : Increasing(s)
      BY <1>2
    <2> HIDE DEF Increasing, M
    <2> QED
      BY <2>1
  <1>4. /\ \A a, b \in 1 .. Cardinality(M) : ids[a] = ids[b] => a = b
        /\ \A i \in M : \E a \in 1 .. Cardinality(M) : ids[a] = i
    <2>1. \A a, b \in 1 .. Cardinality(M) : a < b => ids[a] < ids[b]
      BY <1>3
    <2>2. ids \in [1 .. Cardinality(M) -> M]
      BY <1>3
    <2>3. PICK N \in Nat : M \in SUBSET (1 .. N)
      BY <1>1
    <2> HIDE DEF ids, M
    <2> QED
      BY <2>1, <2>2, <2>3, EachIsListedOnce, ZenonT(60)
  <1>5. fs = [n \in DOMAIN ids |-> Fill(os, r, ids[n])]
    BY DEF Fills
  <1> HIDE DEF ids, fs, M
  <1>6. /\ DOMAIN fs = 1 .. Cardinality(M) /\ Len(fs) = Cardinality(M)
        /\ \A a \in DOMAIN fs : fs[a] = Fill(os, r, ids[a])
    BY <1>2, <1>3, <1>5
  <1>7. ASSUME NEW i \in M
        PROVE  FillOK(Fill(os, r, i))
    <2>1. i \in DOMAIN os
      BY <1>1
    <2>2. os[i].user \in Users /\ Taken(os, r, i) \in Nat
      BY <2>1, OrderRows, TakenTyped
    <2> DEFINE g == Fill(os, r, i)
               x == Taken(os, r, i)
               full == (x = os[i].volume)
    <2>3. /\ g.buyUserId \in Users /\ g.sellUserId \in Users
          /\ g.volume = [text |-> full, parts |-> <<x>>] /\ g.volume.parts = <<x>>
      BY <2>2 DEF Fill
    <2>4. full \in BOOLEAN
      OBVIOUS
    <2>5. \A y \in Nat : <<y>> \in Seq(Nat) /\ Len(<<y>>) = 1 /\ <<y>>[1] = y
      OBVIOUS
    <2>7. x \in Nat
      BY <2>2
    <2> HIDE DEF g, x, full
    <2>8. [text |-> full, parts |-> <<x>>] \in VolumeRows
      BY <2>4, <2>5, <2>7 DEF VolumeRows
    <2>6. FillOK(g)
      BY <2>3, <2>5, <2>7, <2>8 DEF FillOK
    <2> QED
      BY <2>6 DEF g
  <1>8. FillsOK(fs)
    BY <1>2, <1>3, <1>6, <1>7 DEF FillsOK
  <1>9. fs = <<>> <=> M = {}
    <2>1. CASE M = {}
      <3>1. DOMAIN fs = {}
        BY <1>3, <1>6, <2>1, FS_EmptySet
      <3> QED
        BY <1>5, <1>6, <2>1, <3>1
    <2>2. CASE M # {}
      <3>1. PICK a \in DOMAIN fs : TRUE
        BY <1>4, <1>6, <2>2
      <3> QED
        BY <2>2, <3>1
    <2> QED
      BY <2>1, <2>2
  <1>10. ids \in [DOMAIN fs -> M]
    BY <1>3, <1>6
  <1> QED
    BY <1>4, <1>6, <1>8, <1>9, <1>10 DEF fs, M

\* What a user gives is taken from its orders, or from it by the request.
LEMMA GivenTotal ==
    ASSUME NEW os \in Seq(Rows), NEW r, r.volume \in Nat, r.user \in Users, NEW u
    PROVE  Given(Fills(os, r), u) = SumOver(GivesFrom(os, r, u), TakenOf(os, r))
  <1> DEFINE fs == Fills(os, r)
             ns == {n \in DOMAIN fs : fs[n].sellUserId = u /\ fs[n].buyUserId # u}
             f == [n \in ns |-> fs[n].volume.parts[1]]
             G == GivesFrom(os, r, u)
             t == TakenOf(os, r)
  <1>1. PICK ids \in [DOMAIN fs -> Matched(os, r)] :
           /\ \A a, b \in DOMAIN fs : ids[a] = ids[b] => a = b
           /\ \A i \in Matched(os, r) : \E a \in DOMAIN fs : ids[a] = i
           /\ \A a \in DOMAIN fs : fs[a] = Fill(os, r, ids[a])
    BY FillsListed
  <1>2. FillsOK(fs)
    BY FillsListed
  <1> HIDE DEF fs
  <1>3. IsFiniteSet(ns) /\ \A n \in ns : f[n] \in Nat
    <2>1. IsFiniteSet(DOMAIN fs)
      BY <1>2, FS_Interval DEF FillsOK
    <2>2. \A n \in ns : f[n] \in Nat
      BY <1>2 DEF FillsOK, FillOK
    <2> QED
      BY <2>1, <2>2, FS_Subset
  <1>4. \A n \in ns : ids[n] \in G
    BY <1>1 DEF GivesFrom
  <1>5. \A i \in G : \E n \in ns : ids[n] = i
    BY <1>1 DEF GivesFrom
  <1>6. \A n \in ns : t[ids[n]] = f[n]
    <2>1. Matched(os, r) \in SUBSET DOMAIN os
      BY MatchedTotal
    <2>2. \A i \in Matched(os, r) : t[i] = Fill(os, r, i).volume.parts[1]
      BY <2>1 DEF TakenOf, Fill
    <2> QED
      BY <1>1, <2>2
  <1>7. \A a, b \in ns : ids[a] = ids[b] => a = b
    BY <1>1
  <1>8. Given(fs, u) = SumOver(ns, f)
    BY DEF Given
  <1> HIDE DEF ns, f, G, t
  <1>9. SumOver(G, t) = SumOver(ns, f)
    <2> DEFINE to == [n \in ns |-> ids[n]]
    <2>1. to \in [ns -> G]
      BY <1>4
    <2>2. \A a, b \in ns : to[a] = to[b] => a = b
      BY <1>7
    <2>3. \A i \in G : \E n \in ns : to[n] = i
      BY <1>5
    <2>4. \A n \in ns : t[to[n]] = f[n]
      BY <1>6
    <2> HIDE DEF to
    <2> QED
      BY <1>3, <2>1, <2>2, <2>3, <2>4, SumRenamed
  <1> QED
    BY <1>8, <1>9 DEF fs, G, t

\* All shares that are given are got: a transfer leaves their number as it was.
LEMMA GivenIsGot ==
    ASSUME NEW fs, FillsOK(fs)
    PROVE  /\ \A u \in Users : Given(fs, u) \in Nat /\ Got(fs, u) \in Nat
           /\ SumOver(Users, [u \in Users |-> Given(fs, u)])
                = SumOver(Users, [u \in Users |-> Got(fs, u)])
  <1> DEFINE S == {n \in DOMAIN fs : fs[n].sellUserId # fs[n].buyUserId}
             f == [n \in S |-> fs[n].volume.parts[1]]
             seller == [n \in S |-> fs[n].sellUserId]
             buyer == [n \in S |-> fs[n].buyUserId]
             sales == [u \in Users |-> {n \in DOMAIN fs : fs[n].sellUserId = u /\ fs[n].buyUserId # u}]
             buys == [u \in Users |-> {n \in DOMAIN fs : fs[n].buyUserId = u /\ fs[n].sellUserId # u}]
             gave == [u \in Users |-> Given(fs, u)]
             got == [u \in Users |-> Got(fs, u)]
  <1>1. IsFiniteSet(S) /\ IsFiniteSet(Users)
    <2>1. IsFiniteSet(DOMAIN fs)
      BY FS_Interval DEF FillsOK
    <2> QED
      BY <2>1, FS_Subset, ShareAssumption
  <1>2. \A n \in S : f[n] \in Nat /\ seller[n] \in Users /\ buyer[n] \in Users
    BY DEF FillsOK, FillOK
  <1>3. \A u \in Users : \A n : n \in sales[u] <=> n \in S /\ seller[n] = u
    OBVIOUS
  <1>4. \A u \in Users : \A n : n \in buys[u] <=> n \in S /\ buyer[n] = u
    OBVIOUS
  <1>5. ASSUME NEW u \in Users
        PROVE  gave[u] = SumOver(sales[u], f) /\ got[u] = SumOver(buys[u], f)
    <2> DEFINE x == [n \in sales[u] |-> fs[n].volume.parts[1]]
               y == [n \in buys[u] |-> fs[n].volume.parts[1]]
    <2>1. gave[u] = SumOver(sales[u], x) /\ got[u] = SumOver(buys[u], y)
      BY DEF Given, Got
    <2>2. (\A n \in sales[u] : x[n] = f[n]) /\ (\A n \in buys[u] : y[n] = f[n])
      OBVIOUS
    <2> HIDE DEF x, y, f, sales, buys
    <2> QED
      BY <2>1, <2>2, SumSame
  <1>6. \A u \in Users : Given(fs, u) = gave[u] /\ Got(fs, u) = got[u]
    OBVIOUS
  <1>7. \A u \in Users : sales[u] \in SUBSET S /\ buys[u] \in SUBSET S
    BY <1>3, <1>4
  <1> HIDE DEF S, f, seller, buyer, sales, buys, gave, got
  <1>8. \A u \in Users : gave[u] \in Nat /\ got[u] \in Nat
    <2>1. \A u \in Users : IsFiniteSet(sales[u]) /\ IsFiniteSet(buys[u])
      BY <1>1, <1>7, FS_Subset
    <2>2. \A u \in Users : \A n \in sales[u] \cup buys[u] : f[n] \in Nat
      BY <1>2, <1>7
    <2> QED
      BY <1>5, <2>1, <2>2, SumNat
  <1>9. SumOver(Users, gave) = SumOver(S, f)
    <2>1. \A u \in Users : gave[u] = SumOver(sales[u], f)
      BY <1>5
    <2> QED
      BY <1>1, <1>2, <1>3, <2>1, SumGrouped
  <1>10. SumOver(Users, got) = SumOver(S, f)
    <2>1. \A u \in Users : got[u] = SumOver(buys[u], f)
      BY <1>5
    <2> QED
      BY <1>1, <1>2, <1>4, <2>1, SumGrouped
  <1> QED
    BY <1>6, <1>8, <1>9, <1>10 DEF gave, got

\* A user gives at most what the request is for, and a request to sell takes
\* from nobody but its user.
LEMMA GivenBound ==
    ASSUME NEW os \in Seq(Rows), NEW r, r.volume \in Nat, r.user \in Users, NEW u
    PROVE  /\ Given(Fills(os, r), u) \in Nat /\ Given(Fills(os, r), u) <= r.volume
           /\ Side(r) = "SELL" /\ u # r.user => Given(Fills(os, r), u) = 0
           /\ Side(r) = "BUY" => \A i \in GivesFrom(os, r, u) : os[i].user = u
  <1> DEFINE G == GivesFrom(os, r, u)
             t == TakenOf(os, r)
  <1>1. IsFiniteSet(DOMAIN os) /\ G \in SUBSET DOMAIN os
    BY OrderRows, MatchedTotal DEF GivesFrom
  <1>2. \A i \in DOMAIN os : t[i] \in Nat
    BY TakenTyped
  <1>3. Given(Fills(os, r), u) = SumOver(G, t)
    BY GivenTotal
  <1>4. SumOver(DOMAIN os, t) \in Nat /\ SumOver(DOMAIN os, t) <= r.volume
    BY MatchedTotal
  <1>5. Side(r) = "SELL" /\ u # r.user => G = {}
    BY DEF GivesFrom, Fill
  <1>6. Side(r) = "BUY" => \A i \in G : os[i].user = u
    BY DEF GivesFrom, Fill
  <1> HIDE DEF G, t
  <1>7. SumOver(G, t) \in Nat /\ SumOver(G, t) <= SumOver(DOMAIN os, t)
    BY <1>1, <1>2, FS_Subset, SumNat, SumPart
  <1>8. SumOver({}, t) = 0
    BY SumEmpty
  <1>9. Given(Fills(os, r), u) \in Nat /\ Given(Fills(os, r), u) <= r.volume
    <2>1. \A a, b \in Nat : a <= b /\ b <= r.volume => a <= r.volume
      OBVIOUS
    <2>2. SumOver(G, t) <= r.volume
      BY <1>4, <1>7, <2>1
    <2> QED
      BY <1>3, <1>7, <2>2 DEF G
  <1>10. Side(r) = "SELL" /\ u # r.user => Given(Fills(os, r), u) = 0
    BY <1>3, <1>5, <1>8 DEF G
  <1> QED
    BY <1>6, <1>9, <1>10 DEF G

\* After a match each order is there with what it gave taken off.
LEMMA OrdersAfterFills ==
    ASSUME NEW os \in Seq(Rows), NEW r, r.volume \in Nat
    PROVE  /\ AfterFills(os, r) \in Seq(Rows) /\ DOMAIN AfterFills(os, r) = DOMAIN os
           /\ \A i \in DOMAIN os :
                 /\ AfterFills(os, r)[i].user = os[i].user
                 /\ AfterFills(os, r)[i].side = os[i].side
                 /\ AfterFills(os, r)[i].amount = os[i].amount
                 /\ AfterFills(os, r)[i].volume \in Nat
                 /\ os[i].volume = AfterFills(os, r)[i].volume + TakenOf(os, r)[i]
                 /\ TakenOf(os, r)[i] # 0 => <<os[i].side, os[i].amount>> = MatchKey(r)
           /\ Matched(os, r) = {} => AfterFills(os, r) = os
  <1> DEFINE as == AfterFills(os, r)
  <1>1. DOMAIN as = DOMAIN os /\ as = [i \in DOMAIN as |-> as[i]]
    BY DEF AfterFills
  <1>2. ASSUME NEW i \in DOMAIN os
        PROVE  /\ as[i] \in Rows
               /\ as[i].user = os[i].user /\ as[i].side = os[i].side
               /\ as[i].amount = os[i].amount /\ as[i].volume \in Nat
               /\ os[i].volume = as[i].volume + TakenOf(os, r)[i]
               /\ TakenOf(os, r)[i] = 0 => as[i] = os[i]
    <2>1. os[i] \in Rows /\ os[i].volume \in Nat
      BY OrderRows
    <2>2. TakenOf(os, r)[i] \in Nat /\ TakenOf(os, r)[i] <= os[i].volume
      BY TakenTyped
    <2>3. as[i] = [os[i] EXCEPT !.volume = os[i].volume - TakenOf(os, r)[i]]
      BY <2>1 DEF AfterFills, TakenOf
    <2>4. os[i].volume - TakenOf(os, r)[i] \in Nat
      BY <2>1, <2>2
    <2> HIDE DEF as
    <2>5. /\ as[i].user = os[i].user /\ as[i].side = os[i].side
          /\ as[i].amount = os[i].amount
          /\ as[i].volume = os[i].volume - TakenOf(os, r)[i]
      BY <2>1, <2>3 DEF Rows
    <2>6. as[i] \in Rows
      BY <2>1, <2>3, <2>4 DEF Rows
    <2>7. TakenOf(os, r)[i] = 0 => as[i] = os[i]
      BY <2>1, <2>3 DEF Rows
    <2>8. os[i].volume = as[i].volume + TakenOf(os, r)[i] /\ as[i].volume \in Nat
      <3>1. \A a, b, c \in Nat : c = a - b => a = c + b
        OBVIOUS
      <3> QED
        BY <2>1, <2>2, <2>4, <2>5, <3>1
    <2> QED
      BY <2>5, <2>6, <2>7, <2>8
  <1>3. \A i \in DOMAIN os : TakenOf(os, r)[i] # 0 => <<os[i].side, os[i].amount>> = MatchKey(r)
    BY DEF TakenOf, Matched, LiveAt
  <1>4. as \in Seq(Rows)
    <2>1. \A i \in DOMAIN os : as[i] \in Rows
      BY <1>2
    <2> HIDE DEF as
    <2> QED
      BY <1>1, <2>1, Mapped
  <1>5. ASSUME Matched(os, r) = {}
        PROVE  as = os
    <2>1. \A i \in DOMAIN os : as[i] = os[i]
      BY <1>2, <1>5 DEF TakenOf
    <2>2. os = [i \in DOMAIN os |-> os[i]]
      BY OrderRows
    <2> HIDE DEF as
    <2> QED
      BY <1>1, <2>1, <2>2
  <1> QED
    BY <1>1, <1>2, <1>3, <1>4, <1>5

\* A match leaves the other prices as they were, raises no offer, and takes off
\* the offers of a seller at least what it gives.
LEMMA TotalsAfterFills ==
    ASSUME NEW os \in Seq(Rows), NEW r, r.volume \in Nat, r.user \in Users
    PROVE  /\ \A k : k # MatchKey(r) => VolumeAt(AfterFills(os, r), k) = VolumeAt(os, k)
           /\ SumOver(DOMAIN os, OnSale(AfterFills(os, r))) <= SumOver(DOMAIN os, OnSale(os))
           /\ \A u : /\ LiveSell(AfterFills(os, r), u) <= LiveSell(os, u)
                     /\ Side(r) = "BUY" =>
                           LiveSell(AfterFills(os, r), u) + Given(Fills(os, r), u)
                             <= LiveSell(os, u)
  <1> DEFINE as == AfterFills(os, r)
             t == TakenOf(os, r)
  <1>1. as \in Seq(Rows) /\ DOMAIN as = DOMAIN os
    BY OrdersAfterFills
  <1>2. \A i \in DOMAIN os :
           /\ as[i].user = os[i].user /\ as[i].side = os[i].side /\ as[i].amount = os[i].amount
           /\ as[i].volume \in Nat /\ os[i].volume \in Nat /\ t[i] \in Nat
           /\ os[i].volume = as[i].volume + t[i]
           /\ t[i] # 0 => <<os[i].side, os[i].amount>> = MatchKey(r)
    <2> SUFFICES ASSUME NEW i \in DOMAIN os
                 PROVE  /\ as[i].user = os[i].user /\ as[i].side = os[i].side
                        /\ as[i].amount = os[i].amount
                        /\ as[i].volume \in Nat /\ os[i].volume \in Nat /\ t[i] \in Nat
                        /\ os[i].volume = as[i].volume + t[i]
                        /\ t[i] # 0 => <<os[i].side, os[i].amount>> = MatchKey(r)
      OBVIOUS
    <2>1. os[i].volume \in Nat /\ t[i] \in Nat
      BY OrderRows, TakenTyped
    <2> QED
      BY <2>1, OrdersAfterFills
  <1>3. IsFiniteSet(DOMAIN os)
    BY OrderRows
  <1> HIDE DEF as, t
  <1>8. \A i \in DOMAIN os :
           /\ as[i].volume <= os[i].volume
           /\ t[i] = 0 => as[i].volume = os[i].volume
    <2>1. \A a, b, c \in Nat : a = b + c => b <= a /\ (c = 0 => b = a)
      OBVIOUS
    <2> QED
      BY <1>2, <2>1
  <1>9. \A a, b, c \in Nat : b = a + c => /\ a <= b /\ 0 <= 0
                                          /\ 0 \in Nat /\ a + 0 \in Nat /\ a + 0 <= b
                                          /\ a + c \in Nat /\ a + c <= b
    OBVIOUS
  <1>4. ASSUME NEW k, k # MatchKey(r)
        PROVE  VolumeAt(as, k) = VolumeAt(os, k)
    <2>1. ASSUME NEW i \in DOMAIN os
          PROVE  AtKey(as, k)[i] = AtKey(os, k)[i]
      <3>1. i \in DOMAIN as /\ as[i].side = os[i].side /\ as[i].amount = os[i].amount
        BY <1>1, <1>2
      <3>2. <<os[i].side, os[i].amount>> = k => as[i].volume = os[i].volume
        BY <1>2, <1>4, <1>8
      <3> QED
        BY <3>1, <3>2 DEF AtKey
    <2>2. SumOver(DOMAIN os, AtKey(as, k)) = SumOver(DOMAIN os, AtKey(os, k))
      BY <2>1, SumSame
    <2> QED
      BY <1>1, <2>2, VolumeTotal
  <1>5. SumOver(DOMAIN os, OnSale(as)) <= SumOver(DOMAIN os, OnSale(os))
    <2>1. \A i \in DOMAIN os : OnSale(as)[i] \in Nat /\ OnSale(os)[i] \in Nat
      BY <1>1, ColumnsTyped
    <2>2. ASSUME NEW i \in DOMAIN os
          PROVE  OnSale(as)[i] <= OnSale(os)[i]
      <3>1. i \in DOMAIN as /\ as[i].side = os[i].side
        BY <1>1, <1>2
      <3>2. /\ as[i].volume \in Nat /\ os[i].volume \in Nat /\ t[i] \in Nat
            /\ os[i].volume = as[i].volume + t[i]
        BY <1>2, Zenon
      <3>3. PICK a, b, c \in Nat : a = as[i].volume /\ b = os[i].volume /\ b = a + c
        BY <3>2, Zenon
      <3>4. /\ OnSale(as)[i] = IF os[i].side = "SELL" THEN as[i].volume ELSE 0
            /\ OnSale(os)[i] = IF os[i].side = "SELL" THEN os[i].volume ELSE 0
        BY <3>1 DEF OnSale
      <3>5. a <= b /\ 0 <= 0
        BY <3>3, <1>9
      <3> QED
        BY <3>3, <3>4, <3>5, Zenon
    <2> QED
      BY <1>3, <2>1, <2>2, SumLess
  <1>6. ASSUME NEW u
        PROVE  LiveSell(as, u) <= LiveSell(os, u)
    <2>1. \A i \in DOMAIN os : SoldBy(as, u)[i] \in Nat /\ SoldBy(os, u)[i] \in Nat
      BY <1>1, ColumnsTyped
    <2>2. ASSUME NEW i \in DOMAIN os
          PROVE  SoldBy(as, u)[i] <= SoldBy(os, u)[i]
      <3>1. i \in DOMAIN as /\ as[i].side = os[i].side /\ as[i].user = os[i].user
        BY <1>1, <1>2
      <3>2. /\ as[i].volume \in Nat /\ os[i].volume \in Nat /\ t[i] \in Nat
            /\ os[i].volume = as[i].volume + t[i]
        BY <1>2, Zenon
      <3>3. PICK a, b, c \in Nat : a = as[i].volume /\ b = os[i].volume /\ b = a + c
        BY <3>2, Zenon
      <3>4. /\ SoldBy(as, u)[i] = IF os[i].side = "SELL" /\ os[i].user = u THEN as[i].volume ELSE 0
            /\ SoldBy(os, u)[i] = IF os[i].side = "SELL" /\ os[i].user = u THEN os[i].volume ELSE 0
        BY <3>1 DEF SoldBy
      <3>5. a <= b /\ 0 <= 0
        BY <3>3, <1>9
      <3> QED
        BY <3>3, <3>4, <3>5, Zenon
    <2>3. SumOver(DOMAIN os, SoldBy(as, u)) <= SumOver(DOMAIN os, SoldBy(os, u))
      BY <1>3, <2>1, <2>2, SumLess
    <2> QED
      BY <1>1, <2>3, LiveSellTotal
  <1>7. ASSUME NEW u, Side(r) = "BUY"
        PROVE  LiveSell(as, u) + Given(Fills(os, r), u) <= LiveSell(os, u)
    <2> DEFINE G == GivesFrom(os, r, u)
               g == [i \in DOMAIN os |-> IF i \in G THEN t[i] ELSE 0]
               h == [i \in DOMAIN os |-> SoldBy(as, u)[i] + g[i]]
    <2>1. G \in SUBSET DOMAIN os /\ \A i \in G : os[i].user = u
      <3>1. G \in SUBSET DOMAIN os
        BY MatchedTotal DEF GivesFrom
      <3> QED
        BY <1>7, <3>1, GivenBound
    <2>2. SumOver(DOMAIN os, g) = SumOver(G, t)
      <3>1. \A i \in DOMAIN os : g[i] = IF i \in G THEN t[i] ELSE 0
        OBVIOUS
      <3>2. \A i \in G : t[i] \in Nat
        BY <1>2, <2>1
      <3> HIDE DEF G, g
      <3> QED
        BY <1>3, <2>1, <3>1, <3>2, SumOfPart
    <2>3. Given(Fills(os, r), u) = SumOver(G, t)
      BY GivenTotal DEF t
    <2>4. \A i \in DOMAIN os : SoldBy(as, u)[i] \in Nat /\ SoldBy(os, u)[i] \in Nat
      BY <1>1, ColumnsTyped
    <2> HIDE DEF G
    <2>5. \A i \in DOMAIN os : g[i] = (IF i \in G THEN t[i] ELSE 0) /\ h[i] = SoldBy(as, u)[i] + g[i]
      OBVIOUS
    <2> HIDE DEF g, h
    <2>6. ASSUME NEW i \in DOMAIN os
          PROVE  g[i] \in Nat /\ h[i] \in Nat /\ h[i] <= SoldBy(os, u)[i]
      <3>1. t[i] # 0 => os[i].side = "SELL"
        BY <1>2, <1>7 DEF MatchKey, Opposite
      <3>2. /\ i \in DOMAIN as /\ as[i].side = os[i].side /\ as[i].user = os[i].user
            /\ os[i].volume = as[i].volume + t[i] /\ t[i] \in Nat /\ as[i].volume \in Nat
            /\ os[i].volume \in Nat
        BY <1>1, <1>2
      <3>3. SoldBy(as, u)[i] = IF os[i].side = "SELL" /\ os[i].user = u THEN as[i].volume ELSE 0
        BY <3>2 DEF SoldBy
      <3>4. SoldBy(os, u)[i] = IF os[i].side = "SELL" /\ os[i].user = u THEN os[i].volume ELSE 0
        BY DEF SoldBy
      <3>5. g[i] \in Nat /\ (g[i] = 0 \/ (g[i] = t[i] /\ os[i].user = u))
        <4>1. i \in G => os[i].user = u
          BY <2>1
        <4>2. g[i] = IF i \in G THEN t[i] ELSE 0
          BY <2>5
        <4> QED
          BY <3>2, <4>1, <4>2
      <3>6. h[i] = SoldBy(as, u)[i] + g[i]
        BY <2>5
      <3>7. PICK a, b, c \in Nat : a = as[i].volume /\ b = os[i].volume /\ c = t[i] /\ b = a + c
        BY <3>2, Zenon
      <3>8. PICK d \in Nat : d = g[i] /\ (d = 0 \/ (d = c /\ os[i].user = u))
        BY <3>5, <3>7
      <3>9. CASE os[i].side = "SELL" /\ os[i].user = u
        <4>1. SoldBy(as, u)[i] = a /\ SoldBy(os, u)[i] = b /\ h[i] = a + d
          BY <3>3, <3>4, <3>6, <3>7, <3>8, <3>9
        <4>2. d \in Nat /\ a + d \in Nat /\ a + d <= b
          BY <3>7, <3>8, <1>9
        <4> QED
          BY <3>8, <4>1, <4>2, Zenon
      <3>10. CASE ~(os[i].side = "SELL" /\ os[i].user = u)
        <4>1. d = 0 /\ SoldBy(as, u)[i] = 0 /\ SoldBy(os, u)[i] = 0 /\ h[i] = 0 + d
          BY <3>1, <3>3, <3>4, <3>6, <3>7, <3>8, <3>10
        <4> QED
          BY <3>8, <4>1
      <3> QED
        BY <3>9, <3>10
    <2>7. SumOver(DOMAIN os, h) = SumOver(DOMAIN os, SoldBy(as, u)) + SumOver(DOMAIN os, g)
      <3>1. \A i \in DOMAIN os : SoldBy(as, u)[i] \in Nat
        BY <2>4
      <3>2. \A i \in DOMAIN os : g[i] \in Nat
        BY <2>6
      <3>3. \A i \in DOMAIN os : h[i] = SoldBy(as, u)[i] + g[i]
        BY <2>5
      <3> HIDE DEF SoldBy
      <3> QED
        BY <1>3, <3>1, <3>2, <3>3, SumPlus
    <2>8. SumOver(DOMAIN os, h) <= SumOver(DOMAIN os, SoldBy(os, u))
      BY <1>3, <2>4, <2>6, SumLess
    <2> QED
      BY <1>1, <2>2, <2>3, <2>7, <2>8, LiveSellTotal
  <1> QED
    BY <1>4, <1>5, <1>6, <1>7 DEF as

-----------------------------------------------------------------------------
(* What an answer leaves in the tables                                      *)

\* A transfer that every giver can cover keeps the number of shares.
LEMMA SharesTransferred ==
    ASSUME NEW fs, FillsOK(fs), shares \in [Users -> Nat], Transferable(fs)
    PROVE  /\ Transferred(fs) \in [Users -> Nat]
           /\ SumOver(Users, Transferred(fs)) = SumOver(Users, shares)
           /\ \A u \in Users : shares[u] <= Transferred(fs)[u] + Given(fs, u)
  <1> DEFINE gave == [u \in Users |-> Given(fs, u)]
             got == [u \in Users |-> Got(fs, u)]
             after == Transferred(fs)
             x == [u \in Users |-> shares[u] + Got(fs, u)]
             y == [u \in Users |-> after[u] + Given(fs, u)]
  <1>1. \A u \in Users : Given(fs, u) \in Nat /\ Got(fs, u) \in Nat
    BY GivenIsGot
  <1>2. SumOver(Users, gave) = SumOver(Users, got)
    BY GivenIsGot
  <1>3. IsFiniteSet(Users)
    BY ShareAssumption
  <1>4. ASSUME NEW u \in Users
        PROVE  /\ after[u] \in Nat /\ shares[u] <= after[u] + Given(fs, u)
               /\ shares[u] + Got(fs, u) = after[u] + Given(fs, u)
               /\ x[u] = shares[u] + got[u] /\ y[u] = after[u] + gave[u] /\ x[u] = y[u]
               /\ shares[u] \in Nat /\ gave[u] \in Nat /\ got[u] \in Nat
    <2>1. PICK a, b, c \in Nat : a = shares[u] /\ b = Given(fs, u) /\ c = Got(fs, u) /\ b <= a
      BY <1>1 DEF Transferable
    <2>2. after[u] = a + c - b
      BY <2>1 DEF Transferred
    <2>3. a + c - b \in Nat /\ a <= (a + c - b) + b /\ a + c = (a + c - b) + b
      BY <2>1
    <2>4. x[u] = a + c /\ y[u] = (a + c - b) + b /\ gave[u] = b /\ got[u] = c
      BY <2>1, <2>2
    <2> HIDE DEF after, gave, got, x, y
    <2> QED
      BY <2>1, <2>2, <2>3, <2>4
  <1>5. after \in [Users -> Nat]
    BY <1>4 DEF Transferred
  <1> HIDE DEF gave, got, after, x, y
  <1>6. SumOver(Users, x) = SumOver(Users, shares) + SumOver(Users, got)
    <2>1. \A u \in Users : shares[u] \in Nat /\ got[u] \in Nat /\ x[u] = shares[u] + got[u]
      BY <1>4
    <2> QED
      BY <1>3, <2>1, SumPlus
  <1>7. SumOver(Users, y) = SumOver(Users, after) + SumOver(Users, gave)
    <2>1. \A u \in Users : after[u] \in Nat /\ gave[u] \in Nat /\ y[u] = after[u] + gave[u]
      BY <1>4
    <2> QED
      BY <1>3, <2>1, SumPlus
  <1>8. SumOver(Users, x) = SumOver(Users, y)
    BY <1>4, SumSame
  <1>9. /\ SumOver(Users, shares) \in Nat /\ SumOver(Users, after) \in Nat
        /\ SumOver(Users, got) \in Nat /\ SumOver(Users, gave) \in Nat
    <2>1. \A u \in Users : shares[u] \in Nat /\ after[u] \in Nat /\ got[u] \in Nat /\ gave[u] \in Nat
      BY <1>4
    <2> QED
      BY <1>3, <2>1, SumNat
  <1>10. SumOver(Users, after) = SumOver(Users, shares)
    <2>1. \A a, b, c, d \in Nat : a + c = b + d /\ d = c => b = a
      OBVIOUS
    <2> QED
      BY <1>2, <1>6, <1>7, <1>8, <1>9, <2>1
  <1> QED
    BY <1>4, <1>5, <1>10 DEF after

Opened(os, x) == Append(os, x)

\* An order that is opened adds its volume at its price, and to what is on sale.
LEMMA OrderOpened ==
    ASSUME NEW os \in Seq(Rows), NEW x \in Rows
    PROVE  /\ Opened(os, x) \in Seq(Rows) /\ DOMAIN os \subseteq DOMAIN Opened(os, x)
           /\ \A k : k # <<x.side, x.amount>> => VolumeAt(Opened(os, x), k) = VolumeAt(os, k)
           /\ SumOver(DOMAIN Opened(os, x), OnSale(Opened(os, x)))
                = SumOver(DOMAIN os, OnSale(os)) + (IF x.side = "SELL" THEN x.volume ELSE 0)
           /\ \A u : LiveSell(Opened(os, x), u)
                = LiveSell(os, u) + (IF x.side = "SELL" /\ x.user = u THEN x.volume ELSE 0)
  <1> DEFINE n == Len(os) + 1
             D == DOMAIN os
             ts == Opened(os, x)
  <1>1. /\ ts \in Seq(Rows) /\ n \notin D /\ DOMAIN ts = D \cup {n}
        /\ ts[n] = x /\ \A j \in D : ts[j] = os[j]
    BY Appended DEF Opened
  <1>2. IsFiniteSet(DOMAIN ts) /\ DOMAIN ts \ {n} = D /\ n \in DOMAIN ts
    BY <1>1, OrderRows
  <1> HIDE DEF n, D, ts
  <1>3. ASSUME NEW f, \A i \in DOMAIN ts : f[i] \in Nat,
               NEW g, \A i \in D : f[i] = g[i]
        PROVE  SumOver(DOMAIN ts, f) = SumOver(D, g) + f[n]
    <2>1. SumOver(DOMAIN ts, f) = SumOver(DOMAIN ts \ {n}, f) + f[n]
      BY <1>2, <1>3, SumSplit
    <2>2. SumOver(D, f) = SumOver(D, g)
      BY <1>3, SumSame
    <2> QED
      BY <1>2, <2>1, <2>2
  <1>4. ASSUME NEW k, k # <<x.side, x.amount>>
        PROVE  VolumeAt(ts, k) = VolumeAt(os, k)
    <2>1. \A i \in DOMAIN ts : AtKey(ts, k)[i] \in Nat
      BY <1>1, ColumnsTyped
    <2>2. \A i \in D : AtKey(ts, k)[i] = AtKey(os, k)[i]
      BY <1>1 DEF AtKey, D
    <2>3. AtKey(ts, k)[n] = 0
      BY <1>1, <1>4 DEF AtKey
    <2>4. SumOver(DOMAIN ts, AtKey(ts, k)) = SumOver(D, AtKey(os, k)) + 0
      BY <1>3, <2>1, <2>2, <2>3
    <2>5. /\ VolumeAt(ts, k) = SumOver(DOMAIN ts, AtKey(ts, k))
          /\ VolumeAt(os, k) = SumOver(D, AtKey(os, k)) /\ VolumeAt(os, k) \in Nat
      BY <1>1, VolumeTotal DEF D
    <2> QED
      BY <2>4, <2>5
  <1>5. SumOver(DOMAIN ts, OnSale(ts))
          = SumOver(D, OnSale(os)) + (IF x.side = "SELL" THEN x.volume ELSE 0)
    <2>1. \A i \in DOMAIN ts : OnSale(ts)[i] \in Nat
      BY <1>1, ColumnsTyped
    <2>2. \A i \in D : OnSale(ts)[i] = OnSale(os)[i]
      BY <1>1 DEF OnSale, D
    <2>3. OnSale(ts)[n] = IF x.side = "SELL" THEN x.volume ELSE 0
      BY <1>1 DEF OnSale
    <2> QED
      BY <1>3, <2>1, <2>2, <2>3
  <1>6. ASSUME NEW u
        PROVE  LiveSell(ts, u)
                 = LiveSell(os, u) + (IF x.side = "SELL" /\ x.user = u THEN x.volume ELSE 0)
    <2>1. \A i \in DOMAIN ts : SoldBy(ts, u)[i] \in Nat
      BY <1>1, ColumnsTyped
    <2>2. \A i \in D : SoldBy(ts, u)[i] = SoldBy(os, u)[i]
      BY <1>1 DEF SoldBy, D
    <2>3. SoldBy(ts, u)[n] = IF x.side = "SELL" /\ x.user = u THEN x.volume ELSE 0
      BY <1>1 DEF SoldBy
    <2>4. SumOver(DOMAIN ts, SoldBy(ts, u)) = SumOver(D, SoldBy(os, u)) + SoldBy(ts, u)[n]
      BY <1>3, <2>1, <2>2
    <2>5. /\ LiveSell(ts, u) = SumOver(DOMAIN ts, SoldBy(ts, u))
          /\ LiveSell(os, u) = SumOver(D, SoldBy(os, u))
      BY <1>1, LiveSellTotal DEF D
    <2> QED
      BY <2>3, <2>4, <2>5
  <1> QED
    BY <1>1, <1>4, <1>5, <1>6 DEF D, ts

RowSet(os, i, x) == [os EXCEPT ![i] = x]

\* An order that is changed moves its volume from its old price to its new one.
LEMMA OrderChanged ==
    ASSUME NEW os \in Seq(Rows), NEW i \in DOMAIN os, NEW x \in Rows,
           x.user = os[i].user, x.side = os[i].side
    PROVE  /\ RowSet(os, i, x) \in Seq(Rows) /\ DOMAIN RowSet(os, i, x) = DOMAIN os
           /\ \A k : k \notin {<<x.side, x.amount>>, <<os[i].side, os[i].amount>>} =>
                        VolumeAt(RowSet(os, i, x), k) = VolumeAt(os, k)
           /\ SumOver(DOMAIN RowSet(os, i, x), OnSale(RowSet(os, i, x))) =
                 IF x.side = "SELL" THEN SumOver(DOMAIN os, OnSale(os)) - os[i].volume + x.volume
                 ELSE SumOver(DOMAIN os, OnSale(os))
           /\ \A u : LiveSell(RowSet(os, i, x), u) =
                 IF x.side = "SELL" /\ x.user = u THEN LiveSell(os, u) - os[i].volume + x.volume
                 ELSE LiveSell(os, u)
  <1> DEFINE D == DOMAIN os
             ts == RowSet(os, i, x)
  <1>1. /\ ts \in Seq(Rows) /\ DOMAIN ts = D
        /\ ts[i] = x /\ \A j \in D \ {i} : ts[j] = os[j]
    BY Replaced DEF RowSet
  <1>2. IsFiniteSet(D) /\ i \in D /\ os[i].volume \in Nat /\ x.volume \in Nat
    BY OrderRows DEF Rows
  <1> HIDE DEF D, ts
  <1>3. ASSUME NEW f, \A j \in D : f[j] \in Nat,
               NEW g, \A j \in D : g[j] \in Nat, \A j \in D \ {i} : f[j] = g[j]
        PROVE  /\ SumOver(D, f) = SumOver(D, g) - g[i] + f[i]
               /\ f[i] = g[i] => SumOver(D, f) = SumOver(D, g)
               /\ SumOver(D, g) \in Nat
    <2>1. SumOver(D, f) = SumOver(D, g) - g[i] + f[i]
      <3>1. IsFiniteSet(D) /\ i \in D
        BY <1>2
      <3> QED
        BY <1>3, <3>1, SumChange
    <2>2. SumOver(D, g) \in Nat
      BY <1>2, <1>3, SumNat
    <2>3. \A a, b \in Nat : a - b + b = a
      OBVIOUS
    <2>4. g[i] \in Nat
      BY <1>2, <1>3
    <2> QED
      BY <2>1, <2>2, <2>3, <2>4
  <1>4. ASSUME NEW k, k \notin {<<x.side, x.amount>>, <<os[i].side, os[i].amount>>}
        PROVE  VolumeAt(ts, k) = VolumeAt(os, k)
    <2>1. \A j \in D : AtKey(ts, k)[j] \in Nat /\ AtKey(os, k)[j] \in Nat
      BY <1>1, ColumnsTyped DEF D
    <2>2. \A j \in D \ {i} : AtKey(ts, k)[j] = AtKey(os, k)[j]
      BY <1>1 DEF AtKey, D
    <2>3. AtKey(ts, k)[i] = AtKey(os, k)[i]
      BY <1>1, <1>2, <1>4 DEF AtKey, D
    <2>4. SumOver(D, AtKey(ts, k)) = SumOver(D, AtKey(os, k))
      BY <1>3, <2>1, <2>2, <2>3
    <2> QED
      BY <1>1, <2>4, VolumeTotal DEF D
  <1>5. SumOver(D, OnSale(ts)) =
           IF x.side = "SELL" THEN SumOver(D, OnSale(os)) - os[i].volume + x.volume
           ELSE SumOver(D, OnSale(os))
    <2>1. \A j \in D : OnSale(ts)[j] \in Nat /\ OnSale(os)[j] \in Nat
      BY <1>1, ColumnsTyped DEF D
    <2>2. \A j \in D \ {i} : OnSale(ts)[j] = OnSale(os)[j]
      BY <1>1 DEF OnSale, D
    <2>3. /\ OnSale(ts)[i] = IF x.side = "SELL" THEN x.volume ELSE 0
          /\ OnSale(os)[i] = IF x.side = "SELL" THEN os[i].volume ELSE 0
      BY <1>1, <1>2 DEF OnSale, D
    <2>4. /\ SumOver(D, OnSale(ts)) = SumOver(D, OnSale(os)) - OnSale(os)[i] + OnSale(ts)[i]
          /\ OnSale(ts)[i] = OnSale(os)[i] => SumOver(D, OnSale(ts)) = SumOver(D, OnSale(os))
      BY <1>3, <2>1, <2>2
    <2> QED
      BY <2>3, <2>4
  <1>6. ASSUME NEW u
        PROVE  LiveSell(ts, u) =
                 IF x.side = "SELL" /\ x.user = u THEN LiveSell(os, u) - os[i].volume + x.volume
                 ELSE LiveSell(os, u)
    <2>1. \A j \in D : SoldBy(ts, u)[j] \in Nat /\ SoldBy(os, u)[j] \in Nat
      BY <1>1, ColumnsTyped DEF D
    <2>2. \A j \in D \ {i} : SoldBy(ts, u)[j] = SoldBy(os, u)[j]
      BY <1>1 DEF SoldBy, D
    <2>3. /\ SoldBy(ts, u)[i] = IF x.side = "SELL" /\ x.user = u THEN x.volume ELSE 0
          /\ SoldBy(os, u)[i] = IF x.side = "SELL" /\ x.user = u THEN os[i].volume ELSE 0
      BY <1>1, <1>2 DEF SoldBy, D
    <2>4. /\ SumOver(D, SoldBy(ts, u)) = SumOver(D, SoldBy(os, u)) - SoldBy(os, u)[i] + SoldBy(ts, u)[i]
          /\ SoldBy(ts, u)[i] = SoldBy(os, u)[i] => SumOver(D, SoldBy(ts, u)) = SumOver(D, SoldBy(os, u))
      BY <1>3, <2>1, <2>2
    <2>5. /\ LiveSell(ts, u) = SumOver(D, SoldBy(ts, u))
          /\ LiveSell(os, u) = SumOver(D, SoldBy(os, u))
      BY <1>1, LiveSellTotal DEF D
    <2> QED
      BY <2>3, <2>4, <2>5
  <1> QED
    BY <1>1, <1>4, <1>5, <1>6 DEF D, ts

\* The total of what is on sale.
OnSaleTotal(os) == SumOver(DOMAIN os, OnSale(os))

\* What a match can answer: nothing is transferred; or the request is matched;
\* or it is matched and the rest of it opened.
LEMMA MatchCases ==
    ASSUME NEW os \in Seq(Rows), NEW r, r.user \in Users, r.volume \in Nat, r.amount \in Amounts,
           NEW opens \in BOOLEAN, NEW funded \in BOOLEAN
    PROVE  LET fs == Fills(os, r)
           IN  \/ Match(os, r, opens, funded) = Outcome(os, shares, FALSE, fs, 0)
               \/ /\ Transferable(fs)
                  /\ Match(os, r, opens, funded)
                       = Outcome(AfterFills(os, r), Transferred(fs), TRUE, fs, 0)
               \/ /\ Transferable(fs) /\ opens
                  /\ \E x \in Rows :
                        /\ x.user = r.user /\ x.side = Side(r) /\ x.amount = r.amount
                        /\ x.volume > 0 /\ x.volume <= r.volume
                        /\ Match(os, r, opens, funded)
                             = Outcome(Opened(AfterFills(os, r), x), Transferred(fs), TRUE,
                                       fs, x.volume)
  <1> DEFINE fs == Fills(os, r)
             rest == r.volume - MatchedVolume(os, r)
             x == [user |-> r.user, side |-> Side(r), amount |-> r.amount, volume |-> rest]
  <1>1. rest \in Nat /\ rest <= r.volume
    BY MatchedTotal
  <1> HIDE DEF rest
  <1>2. x \in Rows
    BY <1>1 DEF Rows, Side, Sides
  <1>3. rest # 0 => rest > 0
    BY <1>1
  <1>4. \/ Match(os, r, opens, funded) = Outcome(os, shares, FALSE, fs, 0)
        \/ /\ Transferable(fs)
           /\ Match(os, r, opens, funded)
                = Outcome(AfterFills(os, r), Transferred(fs), TRUE, fs, 0)
        \/ /\ Transferable(fs) /\ opens /\ rest # 0
           /\ Match(os, r, opens, funded)
                = Outcome(Opened(AfterFills(os, r), x), Transferred(fs), TRUE, fs, rest)
    BY Zenon DEF Match, rest, Opened
  <1>5. x.user = r.user /\ x.side = Side(r) /\ x.amount = r.amount /\ x.volume = rest
    OBVIOUS
  <1> HIDE DEF x, fs
  <1>6. ASSUME /\ Transferable(fs) /\ opens /\ rest # 0
               /\ Match(os, r, opens, funded)
                    = Outcome(Opened(AfterFills(os, r), x), Transferred(fs), TRUE, fs, rest)
        PROVE  \E y \in Rows :
                  /\ y.user = r.user /\ y.side = Side(r) /\ y.amount = r.amount
                  /\ y.volume > 0 /\ y.volume <= r.volume
                  /\ Match(os, r, opens, funded)
                       = Outcome(Opened(AfterFills(os, r), y), Transferred(fs), TRUE,
                                 fs, y.volume)
    <2>1. x.volume > 0 /\ x.volume <= r.volume
      BY <1>1, <1>3, <1>5, <1>6
    <2> QED
      BY <1>2, <1>5, <1>6, <2>1
  <1> QED
    BY <1>4, <1>6 DEF fs

\* The prices at which a match changes the orders.
ChangesAt(os, r, out) ==
    \A k : VolumeAt(out.orders, k) # VolumeAt(os, k) =>
              \/ k = MatchKey(r) /\ out.fills # <<>>
              \/ k = OwnKey(r) /\ out.opened > 0

\* What a match leaves: typed tables with all shares; changes only where it
\* took from orders or opened one; no more on sale than what it opens; and a
\* user that gives shares has as much less on offer, but for who sells.
LEMMA MatchOutcome ==
    ASSUME NEW os \in Seq(Rows), shares \in [Users -> Nat],
           NEW r, r.user \in Users, r.volume \in Nat, r.amount \in Amounts,
           NEW opens \in BOOLEAN, NEW funded \in BOOLEAN,
           NEW out, out = Match(os, r, opens, funded)
    PROVE  /\ out.orders \in Seq(Rows) /\ DOMAIN os \subseteq DOMAIN out.orders
           /\ out.ok \in BOOLEAN /\ FillsOK(out.fills)
           /\ out.shares \in [Users -> Nat]
           /\ SumOver(Users, out.shares) = SumOver(Users, shares)
           /\ ChangesAt(os, r, out)
           /\ OnSaleTotal(out.orders)
                <= OnSaleTotal(os) + (IF opens /\ Side(r) = "SELL" THEN r.volume ELSE 0)
           /\ \A u \in Users :
                 /\ shares[u] <= out.shares[u] + r.volume
                 /\ Side(r) = "BUY" \/ u # r.user =>
                       LiveSell(out.orders, u) + shares[u] <= LiveSell(os, u) + out.shares[u]
  <1> DEFINE fs == Fills(os, r)
             as == AfterFills(os, r)
             sh == Transferred(fs)
  <1>1. \A a, b, c \in Nat : a <= b => a <= b + 0 /\ a <= b + c /\ a + c <= b + c
    OBVIOUS
  <1>2. FillsOK(fs) /\ (fs = <<>> => as = os)
    <2>1. FillsOK(fs) /\ (fs = <<>> => Matched(os, r) = {})
      BY FillsListed
    <2>2. Matched(os, r) = {} => as = os
      BY OrdersAfterFills
    <2> QED
      BY <2>1, <2>2
  <1>3. as \in Seq(Rows) /\ DOMAIN as = DOMAIN os
    BY OrdersAfterFills
  <1>4. /\ OnSaleTotal(as) <= OnSaleTotal(os) /\ OnSaleTotal(as) \in Nat /\ OnSaleTotal(os) \in Nat
    <2>1. SumOver(DOMAIN os, OnSale(as)) <= SumOver(DOMAIN os, OnSale(os))
      BY TotalsAfterFills
    <2>2. \A ts \in Seq(Rows) : OnSaleTotal(ts) \in Nat
      <3> TAKE ts \in Seq(Rows)
      <3> QED
        BY OrderRows, ColumnsTyped, SumNat DEF OnSaleTotal
    <2> QED
      BY <1>3, <2>1, <2>2 DEF OnSaleTotal
  <1>5. \A k : VolumeAt(as, k) # VolumeAt(os, k) => k = MatchKey(r) /\ fs # <<>>
    BY <1>2, TotalsAfterFills
  <1>6. ASSUME Transferable(fs)
        PROVE  /\ sh \in [Users -> Nat] /\ SumOver(Users, sh) = SumOver(Users, shares)
               /\ \A u \in Users :
                     /\ shares[u] <= sh[u] + r.volume
                     /\ Side(r) = "BUY" \/ u # r.user =>
                           LiveSell(as, u) + shares[u] <= LiveSell(os, u) + sh[u]
    <2>1. /\ sh \in [Users -> Nat] /\ SumOver(Users, sh) = SumOver(Users, shares)
          /\ \A u \in Users : shares[u] <= sh[u] + Given(fs, u)
      BY <1>2, <1>6, SharesTransferred
    <2>2. ASSUME NEW u \in Users
          PROVE  /\ shares[u] <= sh[u] + r.volume
                 /\ Side(r) = "BUY" \/ u # r.user =>
                       LiveSell(as, u) + shares[u] <= LiveSell(os, u) + sh[u]
      <3>1. PICK a, b, g \in Nat : /\ a = shares[u] /\ b = sh[u] /\ g = Given(fs, u)
                                   /\ a <= b + g
        BY <2>1, GivenBound
      <3>2. PICK l, m \in Nat : /\ l = LiveSell(os, u) /\ m = LiveSell(as, u) /\ m <= l
                                /\ Side(r) = "BUY" => m + g <= l
        BY <1>3, <3>1, LiveSellTotal, TotalsAfterFills
      <3>3. PICK v \in Nat : v = r.volume /\ g <= v
        BY <3>1, GivenBound
      <3>4. Side(r) # "BUY" /\ u # r.user => g = 0
        BY <3>1, GivenBound DEF Side
      <3>5. a <= b + v
        BY <3>1, <3>3
      <3>6. Side(r) = "BUY" \/ u # r.user => m + a <= l + b
        BY <3>1, <3>2, <3>4, GivesLess, Zenon
      <3> QED
        BY <3>1, <3>2, <3>3, <3>5, <3>6, Zenon
    <2> QED
      BY <2>1, <2>2
  <1>7. PICK v \in Nat : v = r.volume
    OBVIOUS
  <1>11. \/ out = Outcome(os, shares, FALSE, fs, 0)
         \/ Transferable(fs) /\ out = Outcome(as, sh, TRUE, fs, 0)
         \/ /\ Transferable(fs) /\ opens
            /\ \E x \in Rows :
                  /\ x.user = r.user /\ x.side = Side(r) /\ x.amount = r.amount
                  /\ x.volume > 0 /\ x.volume <= r.volume
                  /\ out = Outcome(Opened(as, x), sh, TRUE, fs, x.volume)
    BY MatchCases, Zenon
  <1> HIDE DEF fs, as, sh
  <1>8. CASE out = Outcome(os, shares, FALSE, fs, 0)
    <2>1. /\ out.orders = os /\ out.shares = shares /\ out.ok = FALSE
          /\ out.fills = fs /\ out.opened = 0
      BY <1>8 DEF Outcome
    <2>2. \A a, n \in Nat : n <= n + 0 /\ n <= n + a /\ a + n <= a + n
      OBVIOUS
    <2>3. \A u \in Users : shares[u] \in Nat /\ LiveSell(os, u) \in Nat
      BY LiveSellTotal
    <2>4. OnSaleTotal(os) <= OnSaleTotal(os) + (IF opens /\ Side(r) = "SELL" THEN r.volume ELSE 0)
      BY <1>4, <1>7, <2>2, Zenon
    <2> QED
      BY <1>2, <1>7, <2>1, <2>2, <2>3, <2>4, Zenon DEF ChangesAt
  <1>9. CASE Transferable(fs) /\ out = Outcome(as, sh, TRUE, fs, 0)
    <2>1. /\ out.orders = as /\ out.shares = sh /\ out.ok = TRUE
          /\ out.fills = fs /\ out.opened = 0
      BY <1>9 DEF Outcome
    <2>2. OnSaleTotal(as) <= OnSaleTotal(os) + (IF opens /\ Side(r) = "SELL" THEN r.volume ELSE 0)
      BY <1>1, <1>4, <1>7, Zenon
    <2> QED
      BY <1>2, <1>3, <1>5, <1>6, <1>9, <2>1, <2>2, Zenon DEF ChangesAt
  <1>10. CASE /\ Transferable(fs) /\ opens
              /\ \E x \in Rows :
                    /\ x.user = r.user /\ x.side = Side(r) /\ x.amount = r.amount
                    /\ x.volume > 0 /\ x.volume <= r.volume
                    /\ out = Outcome(Opened(as, x), sh, TRUE, fs, x.volume)
    <2>1. PICK x \in Rows :
             /\ x.user = r.user /\ x.side = Side(r) /\ x.amount = r.amount
             /\ x.volume > 0 /\ x.volume <= r.volume
             /\ out = Outcome(Opened(as, x), sh, TRUE, fs, x.volume)
      BY <1>10
    <2> DEFINE ts == Opened(as, x)
    <2>2. /\ out.orders = ts /\ out.shares = sh /\ out.ok = TRUE
          /\ out.fills = fs /\ out.opened = x.volume
      <3>1. out = Outcome(ts, sh, TRUE, fs, x.volume)
        BY <2>1
      <3> HIDE DEF ts
      <3> QED
        BY <3>1 DEF Outcome
    <2>3. /\ ts \in Seq(Rows) /\ DOMAIN as \subseteq DOMAIN ts
          /\ \A k : k # <<x.side, x.amount>> => VolumeAt(ts, k) = VolumeAt(as, k)
          /\ OnSaleTotal(ts) = OnSaleTotal(as) + (IF x.side = "SELL" THEN x.volume ELSE 0)
          /\ \A u : LiveSell(ts, u)
                = LiveSell(as, u) + (IF x.side = "SELL" /\ x.user = u THEN x.volume ELSE 0)
      BY <1>3, OrderOpened DEF OnSaleTotal
    <2> HIDE DEF ts
    <2>4. <<x.side, x.amount>> = OwnKey(r)
      BY <2>1 DEF OwnKey
    <2>5. OnSaleTotal(ts) <= OnSaleTotal(os) + (IF opens /\ Side(r) = "SELL" THEN r.volume ELSE 0)
      <3>1. PICK w \in Nat : w = x.volume /\ w <= v
        BY <1>7, <2>1 DEF Rows
      <3>2. \A a, b \in Nat : a <= b => a + w <= b + v /\ a + 0 <= b + 0
        BY <1>7, <3>1
      <3>3. CASE Side(r) = "SELL"
        BY <1>4, <1>7, <1>10, <2>1, <2>3, <3>1, <3>2, <3>3, Zenon
      <3>4. CASE Side(r) # "SELL"
        BY <1>4, <1>7, <1>10, <2>1, <2>3, <3>1, <3>2, <3>4, Zenon
      <3> QED
        BY <3>3, <3>4
    <2>6. ASSUME NEW u \in Users, Side(r) = "BUY" \/ u # r.user
          PROVE  LiveSell(ts, u) + shares[u] <= LiveSell(os, u) + sh[u]
      <3>1. ~(x.side = "SELL" /\ x.user = u)
        BY <2>1, <2>6 DEF Side
      <3>2. LiveSell(ts, u) = LiveSell(as, u)
        <4>1. PICK n \in Nat : n = LiveSell(as, u)
          BY <1>3, LiveSellTotal
        <4>2. LiveSell(ts, u) = n + 0
          BY <2>3, <3>1, <4>1, Zenon
        <4> QED
          BY <4>1, <4>2, NothingMore, Zenon
      <3> QED
        BY <1>6, <1>10, <2>6, <3>2, Zenon
    <2>7. DOMAIN os \subseteq DOMAIN ts
      BY <1>3, <2>3
    <2>8. \A k : VolumeAt(ts, k) # VolumeAt(os, k) =>
                    \/ k = MatchKey(r) /\ fs # <<>>
                    \/ k = OwnKey(r) /\ x.volume > 0
      BY <1>5, <2>1, <2>3, <2>4, Zenon
    <2> QED
      BY <1>2, <1>6, <1>10, <2>2, <2>3, <2>5, <2>6, <2>7, <2>8, ZenonT(40) DEF ChangesAt
  <1> QED
    BY <1>8, <1>9, <1>10, <1>11

\* A request as it waits in the queue: an order that it names is there.
QueuedRequests ==
    [phase : {"queued"}, nr : Nat,
     kind : {"BUY", "SELL", "MODIFY_BUY", "MODIFY_SELL", "CANCEL"},
     user : Users, order : Nat, amount : Amounts \cup {0}, volume : Nat,
     was : Keys \cup {<<"SELL", 0>>}, fresh : BOOLEAN]
RequestOK(r) ==
    /\ r \in QueuedRequests
    /\ r.kind \in {"BUY", "SELL"} => r.order = 0 /\ r.amount \in Amounts
    /\ r.kind \in {"MODIFY_BUY", "MODIFY_SELL"} => r.amount \in Amounts
    /\ r.kind \notin {"BUY", "SELL"} =>
          r.order \in DOMAIN orders /\ r.order # 0 /\ r.was \in Keys

AnswerTyped(out) ==
    /\ out.orders \in Seq(Rows) /\ DOMAIN orders \subseteq DOMAIN out.orders
    /\ out.ok \in BOOLEAN /\ FillsOK(out.fills)
    /\ out.shares \in [Users -> Nat]
    /\ SumOver(Users, out.shares) = SumOver(Users, shares)
AnswerTold(r, out) ==
    /\ RowsToRead(r, out) \in Seq(Keys)
    /\ out.ok => \A k \in Keys : VolumeAt(out.orders, k) # VolumeAt(orders, k) =>
                    k \in ToSet(RowsToRead(r, out)) \cup Untold(r, out)
AnswerOffers(r, out) ==
    /\ \/ OnSaleTotal(out.orders) <= OnSaleTotal(orders)
       \/ r.kind = "SELL" /\ OnSaleTotal(out.orders) <= OnSaleTotal(orders) + r.volume
       \/ /\ r.kind = "MODIFY_SELL"
          /\ OnSaleTotal(out.orders) + orders[r.order].volume <= OnSaleTotal(orders) + r.volume
    /\ \A u \in Users :
          \/ LiveSell(out.orders, u) + shares[u] <= LiveSell(orders, u) + out.shares[u]
          \/ /\ u = r.user /\ r.kind \in {"SELL", "MODIFY_SELL"}
             /\ shares[u] <= out.shares[u] + r.volume

LEMMA RequestTyped ==
    ASSUME NEW r, RequestOK(r)
    PROVE  /\ r.user \in Users /\ r.volume \in Nat /\ r.fresh \in BOOLEAN
           /\ r.kind \in {"BUY", "SELL", "MODIFY_BUY", "MODIFY_SELL", "CANCEL"}
           /\ r.kind # "CANCEL" => /\ r.amount \in Amounts
                                   /\ OwnKey(r) \in Keys /\ MatchKey(r) \in Keys
  BY DEF RequestOK, QueuedRequests, OwnKey, MatchKey, Keys, Side, Sides, Opposite

\* A concatenation lists what its parts list.
LEMMA ConcatListed ==
    ASSUME NEW T, NEW s \in Seq(T), NEW t \in Seq(T)
    PROVE  s \o t \in Seq(T) /\ ToSet(s) \cup ToSet(t) \subseteq ToSet(s \o t)
  <1>1. /\ s \o t \in Seq(T) /\ Len(s \o t) = Len(s) + Len(t) /\ Len(s) \in Nat /\ Len(t) \in Nat
        /\ DOMAIN s = 1 .. Len(s) /\ DOMAIN t = 1 .. Len(t) /\ DOMAIN (s \o t) = 1 .. Len(s \o t)
    BY ConcatProperties, LenProperties
  <1>2. \A i \in DOMAIN s : i \in DOMAIN (s \o t) /\ (s \o t)[i] = s[i]
    BY <1>1, ConcatProperties
  <1>3. \A i \in DOMAIN t : Len(s) + i \in DOMAIN (s \o t) /\ (s \o t)[Len(s) + i] = t[i]
    BY <1>1, ConcatProperties
  <1> QED
    BY <1>1, <1>2, <1>3 DEF ToSet

\* The rows that are read after an answer.
LEMMA RowsRead ==
    ASSUME NEW r, RequestOK(r), NEW out
    PROVE  /\ RowsToRead(r, out) \in Seq(Keys)
           /\ r.kind \in {"BUY", "SELL"} =>
                 /\ out.opened > 0 => OwnKey(r) \in ToSet(RowsToRead(r, out))
                 /\ out.fills # <<>> => MatchKey(r) \in ToSet(RowsToRead(r, out))
           /\ r.kind \in {"MODIFY_BUY", "MODIFY_SELL"} =>
                 /\ OwnKey(r) \in ToSet(RowsToRead(r, out))
                 /\ r.was[1] = Side(r) => r.was \in ToSet(RowsToRead(r, out))
           /\ r.kind = "CANCEL" => r.was \in ToSet(RowsToRead(r, out))
  <1> DEFINE own == OwnKey(r)
             mk == MatchKey(r)
             old == <<Side(r), r.was[2]>>
  <1>1. \A a, b \in Keys : /\ <<a>> \in Seq(Keys) /\ <<a, b>> \in Seq(Keys)
                           /\ a \in ToSet(<<a>>) /\ a \in ToSet(<<a, b>>) /\ b \in ToSet(<<a, b>>)
    BY DEF ToSet
  <1>2. \A s, t \in Seq(Keys) : s \o t \in Seq(Keys) /\ ToSet(s) \cup ToSet(t) \subseteq ToSet(s \o t)
    BY ConcatListed
  <1>3. CASE r.kind \in {"BUY", "SELL"}
    <2>1. own \in Keys /\ mk \in Keys
      BY <1>3, RequestTyped
    <2>2. RowsToRead(r, out) = (IF out.opened > 0 THEN <<own>> ELSE <<>>)
                               \o (IF out.fills # <<>> THEN <<mk>> ELSE <<>>)
      BY <1>3 DEF RowsToRead, CreatedRows
    <2> DEFINE s == IF out.opened > 0 THEN <<own>> ELSE <<>>
               t == IF out.fills # <<>> THEN <<mk>> ELSE <<>>
    <2> HIDE DEF own, mk
    <2>3. /\ s \in Seq(Keys) /\ t \in Seq(Keys)
          /\ (out.opened > 0 => own \in ToSet(s)) /\ (out.fills # <<>> => mk \in ToSet(t))
      BY <1>1, <2>1, EmptySeq
    <2> HIDE DEF s, t
    <2>4. /\ s \o t \in Seq(Keys)
          /\ out.opened > 0 => own \in ToSet(s \o t)
          /\ out.fills # <<>> => mk \in ToSet(s \o t)
      BY <1>2, <2>3
    <2> QED
      BY <1>3, <2>2, <2>4 DEF own, mk, s, t
  <1>4. CASE r.kind \in {"MODIFY_BUY", "MODIFY_SELL"}
    <2>1. own \in Keys /\ r.was \in Keys
      BY <1>4, RequestTyped DEF RequestOK
    <2>2. RowsToRead(r, out) = IF r.was[2] # r.amount THEN <<own, old>> ELSE <<own>>
      BY <1>4 DEF RowsToRead, ModifiedRows
    <2>3. old \in Keys /\ (r.was[1] = Side(r) => r.was = old)
          /\ (r.was[2] = r.amount => old = own)
      BY <2>1 DEF Keys, Side, Sides, OwnKey
    <2> HIDE DEF own, old
    <2>4. /\ RowsToRead(r, out) \in Seq(Keys)
          /\ own \in ToSet(RowsToRead(r, out)) /\ old \in ToSet(RowsToRead(r, out))
      BY <1>1, <2>1, <2>2, <2>3, Zenon
    <2>5. r.was[1] = Side(r) => r.was \in ToSet(RowsToRead(r, out))
      BY <2>3, <2>4, Zenon
    <2> QED
      BY <1>4, <2>4, <2>5 DEF own
  <1>5. CASE r.kind = "CANCEL"
    <2>1. r.was \in Keys /\ RowsToRead(r, out) = <<r.was>>
      BY <1>5 DEF RequestOK, RowsToRead, CanceledRows
    <2> QED
      BY <1>1, <1>5, <2>1
  <1> QED
    BY <1>3, <1>4, <1>5, RequestTyped

\* A refusal changes nothing.
LEMMA RefusedOutcome ==
    ASSUME orders \in Seq(Rows), shares \in [Users -> Nat], NEW r, RequestOK(r)
    PROVE  AnswerTyped(Refused) /\ AnswerTold(r, Refused) /\ AnswerOffers(r, Refused)
  <1>1. /\ Refused.orders = orders /\ Refused.shares = shares /\ Refused.ok = FALSE
        /\ Refused.fills = <<>>
    BY DEF Refused, Outcome
  <1>2. FillsOK(<<>>)
    BY DEF FillsOK
  <1>3. \A u \in Users : shares[u] \in Nat /\ LiveSell(orders, u) \in Nat
    BY LiveSellTotal
  <1>4. OnSaleTotal(orders) \in Nat
    BY OrderRows, ColumnsTyped, SumNat DEF OnSaleTotal
  <1>5. AnswerTyped(Refused)
    BY <1>1, <1>2, Zenon DEF AnswerTyped
  <1>6. AnswerTold(r, Refused)
    BY <1>1, RowsRead, Zenon DEF AnswerTold
  <1>7. AnswerOffers(r, Refused)
    BY <1>1, <1>3, <1>4, SameMore, Zenon DEF AnswerOffers
  <1> QED
    BY <1>5, <1>6, <1>7

\* A request for a new order.
LEMMA OpeningOutcome ==
    ASSUME orders \in Seq(Rows), shares \in [Users -> Nat], NEW r, RequestOK(r),
           r.kind \in {"BUY", "SELL"}, NEW funded \in BOOLEAN,
           NEW out, out = Match(orders, r, TRUE, funded)
    PROVE  AnswerTyped(out) /\ AnswerTold(r, out) /\ AnswerOffers(r, out)
  <1>1. r.user \in Users /\ r.volume \in Nat /\ r.amount \in Amounts
    BY RequestTyped
  <1>2. /\ out.orders \in Seq(Rows) /\ DOMAIN orders \subseteq DOMAIN out.orders
        /\ out.ok \in BOOLEAN /\ FillsOK(out.fills)
        /\ out.shares \in [Users -> Nat]
        /\ SumOver(Users, out.shares) = SumOver(Users, shares)
    <2>1. out.orders \in Seq(Rows) /\ DOMAIN orders \subseteq DOMAIN out.orders
      BY <1>1, MatchOutcome
    <2>2. out.ok \in BOOLEAN /\ FillsOK(out.fills)
      BY <1>1, MatchOutcome
    <2>3. out.shares \in [Users -> Nat] /\ SumOver(Users, out.shares) = SumOver(Users, shares)
      BY <1>1, MatchOutcome
    <2> QED
      BY <2>1, <2>2, <2>3
  <1>3. ChangesAt(orders, r, out)
    BY <1>1, MatchOutcome
  <1>4. OnSaleTotal(out.orders)
          <= OnSaleTotal(orders) + (IF TRUE /\ Side(r) = "SELL" THEN r.volume ELSE 0)
    BY <1>1, MatchOutcome
  <1>5. \A u \in Users :
           /\ shares[u] <= out.shares[u] + r.volume
           /\ Side(r) = "BUY" \/ u # r.user =>
                 LiveSell(out.orders, u) + shares[u] <= LiveSell(orders, u) + out.shares[u]
    BY <1>1, MatchOutcome
  <1>6. AnswerTyped(out)
    BY <1>2, Zenon DEF AnswerTyped
  <1>7. AnswerTold(r, out)
    <2>1. RowsToRead(r, out) \in Seq(Keys)
      BY RowsRead
    <2>2. /\ out.opened > 0 => OwnKey(r) \in ToSet(RowsToRead(r, out))
          /\ out.fills # <<>> => MatchKey(r) \in ToSet(RowsToRead(r, out))
      BY RowsRead
    <2> QED
      BY <1>3, <2>1, <2>2, Zenon DEF AnswerTold, ChangesAt
  <1>8. (r.kind = "BUY" => Side(r) = "BUY") /\ (r.kind = "SELL" => Side(r) = "SELL")
    BY DEF Side
  <1>9. OnSaleTotal(orders) \in Nat
    BY OrderRows, ColumnsTyped, SumNat DEF OnSaleTotal
  <1>10. AnswerOffers(r, out)
    <2>1. CASE r.kind = "BUY"
      <3>1. OnSaleTotal(out.orders) <= OnSaleTotal(orders) + 0
        BY <1>4, <1>8, <2>1
      <3>2. OnSaleTotal(out.orders) <= OnSaleTotal(orders)
        BY <1>9, <3>1, NothingMore, Zenon
      <3> QED
        BY <1>5, <1>8, <2>1, <3>2, Zenon DEF AnswerOffers
    <2>2. CASE r.kind = "SELL"
      <3>1. OnSaleTotal(out.orders) <= OnSaleTotal(orders) + r.volume
        BY <1>4, <1>8, <2>2
      <3>2. r.kind \in {"SELL", "MODIFY_SELL"}
        BY <2>2
      <3> QED
        BY <1>5, <2>2, <3>1, <3>2, Zenon DEF AnswerOffers
    <2> QED
      BY <2>1, <2>2
  <1> QED
    BY <1>6, <1>7, <1>10

\* An order with a new price and volume.
LEMMA RowChanged ==
    ASSUME NEW o \in Rows, NEW a, NEW v
    PROVE  [[o EXCEPT !.amount = a] EXCEPT !.volume = v]
             = [user |-> o.user, side |-> o.side, amount |-> a, volume |-> v]
  <1> DEFINE p == [o EXCEPT !.amount = a]
             q == [p EXCEPT !.volume = v]
  <1>1. o = [user |-> o.user, side |-> o.side, amount |-> o.amount, volume |-> o.volume]
    BY DEF Rows
  <1>2. p = [user |-> o.user, side |-> o.side, amount |-> a, volume |-> o.volume]
    BY <1>1
  <1> HIDE DEF p
  <1>3. q = [user |-> o.user, side |-> o.side, amount |-> a, volume |-> v]
    BY <1>2
  <1> QED
    BY <1>3 DEF p

ChangedOrders(r) ==
    [orders EXCEPT ![r.order].amount = r.amount, ![r.order].volume = r.volume]

\* A request for a changed order, that is not refused before the match.
LEMMA ChangingOutcome ==
    ASSUME orders \in Seq(Rows), shares \in [Users -> Nat], NEW r, RequestOK(r),
           r.kind \in {"MODIFY_BUY", "MODIFY_SELL"},
           orders[r.order].user = r.user, orders[r.order].side = Side(r),
           NEW out,
           \/ out = Outcome(ChangedOrders(r), shares, TRUE, <<>>, 0)
           \/ out = Match(ChangedOrders(r), r, FALSE, TRUE)
    PROVE  AnswerTyped(out) /\ AnswerTold(r, out) /\ AnswerOffers(r, out)
  <1> DEFINE o == orders[r.order]
             x == [user |-> r.user, side |-> Side(r), amount |-> r.amount, volume |-> r.volume]
             os == RowSet(orders, r.order, x)
  <1>1. /\ r.user \in Users /\ r.volume \in Nat /\ r.amount \in Amounts
        /\ r.order \in DOMAIN orders /\ r.order # 0
    BY RequestTyped DEF RequestOK
  <1>2. o \in Rows /\ o.volume \in Nat
    BY <1>1, OrderRows, Zenon
  <1>3. ChangedOrders(r) = os
    <2>1. [[o EXCEPT !.amount = r.amount] EXCEPT !.volume = r.volume] = x
      <3>1. [[o EXCEPT !.amount = r.amount] EXCEPT !.volume = r.volume]
              = [user |-> o.user, side |-> o.side, amount |-> r.amount, volume |-> r.volume]
        BY <1>2, RowChanged
      <3> QED
        BY <3>1, Zenon
    <2>2. ChangedOrders(r)
            = [orders EXCEPT ![r.order] = [[o EXCEPT !.amount = r.amount] EXCEPT !.volume = r.volume]]
      BY <1>1 DEF ChangedOrders
    <2> QED
      BY <2>1, <2>2 DEF RowSet
  <1>4. out = Outcome(os, shares, TRUE, <<>>, 0) \/ out = Match(os, r, FALSE, TRUE)
    BY <1>3, Zenon
  <1>5. /\ x \in Rows /\ x.user = o.user /\ x.side = o.side /\ x.volume = r.volume
        /\ x.side = Side(r) /\ x.user = r.user /\ <<x.side, x.amount>> = OwnKey(r)
    BY <1>1 DEF Rows, Side, Sides, OwnKey
  <1>6. Side(r) = "SELL" <=> r.kind = "MODIFY_SELL"
    BY DEF Side
  <1>7. os = RowSet(orders, r.order, x)
    OBVIOUS
  <1> HIDE DEF o, x, os
  <1>13. r.order \in DOMAIN orders /\ x \in Rows /\ x.user = orders[r.order].user
         /\ x.side = orders[r.order].side
    BY <1>1, <1>5 DEF o
  <1>8. /\ os \in Seq(Rows) /\ DOMAIN os = DOMAIN orders
        /\ \A k : k \notin {OwnKey(r), <<o.side, o.amount>>} =>
                     VolumeAt(os, k) = VolumeAt(orders, k)
        /\ OnSaleTotal(os) =
              IF Side(r) = "SELL" THEN OnSaleTotal(orders) - o.volume + r.volume
              ELSE OnSaleTotal(orders)
        /\ \A u : LiveSell(os, u) =
              IF Side(r) = "SELL" /\ r.user = u THEN LiveSell(orders, u) - o.volume + r.volume
              ELSE LiveSell(orders, u)
    <2>1. /\ os \in Seq(Rows) /\ DOMAIN os = DOMAIN orders
          /\ \A k : k \notin {<<x.side, x.amount>>, <<o.side, o.amount>>} =>
                       VolumeAt(os, k) = VolumeAt(orders, k)
      BY <1>7, <1>13, OrderChanged DEF o
    <2>2. OnSaleTotal(os) =
              IF x.side = "SELL" THEN OnSaleTotal(orders) - o.volume + x.volume
              ELSE OnSaleTotal(orders)
      BY <1>7, <1>13, OrderChanged DEF o, OnSaleTotal
    <2>3. \A u : LiveSell(os, u) =
              IF x.side = "SELL" /\ x.user = u THEN LiveSell(orders, u) - o.volume + x.volume
              ELSE LiveSell(orders, u)
      BY <1>7, <1>13, OrderChanged DEF o
    <2> QED
      BY <1>5, <2>1, <2>2, <2>3, Zenon
  <1>9. /\ out.orders \in Seq(Rows) /\ DOMAIN os \subseteq DOMAIN out.orders
        /\ out.ok \in BOOLEAN /\ FillsOK(out.fills)
        /\ out.shares \in [Users -> Nat]
        /\ SumOver(Users, out.shares) = SumOver(Users, shares)
        /\ \A k : VolumeAt(out.orders, k) # VolumeAt(os, k) =>
                     k = MatchKey(r) \/ k = OwnKey(r)
        /\ OnSaleTotal(out.orders) <= OnSaleTotal(os)
        /\ \A u \in Users :
              /\ shares[u] <= out.shares[u] + r.volume
              /\ Side(r) = "BUY" \/ u # r.user =>
                    LiveSell(out.orders, u) + shares[u] <= LiveSell(os, u) + out.shares[u]
    <2>1. OnSaleTotal(os) \in Nat /\ \A u : LiveSell(os, u) \in Nat
      BY <1>8, OrderRows, ColumnsTyped, SumNat, LiveSellTotal DEF OnSaleTotal
    <2>2. CASE out = Outcome(os, shares, TRUE, <<>>, 0)
      <3>1. out.orders = os /\ out.shares = shares /\ out.ok = TRUE /\ out.fills = <<>>
        BY <2>2 DEF Outcome
      <3>2. FillsOK(<<>>)
        BY DEF FillsOK
      <3>3. \A u \in Users : shares[u] \in Nat
        OBVIOUS
      <3>4. PICK v \in Nat : v = r.volume
        BY <1>1
      <3>5. \A u \in Users : LiveSell(os, u) + shares[u] <= LiveSell(os, u) + shares[u]
        BY <2>1, <3>3, SameMore, Zenon
      <3>6. \A u \in Users : shares[u] <= shares[u] + r.volume
        BY <3>3, <3>4, SameMore, Zenon
      <3>7. OnSaleTotal(os) <= OnSaleTotal(os)
        BY <2>1, SameMore, Zenon
      <3>8. out.orders \in Seq(Rows) /\ out.shares \in [Users -> Nat]
        BY <1>8, <3>1
      <3> QED
        BY <3>1, <3>2, <3>5, <3>6, <3>7, <3>8, Zenon
    <2>3. CASE out = Match(os, r, FALSE, TRUE)
      <3>1. /\ out.orders \in Seq(Rows) /\ DOMAIN os \subseteq DOMAIN out.orders
            /\ out.ok \in BOOLEAN /\ FillsOK(out.fills)
            /\ out.shares \in [Users -> Nat]
            /\ SumOver(Users, out.shares) = SumOver(Users, shares)
        <4>1. out.orders \in Seq(Rows) /\ DOMAIN os \subseteq DOMAIN out.orders
          BY <1>1, <1>8, <2>3, MatchOutcome
        <4>2. out.ok \in BOOLEAN /\ FillsOK(out.fills)
          BY <1>1, <1>8, <2>3, MatchOutcome
        <4>3. out.shares \in [Users -> Nat] /\ SumOver(Users, out.shares) = SumOver(Users, shares)
          BY <1>1, <1>8, <2>3, MatchOutcome
        <4> QED
          BY <4>1, <4>2, <4>3
      <3>2. ChangesAt(os, r, out)
        BY <1>1, <1>8, <2>3, MatchOutcome
      <3>3. OnSaleTotal(out.orders)
              <= OnSaleTotal(os) + (IF FALSE /\ Side(r) = "SELL" THEN r.volume ELSE 0)
        BY <1>1, <1>8, <2>3, MatchOutcome
      <3>4. \A u \in Users :
               /\ shares[u] <= out.shares[u] + r.volume
               /\ Side(r) = "BUY" \/ u # r.user =>
                     LiveSell(out.orders, u) + shares[u] <= LiveSell(os, u) + out.shares[u]
        BY <1>1, <1>8, <2>3, MatchOutcome
      <3>5. OnSaleTotal(out.orders) <= OnSaleTotal(os)
        BY <2>1, <3>3, NothingMore, Zenon
      <3> QED
        BY <3>1, <3>2, <3>4, <3>5, Zenon DEF ChangesAt
    <2> QED
      BY <1>4, <2>2, <2>3
  <1>10. AnswerTyped(out)
    BY <1>8, <1>9, Zenon DEF AnswerTyped
  <1>11. AnswerTold(r, out)
    <2>1. ASSUME out.ok, NEW k \in Keys, VolumeAt(out.orders, k) # VolumeAt(orders, k)
          PROVE  k \in ToSet(RowsToRead(r, out)) \cup Untold(r, out)
      <3>1. k \in {MatchKey(r), OwnKey(r), <<o.side, o.amount>>}
        BY <1>8, <1>9, <2>1
      <3>2. Untold(r, out) = {MatchKey(r)} \cup ({<<o.side, o.amount>>} \ {r.was})
        BY <1>1, <2>1 DEF Untold, o
      <3>3. OwnKey(r) \in ToSet(RowsToRead(r, out))
        BY RowsRead
      <3>4. r.was[1] = Side(r) => r.was \in ToSet(RowsToRead(r, out))
        BY RowsRead
      <3>5. <<o.side, o.amount>> = r.was => r.was[1] = Side(r)
        BY DEF o
      <3> QED
        BY <3>1, <3>2, <3>3, <3>4, <3>5
    <2>2. RowsToRead(r, out) \in Seq(Keys)
      BY RowsRead
    <2> QED
      BY <2>1, <2>2 DEF AnswerTold
  <1>12. AnswerOffers(r, out)
    <2>1. PICK n, t, ov, v \in Nat : /\ n = OnSaleTotal(orders) /\ t = OnSaleTotal(out.orders)
                                     /\ ov = o.volume /\ v = r.volume
      BY <1>1, <1>2, <1>9, OrderRows, ColumnsTyped, SumNat DEF OnSaleTotal
    <2>2. PICK m \in Nat : m = OnSaleTotal(os) /\ t <= m
      BY <1>8, <1>9, <2>1, OrderRows, ColumnsTyped, SumNat DEF OnSaleTotal
    <2>3. CASE Side(r) = "SELL"
      <3>1. m = n - ov + v
        BY <1>8, <2>1, <2>2, <2>3
      <3>2. t + ov <= n + v
        BY <2>2, <3>1
      <3>3. OnSaleTotal(out.orders) + orders[r.order].volume <= OnSaleTotal(orders) + r.volume
        BY <2>1, <3>2, Zenon DEF o
      <3>4. ASSUME NEW u \in Users
            PROVE  \/ LiveSell(out.orders, u) + shares[u] <= LiveSell(orders, u) + out.shares[u]
                   \/ /\ u = r.user /\ r.kind \in {"SELL", "MODIFY_SELL"}
                      /\ shares[u] <= out.shares[u] + r.volume
        <4>1. u # r.user => LiveSell(os, u) = LiveSell(orders, u)
          BY <1>8
        <4>2. r.kind \in {"SELL", "MODIFY_SELL"}
          BY <1>6, <2>3
        <4> QED
          BY <1>9, <4>1, <4>2, Zenon
      <3> QED
        BY <1>6, <2>3, <3>3, <3>4, Zenon DEF AnswerOffers
    <2>4. CASE Side(r) # "SELL"
      <3>1. m = n
        BY <1>8, <2>1, <2>2, <2>4
      <3>2. OnSaleTotal(out.orders) <= OnSaleTotal(orders)
        BY <2>1, <2>2, <3>1
      <3>3. Side(r) = "BUY" /\ \A u : LiveSell(os, u) = LiveSell(orders, u)
        BY <1>8, <2>4 DEF Side
      <3> QED
        BY <1>9, <3>2, <3>3, Zenon DEF AnswerOffers
    <2> QED
      BY <2>3, <2>4
  <1> QED
    BY <1>10, <1>11, <1>12

\* A request to cancel an order of its user.
LEMMA ClosingOutcome ==
    ASSUME orders \in Seq(Rows), shares \in [Users -> Nat], NEW r, RequestOK(r),
           r.kind = "CANCEL",
           NEW out, out = Outcome([orders EXCEPT ![r.order].volume = 0], shares, TRUE, <<>>, 0)
    PROVE  AnswerTyped(out) /\ AnswerTold(r, out) /\ AnswerOffers(r, out)
  <1> DEFINE o == orders[r.order]
             x == [o EXCEPT !.volume = 0]
             os == RowSet(orders, r.order, x)
  <1>1. r.order \in DOMAIN orders /\ r.order # 0 /\ r.was \in Keys
    BY DEF RequestOK
  <1>2. o \in Rows /\ o.volume \in Nat
    BY <1>1, OrderRows
  <1>3. /\ x \in Rows /\ x.user = o.user /\ x.side = o.side /\ x.amount = o.amount
        /\ x.volume = 0
    <2> HIDE DEF o
    <2> QED
      BY <1>2 DEF Rows
  <1>4. out.orders = os /\ out.shares = shares /\ out.ok = TRUE /\ out.fills = <<>>
    <2>1. [orders EXCEPT ![r.order].volume = 0] = os
      BY DEF RowSet
    <2> HIDE DEF os
    <2> QED
      BY <2>1 DEF Outcome
  <1>5. r.order \in DOMAIN orders /\ x \in Rows /\ x.user = orders[r.order].user
        /\ x.side = orders[r.order].side
    BY <1>1, <1>3
  <1> HIDE DEF o, x
  <1>6. /\ os \in Seq(Rows) /\ DOMAIN os = DOMAIN orders
        /\ \A k : k \notin {<<x.side, x.amount>>, <<o.side, o.amount>>} =>
                     VolumeAt(os, k) = VolumeAt(orders, k)
    BY <1>5, OrderChanged DEF o
  <1>7. OnSaleTotal(os) =
           IF x.side = "SELL" THEN OnSaleTotal(orders) - o.volume + x.volume
           ELSE OnSaleTotal(orders)
    BY <1>5, OrderChanged DEF o, OnSaleTotal
  <1>8. \A u : LiveSell(os, u) =
           IF x.side = "SELL" /\ x.user = u THEN LiveSell(orders, u) - o.volume + x.volume
           ELSE LiveSell(orders, u)
    BY <1>5, OrderChanged DEF o
  <1> HIDE DEF os
  <1>9. \A u \in Users : shares[u] \in Nat
    OBVIOUS
  <1>10. \A u : LiveSell(os, u) \in Nat /\ LiveSell(orders, u) \in Nat
    BY <1>6, LiveSellTotal
  <1>11. OnSaleTotal(os) \in Nat /\ OnSaleTotal(orders) \in Nat
    BY <1>6, OrderRows, ColumnsTyped, SumNat DEF OnSaleTotal
  <1>12. AnswerTyped(out)
    <2>1. FillsOK(<<>>)
      BY DEF FillsOK
    <2> QED
      BY <1>4, <1>6, <2>1 DEF AnswerTyped
  <1>13. AnswerTold(r, out)
    <2>1. ASSUME NEW k \in Keys, VolumeAt(out.orders, k) # VolumeAt(orders, k)
          PROVE  k \in ToSet(RowsToRead(r, out)) \cup Untold(r, out)
      <3>1. k = <<o.side, o.amount>>
        BY <1>3, <1>4, <1>6, <2>1
      <3>2. Untold(r, out) = {<<o.side, o.amount>>} \ {r.was}
        BY <1>1, <1>4 DEF Untold, o
      <3>3. r.was \in ToSet(RowsToRead(r, out))
        BY RowsRead
      <3> QED
        BY <3>1, <3>2, <3>3
    <2>2. RowsToRead(r, out) \in Seq(Keys)
      BY RowsRead
    <2> QED
      BY <2>1, <2>2 DEF AnswerTold
  <1>14. AnswerOffers(r, out)
    <2>1. OnSaleTotal(os) <= OnSaleTotal(orders)
      <3>1. OnSaleTotal(os) = OnSaleTotal(orders) \/ OnSaleTotal(os) = OnSaleTotal(orders) - o.volume + 0
        BY <1>3, <1>7, Zenon
      <3> QED
        BY <1>2, <1>11, <3>1, LessMore, Zenon
    <2>2. ASSUME NEW u \in Users
          PROVE  LiveSell(os, u) + shares[u] <= LiveSell(orders, u) + shares[u]
      <3>1. LiveSell(os, u) <= LiveSell(orders, u)
        <4>1. LiveSell(os, u) = LiveSell(orders, u) \/ LiveSell(os, u) = LiveSell(orders, u) - o.volume + 0
          BY <1>3, <1>8, Zenon
        <4> QED
          BY <1>2, <1>10, <4>1, LessMore, Zenon
      <3> QED
        BY <1>9, <1>10, <3>1, SumsCompared, Zenon
    <2> QED
      BY <1>4, <2>1, <2>2, Zenon DEF AnswerOffers
  <1> QED
    BY <1>12, <1>13, <1>14

\* Any request.
LEMMA AnswerOutcome ==
    ASSUME orders \in Seq(Rows), shares \in [Users -> Nat], NEW r, RequestOK(r),
           NEW funded \in BOOLEAN, NEW out, out = Answer(r, funded)
    PROVE  AnswerTyped(out) /\ AnswerTold(r, out) /\ AnswerOffers(r, out)
  <1>1. CASE r.kind \in {"BUY", "SELL"}
    <2>1. out = Match(orders, r, TRUE, funded)
      BY <1>1 DEF Answer
    <2> QED
      BY <1>1, <2>1, OpeningOutcome
  <1>2. CASE r.kind \in {"MODIFY_BUY", "MODIFY_SELL"}
    <2>1. out = Modify(r)
      BY <1>2 DEF Answer
    <2>2. \/ out = Refused
          \/ /\ orders[r.order].user = r.user /\ orders[r.order].side = Side(r)
             /\ \/ out = Outcome(ChangedOrders(r), shares, TRUE, <<>>, 0)
                \/ out = Match(ChangedOrders(r), r, FALSE, TRUE)
      BY <2>1, Zenon DEF Modify, Own, ChangedOrders
    <2> QED
      BY <1>2, <2>2, RefusedOutcome, ChangingOutcome
  <1>3. CASE r.kind = "CANCEL"
    <2>1. out = Cancel(r)
      BY <1>3 DEF Answer
    <2> QED
      BY <1>3, <2>1, RefusedOutcome, ClosingOutcome DEF Cancel
  <1> QED
    BY <1>1, <1>2, <1>3, RequestTyped

-----------------------------------------------------------------------------
(* The queue and the lists that handlers keep                               *)

\* What a list holds when an element is appended.
LEMMA ListAppended ==
    ASSUME NEW T, NEW s \in Seq(T), NEW x \in T
    PROVE  /\ Append(s, x) \in Seq(T) /\ ToSet(Append(s, x)) = ToSet(s) \cup {x}
           /\ IsInjective(s) /\ x \notin ToSet(s) => IsInjective(Append(s, x))
  <1> DEFINE n == Len(s) + 1
             t == Append(s, x)
  <1>1. /\ t \in Seq(T) /\ n \notin DOMAIN s /\ DOMAIN t = DOMAIN s \cup {n}
        /\ t[n] = x /\ \A j \in DOMAIN s : t[j] = s[j]
    BY Appended
  <1> HIDE DEF n, t
  <1>2. ToSet(t) = ToSet(s) \cup {x}
    BY <1>1 DEF ToSet
  <1>3. IsInjective(s) /\ x \notin ToSet(s) => IsInjective(t)
    BY <1>1 DEF ToSet, IsInjective
  <1> QED
    BY <1>1, <1>2, <1>3 DEF t

\* What is left when the first element is taken.
LEMMA ListTaken ==
    ASSUME NEW T, NEW s \in Seq(T), s # <<>>
    PROVE  /\ Head(s) \in T /\ Tail(s) \in Seq(T) /\ ToSet(s) = ToSet(Tail(s)) \cup {Head(s)}
           /\ IsInjective(s) => IsInjective(Tail(s)) /\ Head(s) \notin ToSet(Tail(s))
  <1> DEFINE t == Tail(s)
             x == Head(s)
  <1>1. /\ t \in Seq(T) /\ x \in T /\ x = s[1] /\ Len(s) \in Nat /\ Len(s) > 0
        /\ DOMAIN s = 1 .. Len(s) /\ DOMAIN t = 1 .. Len(s) - 1
        /\ \A j \in 1 .. Len(s) - 1 : t[j] = s[j + 1]
    BY HeadTailProperties, EmptySeq, LenProperties
  <1>2. PICK n \in Nat : n = Len(s) /\ n > 0
    BY <1>1
  <1> HIDE DEF t, x
  <1>3. \A j \in 1 .. n - 1 : j + 1 \in 1 .. n /\ j + 1 # 1
    BY <1>2
  <1>4. \A i \in 1 .. n : i # 1 => i - 1 \in 1 .. n - 1 /\ (i - 1) + 1 = i
    BY <1>2
  <1>5. 1 \in 1 .. n
    BY <1>2
  <1>6. \A j \in DOMAIN t : j + 1 \in DOMAIN s /\ j + 1 # 1 /\ t[j] = s[j + 1]
    BY <1>1, <1>2, <1>3
  <1>7. \A i \in DOMAIN s : i = 1 \/ (i - 1 \in DOMAIN t /\ t[i - 1] = s[i])
    BY <1>1, <1>2, <1>4
  <1>8. ToSet(s) = ToSet(t) \cup {x}
    <2>1. ASSUME NEW y \in ToSet(s)
          PROVE  y \in ToSet(t) \cup {x}
      <3>1. PICK i \in DOMAIN s : y = s[i]
        BY <2>1 DEF ToSet
      <3>2. i = 1 \/ \E j \in DOMAIN t : t[j] = s[i]
        BY <1>7
      <3> QED
        BY <1>1, <3>1, <3>2 DEF ToSet
    <2>2. ToSet(t) \subseteq ToSet(s)
      BY <1>6 DEF ToSet
    <2>3. x \in ToSet(s)
      BY <1>1, <1>2, <1>5 DEF ToSet
    <2> QED
      BY <2>1, <2>2, <2>3
  <1>9. ASSUME IsInjective(s)
        PROVE  IsInjective(t) /\ x \notin ToSet(t)
    <2>1. \A a, b \in DOMAIN s : s[a] = s[b] => a = b
      BY <1>9 DEF IsInjective
    <2>2. \A a, b \in DOMAIN t : a + 1 = b + 1 => a = b
      BY <1>1, <1>2
    <2>3. \A a, b \in DOMAIN t : t[a] = t[b] => a = b
      BY <1>6, <2>1, <2>2
    <2>4. \A a \in DOMAIN t : t[a] # x
      BY <1>1, <1>2, <1>5, <1>6, <2>1
    <2> QED
      BY <2>3, <2>4 DEF IsInjective, ToSet
  <1> QED
    BY <1>1, <1>8, <1>9 DEF t, x

-----------------------------------------------------------------------------
(* What a MATCH event lists                                                 *)

EntryRows == [userId : Users, type : Sides, volume : VolumeRows]

\* A volume that is a number has one part.
VolumeOK(v) == v \in VolumeRows /\ v.parts # <<>> /\ (~v.text => Len(v.parts) = 1)

\* The total of a volume is a number.
LEMMA VolumeOfNat ==
    ASSUME NEW p \in Seq(Nat)
    PROVE  /\ VolumeOf(p) \in Nat /\ IsFiniteSet(DOMAIN p) /\ Len(p) \in Nat /\ DOMAIN p = 1 .. Len(p)
           /\ Len(p) = 1 => VolumeOf(p) = p[1] /\ p[1] \in Nat
  <1> DEFINE f == [n \in DOMAIN p |-> p[n]]
  <1>1. Len(p) \in Nat /\ DOMAIN p = 1 .. Len(p) /\ IsFiniteSet(1 .. Len(p))
    BY LenProperties, FS_Interval
  <1>2. \A n \in DOMAIN p : p[n] \in Nat /\ f[n] = p[n]
    BY <1>1, ElementOfSeq
  <1>3. VolumeOf(p) = SumOver(DOMAIN p, f)
    BY DEF VolumeOf
  <1> HIDE DEF f
  <1>4. SumOver(DOMAIN p, f) \in Nat
    BY <1>1, <1>2, SumNat
  <1>5. ASSUME Len(p) = 1
        PROVE  SumOver(DOMAIN p, f) = p[1] /\ p[1] \in Nat
    <2>1. DOMAIN p = {1}
      BY <1>1, <1>5
    <2> QED
      BY <1>2, <2>1, SumSingle
  <1> QED
    BY <1>1, <1>3, <1>4, <1>5

\* The total of a text that was appended to another.
LEMMA TextsAdded ==
    ASSUME NEW p \in Seq(Nat), NEW q \in Seq(Nat)
    PROVE  /\ p \o q \in Seq(Nat)
           /\ VolumeOf(p \o q) = VolumeOf(p) + VolumeOf(q)
  <1> DEFINE s == p \o q
             A == 1 .. Len(p)
             B == {n \in 1 .. Len(p) + Len(q) : n > Len(p)}
             f == [n \in DOMAIN p |-> p[n]]
             g == [n \in DOMAIN q |-> q[n]]
             h == [n \in DOMAIN s |-> s[n]]
             to == [n \in DOMAIN q |-> Len(p) + n]
  <1>1. s \in Seq(Nat) /\ Len(s) = Len(p) + Len(q) /\ Len(p) \in Nat /\ Len(q) \in Nat
    BY ConcatProperties, LenProperties
  <1>2. DOMAIN p = A /\ DOMAIN q = 1 .. Len(q) /\ DOMAIN s = 1 .. Len(p) + Len(q)
    BY <1>1, LenProperties
  <1>3. /\ DOMAIN s = A \cup B /\ A \cap B = {}
        /\ IsFiniteSet(A) /\ IsFiniteSet(B) /\ IsFiniteSet(DOMAIN q)
    <2>1. IsFiniteSet(1 .. Len(p) + Len(q)) /\ IsFiniteSet(A) /\ IsFiniteSet(1 .. Len(q))
      BY <1>1, FS_Interval
    <2>2. B \in SUBSET (1 .. Len(p) + Len(q))
      OBVIOUS
    <2>3. IsFiniteSet(B)
      BY <2>1, <2>2, FS_Subset
    <2>4. A \cup B = 1 .. Len(p) + Len(q) /\ A \cap B = {}
      BY <1>1
    <2> QED
      BY <1>2, <2>1, <2>3, <2>4
  <1>4. \A n \in DOMAIN s : h[n] = s[n] /\ s[n] \in Nat
    BY <1>1, <1>2, ElementOfSeq
  <1>5. \A n \in A : h[n] = f[n]
    BY <1>1, <1>2, ConcatProperties
  <1>6. \A n \in DOMAIN q : to[n] \in B /\ h[to[n]] = g[n] /\ g[n] \in Nat
    <2>1. \A n \in DOMAIN q : q[n] \in Nat
      BY <1>2, ElementOfSeq
    <2>2. \A n \in DOMAIN q : to[n] \in B /\ s[to[n]] = q[n]
      <3> TAKE n \in DOMAIN q
      <3>1. PICK a, b \in Nat : a = Len(p) /\ b = Len(q) /\ n \in 1 .. b
        BY <1>1, <1>2
      <3>2. a + n \in 1 .. a + b /\ a + n > a /\ (a + n) - a = n /\ ~(a + n <= a)
        BY <3>1
      <3>3. s[a + n] = q[n]
        BY <3>1, <3>2, ConcatProperties
      <3> QED
        BY <3>1, <3>2, <3>3
    <2> QED
      BY <1>2, <1>3, <2>1, <2>2
  <1>7. to \in [DOMAIN q -> B]
    BY <1>6
  <1>8. \A a, b \in DOMAIN q : to[a] = to[b] => a = b
    BY <1>1, <1>2
  <1>9. \A t \in B : \E n \in DOMAIN q : to[n] = t
    <2> TAKE t \in B
    <2>1. PICK a, b \in Nat : a = Len(p) /\ b = Len(q) /\ t \in 1 .. a + b /\ t > a
      BY <1>1
    <2>2. t - a \in 1 .. b /\ a + (t - a) = t
      BY <2>1
    <2>3. t - a \in DOMAIN q
      BY <1>2, <2>1, <2>2
    <2>4. to[t - a] = t
      BY <2>1, <2>2, <2>3
    <2> QED
      BY <2>3, <2>4
  <1>10. VolumeOf(s) = SumOver(DOMAIN s, h) /\ VolumeOf(p) = SumOver(A, f)
         /\ VolumeOf(q) = SumOver(DOMAIN q, g)
    BY <1>2 DEF VolumeOf
  <1> HIDE DEF s, A, B, f, g, h, to
  <1>11. SumOver(DOMAIN s, h) = SumOver(A, h) + SumOver(B, h)
    <2>1. \A n \in A \cup B : h[n] \in Nat
      BY <1>3, <1>4
    <2> QED
      BY <1>3, <2>1, SumUnion
  <1>12. SumOver(A, h) = SumOver(A, f)
    BY <1>5, SumSame
  <1>13. SumOver(B, h) = SumOver(DOMAIN q, g)
    <2>1. IsFiniteSet(DOMAIN q)
      BY <1>3
    <2>2. \A n \in DOMAIN q : g[n] \in Nat
      BY <1>6
    <2>3. \A n \in DOMAIN q : h[to[n]] = g[n]
      BY <1>6
    <2> DEFINE D == DOMAIN q
    <2>4. /\ to \in [D -> B] /\ IsFiniteSet(D)
          /\ \A x, y \in D : to[x] = to[y] => x = y
          /\ \A t \in B : \E x \in D : to[x] = t
          /\ \A n \in D : g[n] \in Nat
          /\ \A n \in D : h[to[n]] = g[n]
      BY <2>1, <2>2, <2>3, <1>7, <1>8, <1>9
    <2> HIDE DEF D
    <2>5. to \in [D -> B] /\ IsFiniteSet(D)
      BY <2>4
    <2>6. \A x, y \in D : to[x] = to[y] => x = y
      BY <2>4
    <2>7. \A t \in B : \E x \in D : to[x] = t
      BY <2>4
    <2>8. \A n \in D : g[n] \in Nat
      BY <2>4
    <2>9. \A n \in D : h[to[n]] = g[n]
      BY <2>4
    <2>10. SumOver(B, h) = SumOver(D, g)
      BY <2>5, <2>6, <2>7, <2>8, <2>9, SumRenamed, SMTT(60)
    <2> QED
      BY <2>10 DEF D
  <1> QED
    BY <1>1, <1>10, <1>11, <1>12, <1>13 DEF s

\* Adding two volumes adds their totals.
LEMMA VolumesAdded ==
    ASSUME NEW a, VolumeOK(a), NEW b, VolumeOK(b)
    PROVE  /\ VolumeOK(Plus(a, b))
           /\ VolumeOf(Plus(a, b).parts) = VolumeOf(a.parts) + VolumeOf(b.parts)
  <1>1. /\ a.parts \in Seq(Nat) /\ b.parts \in Seq(Nat) /\ a.text \in BOOLEAN /\ b.text \in BOOLEAN
        /\ a.parts # <<>> /\ b.parts # <<>>
    BY DEF VolumeOK, VolumeRows
  <1>2. CASE a.text \/ b.text
    <2> DEFINE p == a.parts \o b.parts
    <2>1. Plus(a, b) = [text |-> TRUE, parts |-> p]
      BY <1>2 DEF Plus
    <2>2. p \in Seq(Nat) /\ VolumeOf(p) = VolumeOf(a.parts) + VolumeOf(b.parts)
      BY <1>1, TextsAdded
    <2>3. p # <<>>
      BY <1>1, ConcatEqualIffEmpty
    <2> HIDE DEF p
    <2>4. VolumeOK([text |-> TRUE, parts |-> p])
      BY <2>2, <2>3 DEF VolumeOK, VolumeRows
    <2> QED
      BY <2>1, <2>2, <2>4
  <1>3. CASE ~(a.text \/ b.text)
    <2>1. Len(a.parts) = 1 /\ Len(b.parts) = 1
      BY <1>3 DEF VolumeOK
    <2>2. PICK x, y \in Nat : /\ x = a.parts[1] /\ y = b.parts[1]
                              /\ VolumeOf(a.parts) = x /\ VolumeOf(b.parts) = y
      BY <1>1, <2>1, VolumeOfNat
    <2>3. Plus(a, b) = [text |-> FALSE, parts |-> <<x + y>>]
      BY <1>3, <2>2 DEF Plus
    <2>4. \A z \in Nat : <<z>> \in Seq(Nat) /\ Len(<<z>>) = 1 /\ <<z>>[1] = z /\ <<z>> # <<>>
      OBVIOUS
    <2>5. x + y \in Nat
      BY <2>2
    <2>6. VolumeOf(<<x + y>>) = x + y
      BY <2>4, <2>5, VolumeOfNat, Zenon
    <2>7. VolumeOK([text |-> FALSE, parts |-> <<x + y>>])
      BY <2>4, <2>5 DEF VolumeOK, VolumeRows
    <2> QED
      BY <2>2, <2>3, <2>6, <2>7
  <1> QED
    BY <1>2, <1>3

\* A well formed list of a MATCH event.  The entry of a user on one side, and
\* what it tells of the volume; or that it has none.
ListOK(acc) == acc \in Seq(EntryRows) /\ \A n \in DOMAIN acc : VolumeOK(acc[n].volume)
Lists(acc, u, side, x) ==
    \E n \in DOMAIN acc : OfSide(acc, u, side) = {n} /\ VolumeOf(acc[n].volume.parts) = x
ListsNothing(acc, u, side) == OfSide(acc, u, side) = {}

\* An entry is added for a user that has none.
LEMMA EntryAdded ==
    ASSUME NEW acc, ListOK(acc), NEW u \in Users, NEW side \in Sides, NEW v, VolumeOK(v),
           ListsNothing(acc, u, side)
    PROVE  LET new == Merge(acc, u, side, v, OfSide(acc, u, side))
           IN  /\ ListOK(new) /\ Lists(new, u, side, VolumeOf(v.parts))
               /\ \A w \in Users, s \in Sides : w # u \/ s # side =>
                     /\ ListsNothing(acc, w, s) => ListsNothing(new, w, s)
                     /\ \A x : Lists(acc, w, s, x) => Lists(new, w, s, x)
  <1> DEFINE e == [userId |-> u, type |-> side, volume |-> v]
             new == Merge(acc, u, side, v, OfSide(acc, u, side))
             last == Len(acc) + 1
  <1>1. e \in EntryRows /\ e.userId = u /\ e.type = side /\ e.volume = v
    BY DEF EntryRows, VolumeOK
  <1>2. new = Append(acc, e)
    BY DEF Merge, ListsNothing
  <1>3. acc \in Seq(EntryRows) /\ Len(acc) \in Nat /\ DOMAIN acc = 1 .. Len(acc)
    BY LenProperties DEF ListOK
  <1> HIDE DEF e, new
  <1>4. /\ new \in Seq(EntryRows) /\ DOMAIN new = DOMAIN acc \cup {last} /\ last \notin DOMAIN acc
        /\ new[last] = e /\ \A n \in DOMAIN acc : new[n] = acc[n]
    BY <1>1, <1>2, <1>3, AppendProperties
  <1> HIDE DEF last
  <1>5. ListOK(new)
    BY <1>1, <1>4 DEF ListOK
  <1>6. OfSide(new, u, side) = {last}
    BY <1>1, <1>4 DEF OfSide, ListsNothing
  <1>7. Lists(new, u, side, VolumeOf(v.parts))
    BY <1>1, <1>4, <1>6 DEF Lists
  <1>8. ASSUME NEW w \in Users, NEW s \in Sides, w # u \/ s # side
        PROVE  /\ ListsNothing(acc, w, s) => ListsNothing(new, w, s)
               /\ \A x : Lists(acc, w, s, x) => Lists(new, w, s, x)
    <2>1. OfSide(new, w, s) = OfSide(acc, w, s)
      BY <1>1, <1>4, <1>8 DEF OfSide
    <2> QED
      BY <1>4, <2>1 DEF Lists, ListsNothing
  <1> QED
    BY <1>5, <1>7, <1>8 DEF new

\* The entry of a user that has one grows.
LEMMA EntryGrows ==
    ASSUME NEW acc, ListOK(acc), NEW u \in Users, NEW side \in Sides, NEW v, VolumeOK(v),
           NEW y, Lists(acc, u, side, y)
    PROVE  LET new == Merge(acc, u, side, v, OfSide(acc, u, side))
           IN  /\ ListOK(new) /\ Lists(new, u, side, y + VolumeOf(v.parts))
               /\ \A w \in Users, s \in Sides : w # u \/ s # side =>
                     /\ ListsNothing(acc, w, s) => ListsNothing(new, w, s)
                     /\ \A x : Lists(acc, w, s, x) => Lists(new, w, s, x)
  <1>1. PICK i \in DOMAIN acc : OfSide(acc, u, side) = {i} /\ VolumeOf(acc[i].volume.parts) = y
    BY DEF Lists
  <1> DEFINE e == [acc[i] EXCEPT !.volume = Plus(acc[i].volume, v)]
             new == Merge(acc, u, side, v, OfSide(acc, u, side))
  <1>2. /\ acc \in Seq(EntryRows) /\ acc[i] \in EntryRows /\ VolumeOK(acc[i].volume)
        /\ acc[i].userId = u /\ acc[i].type = side
    <2>1. acc \in Seq(EntryRows) /\ DOMAIN acc = 1 .. Len(acc)
      BY LenProperties DEF ListOK
    <2>2. acc[i] \in EntryRows
      BY <2>1, ElementOfSeq
    <2> QED
      BY <1>1, <2>1, <2>2 DEF ListOK, OfSide
  <1>3. /\ VolumeOK(Plus(acc[i].volume, v))
        /\ VolumeOf(Plus(acc[i].volume, v).parts) = y + VolumeOf(v.parts)
    BY <1>1, <1>2, VolumesAdded
  <1>4. /\ e \in EntryRows /\ e.userId = u /\ e.type = side
        /\ VolumeOK(e.volume) /\ VolumeOf(e.volume.parts) = y + VolumeOf(v.parts)
    <2> DEFINE p == Plus(acc[i].volume, v)
    <2>1. p \in VolumeRows
      BY <1>3 DEF VolumeOK
    <2>2. VolumeOK(p) /\ VolumeOf(p.parts) = y + VolumeOf(v.parts)
      BY <1>3
    <2> HIDE DEF p
    <2>3. e.volume = p /\ e \in EntryRows /\ e.userId = u /\ e.type = side
      BY <1>2, <2>1 DEF EntryRows, p
    <2> QED
      BY <2>2, <2>3
  <1>5. new = [acc EXCEPT ![i] = e]
    <2>1. (CHOOSE n \in {i} : TRUE) = i
      OBVIOUS
    <2>2. new = [acc EXCEPT ![CHOOSE n \in {i} : TRUE].volume = Plus(@, v)]
      BY <1>1 DEF Merge
    <2> QED
      BY <2>1, <2>2
  <1> HIDE DEF e, new
  <1>6. /\ new \in Seq(EntryRows) /\ DOMAIN new = DOMAIN acc
        /\ new[i] = e /\ \A n \in DOMAIN acc : n # i => new[n] = acc[n]
    BY <1>1, <1>2, <1>4, <1>5, ExceptSeq
  <1>7. ListOK(new)
    BY <1>4, <1>6 DEF ListOK
  <1>8. OfSide(new, u, side) = {i}
    BY <1>1, <1>4, <1>6 DEF OfSide
  <1>9. Lists(new, u, side, y + VolumeOf(v.parts))
    BY <1>4, <1>6, <1>8 DEF Lists
  <1>10. ASSUME NEW w \in Users, NEW s \in Sides, w # u \/ s # side
        PROVE  /\ ListsNothing(acc, w, s) => ListsNothing(new, w, s)
               /\ \A x : Lists(acc, w, s, x) => Lists(new, w, s, x)
    <2>1. OfSide(new, w, s) = OfSide(acc, w, s) /\ i \notin OfSide(acc, w, s)
      BY <1>2, <1>4, <1>6, <1>10 DEF OfSide
    <2> QED
      BY <1>6, <2>1 DEF Lists, ListsNothing
  <1> QED
    BY <1>7, <1>9, <1>10 DEF new

\* What is listed when a volume is added for a user on one side.
MergedIn(acc, new, u, side, x) ==
    /\ ListOK(new)
    /\ ListsNothing(acc, u, side) => Lists(new, u, side, x)
    /\ \A y : Lists(acc, u, side, y) => Lists(new, u, side, y + x)
    /\ \A w \in Users, s \in Sides : w # u \/ s # side =>
          /\ ListsNothing(acc, w, s) => ListsNothing(new, w, s)
          /\ \A y : Lists(acc, w, s, y) => Lists(new, w, s, y)
LEMMA EntryMerged ==
    ASSUME NEW acc, ListOK(acc), NEW u \in Users, NEW side \in Sides, NEW v, VolumeOK(v),
           ListsNothing(acc, u, side) \/ \E y : Lists(acc, u, side, y)
    PROVE  MergedIn(acc, Merge(acc, u, side, v, OfSide(acc, u, side)), u, side, VolumeOf(v.parts))
  <1> DEFINE new == Merge(acc, u, side, v, OfSide(acc, u, side))
             x == VolumeOf(v.parts)
  <1>1. CASE ListsNothing(acc, u, side)
    <2>1. /\ ListOK(new) /\ Lists(new, u, side, x)
          /\ \A w \in Users, s \in Sides : w # u \/ s # side =>
                /\ ListsNothing(acc, w, s) => ListsNothing(new, w, s)
                /\ \A y : Lists(acc, w, s, y) => Lists(new, w, s, y)
      BY <1>1, EntryAdded
    <2>2. \A y : ~Lists(acc, u, side, y)
      BY <1>1 DEF Lists, ListsNothing
    <2> HIDE DEF new, x
    <2>3. MergedIn(acc, new, u, side, x)
      BY <2>1, <2>2 DEF MergedIn
    <2> QED
      BY <2>3 DEF new, x
  <1>2. CASE ~ListsNothing(acc, u, side)
    <2>1. ASSUME NEW y, Lists(acc, u, side, y)
          PROVE  /\ ListOK(new) /\ Lists(new, u, side, y + x)
                 /\ \A w \in Users, s \in Sides : w # u \/ s # side =>
                       /\ ListsNothing(acc, w, s) => ListsNothing(new, w, s)
                       /\ \A z : Lists(acc, w, s, z) => Lists(new, w, s, z)
      BY <2>1, EntryGrows
    <2>2. \E y : Lists(acc, u, side, y)
      BY <1>2
    <2> HIDE DEF new, x
    <2>3. MergedIn(acc, new, u, side, x)
      BY <1>2, <2>1, <2>2 DEF MergedIn
    <2> QED
      BY <2>3 DEF new, x
  <1> QED
    BY <1>1, <1>2

\* The matches of a user on one side among the first k of a list, their volume,
\* and a list of entries that tells them.
PartyOf(f, side) == IF side = "BUY" THEN f.buyUserId ELSE f.sellUserId
MineOf(fs, k, u, side) == {n \in 1 .. k : PartyOf(fs[n], side) = u}
MineTotal(fs, k, u, side) ==
    SumOver(MineOf(fs, k, u, side), [m \in MineOf(fs, k, u, side) |-> fs[m].volume.parts[1]])
TalliedOf(acc, fs, k, u, side) ==
    /\ MineOf(fs, k, u, side) = {} => ListsNothing(acc, u, side)
    /\ MineOf(fs, k, u, side) # {} => Lists(acc, u, side, MineTotal(fs, k, u, side))
Tallied(acc, fs, k) ==
    ListOK(acc) /\ \A u \in Users, side \in Sides : TalliedOf(acc, fs, k, u, side)

\* One match more is one of its two users' own, on each side.
LEMMA MineGrows ==
    ASSUME NEW fs, FillsOK(fs), NEW k \in Nat, k + 1 \in DOMAIN fs, NEW u, NEW side
    PROVE  LET f == fs[k + 1]
           IN  /\ PartyOf(f, side) # u => MineOf(fs, k + 1, u, side) = MineOf(fs, k, u, side)
               /\ PartyOf(f, side) = u =>
                    /\ MineOf(fs, k + 1, u, side) # {}
                    /\ MineOf(fs, k, u, side) = {} =>
                          MineTotal(fs, k + 1, u, side) = VolumeOf(f.volume.parts)
                    /\ MineTotal(fs, k + 1, u, side)
                         = MineTotal(fs, k, u, side) + VolumeOf(f.volume.parts)
  <1> DEFINE f == fs[k + 1]
             A == MineOf(fs, k, u, side)
             B == MineOf(fs, k + 1, u, side)
             g == [m \in A |-> fs[m].volume.parts[1]]
             h == [m \in B |-> fs[m].volume.parts[1]]
  <1>1. PICK j \in Nat : j = k + 1 /\ j # k /\ 1 .. j = (1 .. k) \cup {j} /\ j \notin 1 .. k
    OBVIOUS
  <1>2. PartyOf(f, side) # u => B = A
    BY <1>1 DEF MineOf
  <1>3. PartyOf(f, side) = u => B = A \cup {j} /\ j \in B /\ B \ {j} = A
    BY <1>1 DEF MineOf
  <1>4. /\ \A n \in 1 .. j : fs[n].volume.parts[1] \in Nat
        /\ VolumeOf(f.volume.parts) = fs[j].volume.parts[1]
    <2>1. \A n \in 1 .. j : n \in DOMAIN fs
      BY <1>1 DEF FillsOK
    <2>2. f.volume.parts \in Seq(Nat) /\ Len(f.volume.parts) = 1
      BY <1>1 DEF FillsOK, FillOK
    <2>3. VolumeOf(f.volume.parts) = f.volume.parts[1]
      BY <2>2, VolumeOfNat
    <2>4. f = fs[j]
      BY <1>1
    <2>5. \A n \in DOMAIN fs : fs[n].volume.parts[1] \in Nat
      BY DEF FillsOK, FillOK
    <2> QED
      BY <2>1, <2>3, <2>4, <2>5
  <1>5. IsFiniteSet(A) /\ IsFiniteSet(B)
    <2>1. A \in SUBSET (1 .. k) /\ B \in SUBSET (1 .. j)
      BY <1>1 DEF MineOf
    <2> QED
      BY <2>1, IdsAreFinite
  <1>6. /\ \A m \in A : g[m] = h[m] \/ m \notin B
        /\ \A m \in B : h[m] \in Nat /\ h[m] = fs[m].volume.parts[1]
    BY <1>1, <1>4 DEF MineOf
  <1>7. MineTotal(fs, k, u, side) = SumOver(A, g) /\ MineTotal(fs, k + 1, u, side) = SumOver(B, h)
    BY DEF MineTotal
  <1>8. ASSUME PartyOf(f, side) = u
        PROVE  /\ SumOver(B, h) = SumOver(A, g) + VolumeOf(f.volume.parts)
               /\ A = {} => SumOver(B, h) = VolumeOf(f.volume.parts)
    <2> DEFINE w == VolumeOf(f.volume.parts)
    <2>1. B = A \cup {j} /\ j \in B /\ B \ {j} = A
      BY <1>3, <1>8
    <2>2. h[j] = w /\ h[j] \in Nat
      BY <1>4, <1>6, <2>1
    <2> HIDE DEF A, B, g, h, f, w
    <2>3. SumOver(B, h) = SumOver(B \ {j}, h) + h[j]
      <3>1. IsFiniteSet(B) /\ j \in B
        BY <1>5, <2>1
      <3>2. \A m \in B : h[m] \in Nat
        BY <1>6
      <3> QED
        BY <3>1, <3>2, SumSplit
    <2>4. SumOver(A, h) = SumOver(A, g)
      <3>1. \A m \in A : g[m] = h[m]
        BY <1>6, <2>1
      <3> QED
        BY <3>1, SumSame
    <2>5. A = {} => SumOver(B, h) = w
      <3>1. ASSUME A = {} PROVE B = {j}
        BY <2>1, <3>1
      <3> QED
        BY <2>2, <3>1, SumSingle
    <2>6. SumOver(B, h) = SumOver(A, g) + w
      BY <2>1, <2>2, <2>3, <2>4
    <2> QED
      BY <2>5, <2>6 DEF w
  <1>9. PartyOf(f, side) = u => B # {}
    BY <1>3
  <1> HIDE DEF f, A, B, g, h
  <1>10. /\ PartyOf(f, side) # u => B = A
         /\ PartyOf(f, side) = u =>
              /\ B # {}
              /\ A = {} => MineTotal(fs, k + 1, u, side) = VolumeOf(f.volume.parts)
              /\ MineTotal(fs, k + 1, u, side)
                   = MineTotal(fs, k, u, side) + VolumeOf(f.volume.parts)
    BY <1>2, <1>7, <1>8, <1>9
  <1> QED
    BY <1>10 DEF f, A, B

\* One match more is told of when it is added to the list.
LEMMA MatchAdded ==
    ASSUME NEW fs, FillsOK(fs), NEW k \in Nat, k + 1 \in DOMAIN fs, NEW acc, Tallied(acc, fs, k)
    PROVE  Tallied(AddMatch(acc, fs[k + 1]), fs, k + 1)
  <1> DEFINE f == fs[k + 1]
             b == f.buyUserId
             s == f.sellUserId
             x == VolumeOf(f.volume.parts)
             buy == Merge(acc, b, "BUY", f.volume, OfSide(acc, b, "BUY"))
             new == Merge(buy, s, "SELL", f.volume, OfSide(buy, s, "SELL"))
  <1>1. b \in Users /\ s \in Users /\ VolumeOK(f.volume)
    <2>1. FillOK(f)
      BY DEF FillsOK
    <2>2. f.volume.parts # <<>>
      BY <2>1 DEF FillOK
    <2> QED
      BY <2>1, <2>2 DEF FillOK, VolumeOK
  <1>2. AddMatch(acc, f) = new
    BY DEF AddMatch
  <1>3. "BUY" \in Sides /\ "SELL" \in Sides
    BY DEF Sides
  <1>4. \A u \in Users, side \in Sides : TalliedOf(acc, fs, k, u, side)
    BY DEF Tallied
  <1>5. MergedIn(acc, buy, b, "BUY", x)
    <2>1. ListsNothing(acc, b, "BUY") \/ \E y : Lists(acc, b, "BUY", y)
      BY <1>1, <1>3, <1>4 DEF TalliedOf
    <2>2. ListOK(acc)
      BY DEF Tallied
    <2> HIDE DEF f, b
    <2> QED
      BY <1>1, <1>3, <2>1, <2>2, EntryMerged
  <1> HIDE DEF buy
  <1>6. MergedIn(buy, new, s, "SELL", x)
    <2>1. ListsNothing(acc, s, "SELL") \/ \E y : Lists(acc, s, "SELL", y)
      BY <1>1, <1>3, <1>4 DEF TalliedOf
    <2>2. ListOK(buy) /\ (ListsNothing(buy, s, "SELL") \/ \E y : Lists(buy, s, "SELL", y))
      BY <1>1, <1>3, <1>5, <2>1 DEF MergedIn
    <2> HIDE DEF f, s
    <2> QED
      BY <1>1, <1>3, <2>2, EntryMerged
  <1> HIDE DEF new
  <1>7. ASSUME NEW u \in Users
        PROVE  TalliedOf(new, fs, k + 1, u, "BUY")
    <2>1. TalliedOf(acc, fs, k, u, "BUY")
      BY <1>3, <1>4, <1>7
    <2>2. PartyOf(f, "BUY") = b
      BY DEF PartyOf
    <2>3. TalliedOf(buy, fs, k + 1, u, "BUY")
      <3>1. CASE u # b
        <4>1. MineOf(fs, k + 1, u, "BUY") = MineOf(fs, k, u, "BUY")
          BY <2>2, <3>1, MineGrows
        <4>2. MineTotal(fs, k + 1, u, "BUY") = MineTotal(fs, k, u, "BUY")
          BY <4>1 DEF MineTotal
        <4> HIDE DEF f, b, s, x
        <4>3. /\ ListsNothing(acc, u, "BUY") => ListsNothing(buy, u, "BUY")
              /\ \A y : Lists(acc, u, "BUY", y) => Lists(buy, u, "BUY", y)
          BY <1>3, <1>5, <1>7, <3>1 DEF MergedIn
        <4> QED
          BY <2>1, <4>1, <4>2, <4>3 DEF TalliedOf
      <3>2. CASE u = b
        <4>1. /\ MineOf(fs, k + 1, u, "BUY") # {}
              /\ MineOf(fs, k, u, "BUY") = {} => MineTotal(fs, k + 1, u, "BUY") = x
              /\ MineTotal(fs, k + 1, u, "BUY") = MineTotal(fs, k, u, "BUY") + x
          BY <2>2, <3>2, MineGrows
        <4> HIDE DEF f, b, s, x
        <4>2. /\ ListsNothing(acc, u, "BUY") => Lists(buy, u, "BUY", x)
              /\ \A y : Lists(acc, u, "BUY", y) => Lists(buy, u, "BUY", y + x)
          BY <1>5, <3>2 DEF MergedIn
        <4>3. Lists(buy, u, "BUY", MineTotal(fs, k + 1, u, "BUY"))
          BY <2>1, <4>1, <4>2 DEF TalliedOf
        <4> QED
          BY <4>1, <4>3 DEF TalliedOf
      <3> QED
        BY <3>1, <3>2
    <2> HIDE DEF f, b, s, x
    <2>4. /\ ListsNothing(buy, u, "BUY") => ListsNothing(new, u, "BUY")
          /\ \A y : Lists(buy, u, "BUY", y) => Lists(new, u, "BUY", y)
      BY <1>3, <1>6, <1>7 DEF MergedIn
    <2> QED
      BY <2>3, <2>4 DEF TalliedOf
  <1>8. ASSUME NEW u \in Users
        PROVE  TalliedOf(new, fs, k + 1, u, "SELL")
    <2>1. TalliedOf(acc, fs, k, u, "SELL")
      BY <1>3, <1>4, <1>8
    <2>2. PartyOf(f, "SELL") = s
      BY DEF PartyOf
    <2>3. TalliedOf(buy, fs, k, u, "SELL")
      <3> HIDE DEF f, b, s, x
      <3>1. /\ ListsNothing(acc, u, "SELL") => ListsNothing(buy, u, "SELL")
            /\ \A y : Lists(acc, u, "SELL", y) => Lists(buy, u, "SELL", y)
        BY <1>3, <1>5, <1>8 DEF MergedIn
      <3> QED
        BY <2>1, <3>1 DEF TalliedOf
    <2>4. CASE u # s
      <3>1. MineOf(fs, k + 1, u, "SELL") = MineOf(fs, k, u, "SELL")
        BY <2>2, <2>4, MineGrows
      <3>2. MineTotal(fs, k + 1, u, "SELL") = MineTotal(fs, k, u, "SELL")
        BY <3>1 DEF MineTotal
      <3> HIDE DEF f, b, s, x
      <3>3. /\ ListsNothing(buy, u, "SELL") => ListsNothing(new, u, "SELL")
            /\ \A y : Lists(buy, u, "SELL", y) => Lists(new, u, "SELL", y)
        BY <1>3, <1>6, <1>8, <2>4 DEF MergedIn
      <3> QED
        BY <2>3, <3>1, <3>2, <3>3 DEF TalliedOf
    <2>5. CASE u = s
      <3>1. /\ MineOf(fs, k + 1, u, "SELL") # {}
            /\ MineOf(fs, k, u, "SELL") = {} => MineTotal(fs, k + 1, u, "SELL") = x
            /\ MineTotal(fs, k + 1, u, "SELL") = MineTotal(fs, k, u, "SELL") + x
        BY <2>2, <2>5, MineGrows
      <3> HIDE DEF f, b, s, x
      <3>2. /\ ListsNothing(buy, u, "SELL") => Lists(new, u, "SELL", x)
            /\ \A y : Lists(buy, u, "SELL", y) => Lists(new, u, "SELL", y + x)
        BY <1>6, <2>5 DEF MergedIn
      <3>3. Lists(new, u, "SELL", MineTotal(fs, k + 1, u, "SELL"))
        BY <2>3, <3>1, <3>2 DEF TalliedOf
      <3> QED
        BY <3>1, <3>3 DEF TalliedOf
    <2> QED
      BY <2>4, <2>5
  <1>9. ListOK(new)
    BY <1>6 DEF MergedIn
  <1> HIDE DEF f
  <1>10. Tallied(new, fs, k + 1)
    BY <1>7, <1>8, <1>9 DEF Tallied, Sides
  <1>11. AddMatch(acc, f) = new
    BY <1>2
  <1> QED
    BY <1>10, <1>11 DEF f

\* The lists that filteringMathcingOrder makes of the first k matches, for each k
\* up to n: there are such lists.
IsListed(l, fs, n) ==
    /\ DOMAIN l = 0 .. n /\ l[0] = <<>>
    /\ \A k \in 0 .. n - 1 : l[k + 1] = AddMatch(l[k], fs[k + 1])
LEMMA ListedFurther ==
    ASSUME NEW fs, NEW n \in Nat, NEW l, IsListed(l, fs, n)
    PROVE  \E m : IsListed(m, fs, n + 1)
  <1> DEFINE x == AddMatch(l[n], fs[n + 1])
             m == [k \in 0 .. n + 1 |-> IF k = n + 1 THEN x ELSE l[k]]
  <1>1. DOMAIN m = 0 .. n + 1 /\ m[0] = <<>>
    BY DEF IsListed
  <1>2. ASSUME NEW k \in 0 .. n + 1 - 1
        PROVE  m[k + 1] = AddMatch(m[k], fs[k + 1])
    <2>1. k \in 0 .. n + 1 /\ k + 1 \in 0 .. n + 1 /\ k # n + 1
      OBVIOUS
    <2>2. m[k] = l[k]
      BY <2>1
    <2>3. CASE k = n
      <3>1. m[k + 1] = x
        BY <2>1, <2>3
      <3> QED
        BY <2>2, <2>3, <3>1
    <2>4. CASE k # n
      <3>1. k \in 0 .. n - 1 /\ k + 1 # n + 1
        BY <2>4
      <3>2. m[k + 1] = l[k + 1]
        BY <2>1, <3>1
      <3>3. l[k + 1] = AddMatch(l[k], fs[k + 1])
        BY <3>1 DEF IsListed
      <3> QED
        BY <2>2, <3>2, <3>3
    <2> QED
      BY <2>3, <2>4
  <1> HIDE DEF m
  <1>3. IsListed(m, fs, n + 1)
    BY <1>1, <1>2 DEF IsListed
  <1> QED
    BY <1>3

\* filteringMathcingOrder gives the last of them.
LEMMA ListIsMade ==
    ASSUME NEW fs, FillsOK(fs)
    PROVE  \E l : IsListed(l, fs, Len(fs)) /\ FilteringMathcingOrder(fs) = l[Len(fs)]
  <1> DEFINE F(l) == [n \in 0 .. Len(fs) |-> IF n = 0 THEN <<>> ELSE AddMatch(l[n - 1], fs[n])]
             P == {n \in 0 .. Len(fs) : \E l : IsListed(l, fs, n)}
  <1>1. Len(fs) \in Nat
    BY DEF FillsOK
  <1>2. 0 \in P
    <2> DEFINE l == [n \in 0 .. 0 |-> <<>>]
    <2>1. DOMAIN l = 0 .. 0 /\ l[0] = <<>> /\ 0 .. 0 - 1 = {}
      OBVIOUS
    <2> HIDE DEF l
    <2>2. IsListed(l, fs, 0)
      BY <2>1 DEF IsListed
    <2> QED
      BY <1>1, <2>2
  <1>3. \A n \in 0 .. Len(fs) - 1 : n \in P => n + 1 \in P
    <2> TAKE n \in 0 .. Len(fs) - 1
    <2>1. n \in Nat /\ n + 1 \in 0 .. Len(fs)
      BY <1>1
    <2>2. ASSUME n \in P PROVE \E l : IsListed(l, fs, n + 1)
      BY <2>1, <2>2, ListedFurther
    <2> QED
      BY <2>1, <2>2
  <1>4. Len(fs) \in P
    <2>1. Len(fs) \in 0 .. Len(fs)
      BY <1>1
    <2> HIDE DEF P
    <2>2. \A n \in 0 .. Len(fs) : n \in P
      BY <1>1, <1>2, <1>3, CountingUp
    <2> QED
      BY <2>1, <2>2
  <1>5. PICK l : IsListed(l, fs, Len(fs))
    BY <1>4
  <1>6. \E k : k = [n \in 0 .. Len(fs) |-> l[n]] /\ k = F(k)
    <2> DEFINE k == [n \in 0 .. Len(fs) |-> l[n]]
    <2>1. ASSUME NEW n \in 0 .. Len(fs)
          PROVE  k[n] = (IF n = 0 THEN <<>> ELSE AddMatch(k[n - 1], fs[n]))
      <3>1. CASE n = 0
        BY <1>5, <3>1 DEF IsListed
      <3>2. CASE n # 0
        <4>1. n - 1 \in 0 .. Len(fs) - 1 /\ n - 1 \in 0 .. Len(fs) /\ (n - 1) + 1 = n
          BY <1>1, <3>2
        <4>2. l[n] = AddMatch(l[n - 1], fs[n])
          BY <1>5, <4>1 DEF IsListed
        <4> QED
          BY <3>2, <4>1, <4>2
      <3> QED
        BY <3>1, <3>2
    <2>2. k = F(k)
      BY <2>1
    <2> QED
      BY <2>2
  <1>7. PICK k : k = (CHOOSE g : g = F(g))
    OBVIOUS
  <1>8. k = F(k)
    BY <1>6, <1>7
  <1>9. FilteringMathcingOrder(fs) = k[Len(fs)]
    BY <1>7 DEF FilteringMathcingOrder
  <1>10. IsListed(k, fs, Len(fs))
    <2>1. DOMAIN k = 0 .. Len(fs)
      BY <1>8
    <2>2. \A n \in 0 .. Len(fs) : k[n] = (IF n = 0 THEN <<>> ELSE AddMatch(k[n - 1], fs[n]))
      BY <1>8
    <2>3. k[0] = <<>>
      BY <1>1, <2>2
    <2>4. ASSUME NEW n \in 0 .. Len(fs) - 1
          PROVE  k[n + 1] = AddMatch(k[n], fs[n + 1])
      <3>1. n + 1 \in 0 .. Len(fs) /\ n + 1 # 0 /\ (n + 1) - 1 = n
        BY <1>1
      <3> QED
        BY <2>2, <3>1
    <2> QED
      BY <2>1, <2>3, <2>4 DEF IsListed
  <1> QED
    BY <1>9, <1>10

\* The list of a MATCH event tells each user's matches on each side.
LEMMA MatchesAreListed ==
    ASSUME NEW fs, FillsOK(fs)
    PROVE  Tallied(FilteringMathcingOrder(fs), fs, Len(fs))
  <1>1. PICK l : IsListed(l, fs, Len(fs)) /\ FilteringMathcingOrder(fs) = l[Len(fs)]
    BY ListIsMade
  <1> DEFINE P == {n \in 0 .. Len(fs) : Tallied(l[n], fs, n)}
  <1>2. Len(fs) \in Nat /\ DOMAIN fs = 1 .. Len(fs)
    BY DEF FillsOK
  <1>3. 0 \in P
    <2>1. l[0] = <<>>
      BY <1>1 DEF IsListed
    <2>2. ListOK(<<>>) /\ \A u, side : OfSide(<<>>, u, side) = {}
      BY DEF ListOK, OfSide
    <2>3. \A u, side : MineOf(fs, 0, u, side) = {}
      BY DEF MineOf
    <2> QED
      BY <1>2, <2>1, <2>2, <2>3 DEF Tallied, TalliedOf, ListsNothing
  <1>4. \A n \in 0 .. Len(fs) - 1 : n \in P => n + 1 \in P
    <2> TAKE n \in 0 .. Len(fs) - 1
    <2>1. n \in Nat /\ n + 1 \in 0 .. Len(fs) /\ n + 1 \in DOMAIN fs
      BY <1>2
    <2>2. l[n + 1] = AddMatch(l[n], fs[n + 1])
      BY <1>1 DEF IsListed
    <2>3. ASSUME n \in P PROVE Tallied(AddMatch(l[n], fs[n + 1]), fs, n + 1)
      <3>1. Tallied(l[n], fs, n)
        BY <2>3
      <3> HIDE DEF P
      <3> QED
        BY <2>1, <3>1, MatchAdded
    <2> QED
      BY <2>1, <2>2, <2>3
  <1>5. Len(fs) \in P
    <2>1. Len(fs) \in 0 .. Len(fs)
      BY <1>2
    <2> HIDE DEF P
    <2>2. \A n \in 0 .. Len(fs) : n \in P
      BY <1>2, <1>3, <1>4, CountingUp
    <2> QED
      BY <2>1, <2>2
  <1> QED
    BY <1>1, <1>5

\* What EveryTradeIsListed says of one list of matches and its entries.
TradesListed(fs, list) ==
    \A u \in Users, side \in Sides :
        LET mine == {n \in DOMAIN fs :
                        (IF side = "BUY" THEN fs[n].buyUserId ELSE fs[n].sellUserId) = u}
            entries == {n \in DOMAIN list : list[n].userId = u /\ list[n].type = side}
        IN  /\ Cardinality(entries) = (IF mine = {} THEN 0 ELSE 1)
            /\ \A n \in entries :
                  VolumeOf(list[n].volume.parts)
                    = SumOver(mine, [m \in mine |-> fs[m].volume.parts[1]])
LEMMA TradesAreListed ==
    ASSUME NEW fs, FillsOK(fs)
    PROVE  TradesListed(fs, FilteringMathcingOrder(fs))
  <1> DEFINE list == FilteringMathcingOrder(fs)
  <1>1. Tallied(list, fs, Len(fs))
    BY MatchesAreListed
  <1>2. DOMAIN fs = 1 .. Len(fs)
    BY DEF FillsOK
  <1> HIDE DEF list
  <1>3. ASSUME NEW u \in Users, NEW side \in Sides
        PROVE  LET mine == {n \in DOMAIN fs :
                               (IF side = "BUY" THEN fs[n].buyUserId
                                                ELSE fs[n].sellUserId) = u}
                   entries == {n \in DOMAIN list : list[n].userId = u /\ list[n].type = side}
               IN  /\ Cardinality(entries) = (IF mine = {} THEN 0 ELSE 1)
                   /\ \A n \in entries :
                         VolumeOf(list[n].volume.parts)
                           = SumOver(mine, [m \in mine |-> fs[m].volume.parts[1]])
    <2> DEFINE mine == MineOf(fs, Len(fs), u, side)
               entries == OfSide(list, u, side)
    <2>1. TalliedOf(list, fs, Len(fs), u, side)
      BY <1>1 DEF Tallied
    <2>2. /\ mine = {} => entries = {}
          /\ mine # {} => \E n \in DOMAIN list :
                             entries = {n} /\ VolumeOf(list[n].volume.parts)
                                                = SumOver(mine, [m \in mine |-> fs[m].volume.parts[1]])
      BY <2>1 DEF TalliedOf, Lists, ListsNothing, MineTotal
    <2>3. /\ mine = {n \in DOMAIN fs : (IF side = "BUY" THEN fs[n].buyUserId
                                                        ELSE fs[n].sellUserId) = u}
          /\ entries = {n \in DOMAIN list : list[n].userId = u /\ list[n].type = side}
      BY <1>2 DEF MineOf, PartyOf, OfSide
    <2> HIDE DEF mine, entries
    <2>4. Cardinality(entries) = (IF mine = {} THEN 0 ELSE 1)
      BY <2>2, FS_EmptySet, FS_Singleton
    <2>5. \A n \in entries :
             VolumeOf(list[n].volume.parts)
               = SumOver(mine, [m \in mine |-> fs[m].volume.parts[1]])
      BY <2>2
    <2> QED
      BY <2>3, <2>4, <2>5
  <1> QED
    BY <1>3 DEF TradesListed, list

-----------------------------------------------------------------------------
(* The type invariant                                                       *)

ReadRequests ==
    [phase : {"read"}, nr : Nat, todo : Seq(Keys), rows : Seq(Keys \X Nat)]
HandlerOK(h) == req[h] = Idle \/ RequestOK(req[h]) \/ req[h] \in ReadRequests
EventOK(e) ==
    \/ e.name = "MATCH" /\ TradesListed(e.fills, e.list)
    \/ e.name = "FAST_BOOK" /\ e.rows \in Seq(Keys \X Nat)

TablesTyped ==
    /\ orders \in Seq(Rows)
    /\ shares \in [Users -> Nat] /\ SumOver(Users, shares) = ShareTotal
    /\ book \in [Keys -> Nat \cup {NoRow}] /\ page \in [Keys -> Nat]
HandlersTyped == DOMAIN req = Handlers /\ \A h \in Handlers : HandlerOK(h)
QueueTyped ==
    /\ queue \in Seq(Handlers) /\ IsInjective(queue)
    /\ \A h \in Handlers : h \in ToSet(queue) <=> req[h].phase = "queued"
EventsTyped == \A e \in events : EventOK(e)
CountsTyped ==
    overtaken \subseteq Keys /\ late \in BOOLEAN /\ faults \in 0 .. MaxFaults /\ sent \in Nat
ExchangeTyped == TablesTyped /\ HandlersTyped /\ QueueTyped /\ EventsTyped /\ CountsTyped

\* The three kinds of handlers differ in their phase.
LEMMA HandlerPhases ==
    ASSUME NEW h, HandlerOK(h)
    PROVE  /\ req[h].phase = "idle" <=> req[h] = Idle
           /\ req[h].phase = "queued" <=> RequestOK(req[h])
           /\ req[h].phase = "read" <=> req[h] \in ReadRequests
  <1>1. req[h] = Idle => req[h].phase = "idle"
    BY DEF Idle
  <1>2. RequestOK(req[h]) => req[h].phase = "queued"
    BY DEF RequestOK, QueuedRequests
  <1>3. req[h] \in ReadRequests => req[h].phase = "read"
    BY DEF ReadRequests
  <1> QED
    BY <1>1, <1>2, <1>3 DEF HandlerOK

\* The request at the head of the queue is one, and so is what it is answered.
LEMMA HandledRequest ==
    ASSUME ExchangeTyped, queue # <<>>, NEW funded \in BOOLEAN
    PROVE  LET h == Head(queue)
               r == req[h]
               out == Answer(r, funded)
           IN  /\ h \in Handlers /\ r.phase = "queued" /\ RequestOK(r)
               /\ AnswerTyped(out) /\ AnswerTold(r, out) /\ AnswerOffers(r, out)
  <1> DEFINE h == Head(queue)
             r == req[h]
             out == Answer(r, funded)
  <1>1. h \in Handlers /\ h \in ToSet(queue)
    BY ListTaken DEF ExchangeTyped, QueueTyped
  <1> HIDE DEF h
  <1>2. r.phase = "queued" /\ RequestOK(r)
    BY <1>1, HandlerPhases DEF ExchangeTyped, QueueTyped, HandlersTyped
  <1> HIDE DEF r, out
  <1>3. AnswerTyped(out) /\ AnswerTold(r, out) /\ AnswerOffers(r, out)
    <2>1. orders \in Seq(Rows) /\ shares \in [Users -> Nat]
      BY DEF ExchangeTyped, TablesTyped
    <2>2. out = Answer(r, funded)
      BY DEF out
    <2> QED
      BY <1>2, <2>1, <2>2, AnswerOutcome
  <1> QED
    BY <1>1, <1>2, <1>3 DEF h, r, out

\* A handler that is not touched stays what it is, while orders are only added.
LEMMA HandlerKept ==
    ASSUME NEW h, HandlerOK(h), req'[h] = req[h], DOMAIN orders \subseteq DOMAIN orders'
    PROVE  HandlerOK(h)'
  <1>1. RequestOK(req[h]) => RequestOK(req[h])'
    BY DEF RequestOK, QueuedRequests
  <1> QED
    BY <1>1 DEF HandlerOK

\* The book that Rebook gives follows the orders it is given.
LEMMA RebookFollows ==
    ASSUME book \in [Keys -> Nat \cup {NoRow}], NEW os \in Seq(Rows)
    PROVE  /\ Rebook(os) \in [Keys -> Nat \cup {NoRow}]
           /\ \A k \in Keys : /\ RowVolume(Rebook(os), k) = VolumeAt(os, k)
                              /\ Rebook(os)[k] # book[k] => /\ Rebook(os)[k] # NoRow
                                                            /\ VolumeAt(os, k) # RowVolume(book, k)
  <1>1. ASSUME NEW k \in Keys
        PROVE  /\ Rebook(os)[k] \in Nat \cup {NoRow}
               /\ RowVolume(Rebook(os), k) = VolumeAt(os, k)
               /\ Rebook(os)[k] # book[k] => /\ Rebook(os)[k] # NoRow
                                             /\ VolumeAt(os, k) # RowVolume(book, k)
    <2>1. PICK v \in Nat : v = VolumeAt(os, k)
      BY VolumeTotal
    <2>2. PICK b \in Nat \cup {NoRow} : b = book[k]
      OBVIOUS
    <2>3. Rebook(os)[k] = IF v # RowVolume(book, k) THEN v ELSE b
      BY <2>1, <2>2 DEF Rebook
    <2>4. RowVolume(book, k) = IF b = NoRow THEN 0 ELSE b
      BY <2>2 DEF RowVolume
    <2>5. RowVolume(Rebook(os), k) = IF Rebook(os)[k] = NoRow THEN 0 ELSE Rebook(os)[k]
      BY DEF RowVolume
    <2>6. v # NoRow
      BY <2>1 DEF NoRow
    <2> QED
      BY <2>1, <2>2, <2>3, <2>4, <2>5, <2>6
  <1>2. Rebook(os) = [k \in Keys |-> Rebook(os)[k]]
    BY DEF Rebook
  <1> QED
    BY <1>1, <1>2

\* The first order, the book with it, and all shares with the owner.
LEMMA FirstOrder ==
    ASSUME Init
    PROVE  /\ TablesTyped /\ \A k \in Keys : RowVolume(book, k) = VolumeAt(orders, k)
           /\ OnSaleTotal(orders) <= MaxVolume /\ shares[Owner] = ShareTotal
  <1>1. PICK v \in Volumes, a \in Amounts :
           /\ orders = <<[user |-> Owner, side |-> "SELL", amount |-> a, volume |-> v]>>
           /\ book = [k \in Keys |-> IF k = <<"SELL", a>> THEN v ELSE NoRow]
    BY DEF Init
  <1>2. v \in Nat /\ v > 0 /\ v # NoRow /\ v <= MaxVolume
    BY ShareAssumption DEF NoRow
  <1> DEFINE o == [user |-> Owner, side |-> "SELL", amount |-> a, volume |-> v]
             key == <<"SELL", a>>
  <1>3. /\ o \in Rows /\ o.volume = v /\ o.side = "SELL" /\ <<o.side, o.amount>> = key
    BY <1>2, ShareAssumption DEF Rows, Sides
  <1>4. key \in Keys
    BY DEF Keys, Sides
  <1> HIDE DEF o, key
  <1>5. orders = <<o>> /\ orders \in Seq(Rows) /\ DOMAIN orders = {1} /\ orders[1] = o
    <2>1. orders = <<o>>
      BY <1>1 DEF o
    <2> QED
      BY <1>3, <2>1
  <1>6. ASSUME NEW k \in Keys
        PROVE  RowVolume(book, k) = VolumeAt(orders, k)
    <2> DEFINE f == AtKey(orders, k)
    <2>1. VolumeAt(orders, k) = SumOver({1}, f)
      BY <1>5, VolumeTotal
    <2>2. f[1] = IF k = key THEN v ELSE 0
      BY <1>3, <1>5 DEF AtKey
    <2> HIDE DEF f
    <2>3. SumOver({1}, f) = f[1]
      BY <1>2, <2>2, SumSingle
    <2>4. book[k] = IF k = key THEN v ELSE NoRow
      BY <1>1 DEF key
    <2> QED
      BY <1>2, <2>1, <2>2, <2>3, <2>4 DEF RowVolume
  <1>7. OnSaleTotal(orders) <= MaxVolume
    <2> DEFINE f == OnSale(orders)
    <2>1. OnSaleTotal(orders) = SumOver({1}, f)
      BY <1>5 DEF OnSaleTotal
    <2>2. f[1] = v
      BY <1>3, <1>5 DEF OnSale
    <2> HIDE DEF f
    <2>3. SumOver({1}, f) = f[1]
      BY <1>2, <2>2, SumSingle
    <2> QED
      BY <1>2, <2>1, <2>2, <2>3
  <1>8. ShareTotal \in Nat /\ Owner \in Users /\ IsFiniteSet(Users)
    BY ShareAssumption
  <1>9. shares = [u \in Users |-> IF u = Owner THEN ShareTotal ELSE 0]
    BY DEF Init
  <1>10. shares \in [Users -> Nat] /\ shares[Owner] = ShareTotal
    BY <1>8, <1>9
  <1>11. SumOver(Users, shares) = ShareTotal
    <2>1. \A u \in Users : shares[u] \in Nat /\ (u # Owner => shares[u] = 0)
      BY <1>8, <1>9
    <2>2. SumOver(Users, shares) = SumOver(Users \ {Owner}, shares) + shares[Owner]
      BY <1>8, <2>1, SumSplit
    <2>3. SumOver(Users \ {Owner}, shares) = 0
      BY <2>1, SumZero
    <2> QED
      BY <1>8, <1>10, <2>2, <2>3
  <1>12. book \in [Keys -> Nat \cup {NoRow}]
    BY <1>1, <1>2
  <1>13. page \in [Keys -> Nat]
    <2>1. page = [k \in Keys |-> RowVolume(book, k)]
      BY DEF Init
    <2>2. \A k \in Keys : RowVolume(book, k) \in Nat
      BY <1>12 DEF RowVolume
    <2> QED
      BY <2>1, <2>2
  <1> QED
    BY <1>5, <1>6, <1>7, <1>10, <1>11, <1>12, <1>13 DEF TablesTyped

LEMMA InitTyped ==
    ASSUME Init
    PROVE  ExchangeTyped
  <1>1. TablesTyped
    BY FirstOrder
  <1>2. HandlersTyped
    BY DEF Init, HandlersTyped, HandlerOK
  <1>3. QueueTyped
    <2>1. queue = <<>> /\ \A h \in Handlers : req[h].phase = "idle"
      BY DEF Init, Idle
    <2>2. queue \in Seq(Handlers) /\ IsInjective(queue) /\ ToSet(queue) = {}
      BY <2>1 DEF IsInjective, ToSet
    <2> QED
      BY <2>1, <2>2 DEF QueueTyped
  <1>4. EventsTyped /\ CountsTyped
    <2>1. events = {} /\ overtaken = {} /\ late = FALSE /\ faults = 0 /\ sent = 0
      BY DEF Init
    <2>2. late \in BOOLEAN
      BY <2>1
    <2>3. faults \in 0 .. MaxFaults /\ sent \in Nat
      BY <2>1, ShareAssumption
    <2>4. overtaken \subseteq Keys /\ EventsTyped
      BY <2>1 DEF EventsTyped
    <2> QED
      BY <2>2, <2>3, <2>4 DEF CountsTyped
  <1> QED
    BY <1>1, <1>2, <1>3, <1>4 DEF ExchangeTyped

\* A request that is sent names users, prices and orders that there are, and one
\* that sells has passed the check of its handler.
LEMMA SentRequest ==
    ASSUME TablesTyped, CountsTyped, NEW r \in Requests
    PROVE  /\ RequestOK(r)
           /\ r.kind = "SELL" => CanSell(r.user, r.volume)
           /\ r.kind = "MODIFY_SELL" => CanModifySell(r.user, r.order, r.volume)
  <1>1. sent + 1 \in Nat /\ \A v \in Volumes : v \in Nat
    BY ShareAssumption DEF CountsTyped
  <1>2. \A i \in DOMAIN orders : /\ i \in Nat /\ i # 0
                                 /\ <<orders[i].side, orders[i].amount>> \in Keys
    BY OrderRows DEF TablesTyped
  <1>3. ASSUME NEW kind \in {"BUY", "SELL"}, NEW u \in Users, NEW a \in Amounts, NEW v \in Volumes,
               r = Request(kind, u, 0, a, v)
        PROVE  RequestOK(r) /\ r.kind = kind
    <2>1. r = [phase |-> "queued", nr |-> sent + 1, kind |-> kind, user |-> u, order |-> 0,
               amount |-> a, volume |-> v, was |-> <<"SELL", 0>>, fresh |-> TRUE]
      BY <1>3 DEF Request
    <2>2. v \in Nat
      BY <1>1
    <2>3. r \in QueuedRequests
      BY <1>1, <2>1, <2>2 DEF QueuedRequests
    <2>4. r.kind = kind /\ r.order = 0 /\ r.amount \in Amounts
      BY <2>1
    <2> QED
      BY <2>3, <2>4 DEF RequestOK
  <1>4. ASSUME NEW kind \in {"MODIFY_BUY", "MODIFY_SELL", "CANCEL"}, NEW u \in Users,
               NEW i \in DOMAIN orders, NEW a \in Amounts \cup {0}, NEW v \in Nat,
               kind = "CANCEL" \/ a \in Amounts, r = Request(kind, u, i, a, v)
        PROVE  RequestOK(r) /\ r.kind = kind
    <2> DEFINE key == <<orders[i].side, orders[i].amount>>
    <2>1. i \in Nat /\ i # 0 /\ key \in Keys
      BY <1>2
    <2>2. r = [phase |-> "queued", nr |-> sent + 1, kind |-> kind, user |-> u, order |-> i,
               amount |-> a, volume |-> v, was |-> key, fresh |-> TRUE]
      BY <1>4, <2>1 DEF Request
    <2> HIDE DEF key
    <2>3. r \in QueuedRequests
      BY <1>1, <2>1, <2>2 DEF QueuedRequests
    <2>4. r.kind = kind /\ r.order = i /\ r.amount = a /\ r.was = key
      BY <2>2
    <2> QED
      BY <1>4, <2>1, <2>3, <2>4 DEF RequestOK
  <1>5. CASE r \in BuyRequests
    <2>1. PICK u \in Users, a \in Amounts, v \in Volumes : r = Request("BUY", u, 0, a, v)
      BY <1>5 DEF BuyRequests
    <2> QED
      BY <1>3, <2>1
  <1>6. CASE r \in SellRequests
    <2>1. CanSell(r.user, r.volume)
      BY <1>6 DEF SellRequests
    <2>2. PICK u \in Users, a \in Amounts, v \in Volumes : r = Request("SELL", u, 0, a, v)
      BY <1>6 DEF SellRequests
    <2> QED
      BY <1>3, <2>1, <2>2
  <1>7. CASE r \in ModifyBuyRequests
    <2>1. PICK u \in Users, i \in DOMAIN orders, a \in Amounts, v \in Volumes :
             r = Request("MODIFY_BUY", u, i, a, v)
      BY <1>7 DEF ModifyBuyRequests
    <2>2. v \in Nat
      BY <1>1
    <2> QED
      BY <1>4, <2>1, <2>2
  <1>8. CASE r \in ModifySellRequests
    <2>1. CanModifySell(r.user, r.order, r.volume)
      BY <1>8 DEF ModifySellRequests
    <2>2. PICK u \in Users, i \in DOMAIN orders, a \in Amounts, v \in Volumes :
             r = Request("MODIFY_SELL", u, i, a, v)
      BY <1>8 DEF ModifySellRequests
    <2>3. v \in Nat
      BY <1>1
    <2> QED
      BY <1>4, <2>1, <2>2, <2>3
  <1>9. CASE r \in CancelRequests
    <2>1. PICK u \in Users, i \in DOMAIN orders : r = Request("CANCEL", u, i, 0, 0)
      BY <1>9 DEF CancelRequests
    <2> QED
      BY <1>4, <2>1
  <1> QED
    BY <1>5, <1>6, <1>7, <1>8, <1>9 DEF Requests

\* Send keeps the types.
LEMMA SendTyped ==
    ASSUME ExchangeTyped, NEW h \in Handlers, NEW r \in Requests, Send(h, r)
    PROVE  ExchangeTyped'
  <1>1. RequestOK(r)
    BY SentRequest DEF ExchangeTyped
  <1>2. /\ req[h] = Idle /\ req' = [req EXCEPT ![h] = r] /\ queue' = Append(queue, h)
        /\ sent' = sent + 1
        /\ UNCHANGED <<orders, shares, book, events, page, overtaken, late, faults>>
    BY DEF Send, db
  <1>3. TablesTyped'
    BY <1>2 DEF ExchangeTyped, TablesTyped
  <1>4. /\ DOMAIN req' = Handlers /\ req'[h] = r
        /\ \A g \in Handlers : g # h => req'[g] = req[g]
    BY <1>2 DEF ExchangeTyped, HandlersTyped
  <1>5. HandlersTyped'
    <2>1. ASSUME NEW g \in Handlers
          PROVE  HandlerOK(g)'
      <3>1. CASE g = h
        <4>1. RequestOK(r)'
          BY <1>1, <1>2 DEF RequestOK
        <4> QED
          BY <1>4, <3>1, <4>1 DEF HandlerOK
      <3>2. CASE g # h
        BY <1>2, <1>4, <3>2, HandlerKept DEF ExchangeTyped, HandlersTyped
      <3> QED
        BY <3>1, <3>2
    <2> QED
      BY <1>4, <2>1 DEF HandlersTyped
  <1>6. QueueTyped'
    <2>1. h \notin ToSet(queue)
      BY <1>2 DEF ExchangeTyped, QueueTyped, Idle
    <2>2. /\ queue' \in Seq(Handlers) /\ IsInjective(queue')
          /\ ToSet(queue') = ToSet(queue) \cup {h}
      BY <1>2, <2>1, ListAppended DEF ExchangeTyped, QueueTyped
    <2>3. r.phase = "queued"
      BY <1>1 DEF RequestOK, QueuedRequests
    <2>4. \A g \in Handlers : g \in ToSet(queue)' <=> req'[g].phase = "queued"
      BY <1>4, <2>2, <2>3 DEF ExchangeTyped, QueueTyped
    <2> QED
      BY <2>2, <2>4 DEF QueueTyped
  <1>7. EventsTyped' /\ CountsTyped'
    BY <1>2 DEF ExchangeTyped, EventsTyped, EventOK, CountsTyped
  <1> QED
    BY <1>3, <1>5, <1>6, <1>7 DEF ExchangeTyped

\* What the daemon does with the request at the head of the queue.
HandledAs(h, r, out) ==
    /\ orders' = out.orders /\ shares' = out.shares /\ book' = Rebook(out.orders)
    /\ DOMAIN req' = Handlers
    /\ req'[h] = IF out.ok THEN [phase |-> "read", nr |-> r.nr, todo |-> RowsToRead(r, out),
                                 rows |-> <<>>]
                 ELSE Idle
    /\ \A g \in Handlers \ {h} :
          req'[g] = IF req[g].phase = "queued" THEN [req[g] EXCEPT !.fresh = FALSE] ELSE req[g]
    /\ overtaken' = overtaken \cup
          ({k \in Keys : Rebook(out.orders)[k] # book[k]} \cap (OnTheWay \cup Untold(r, out)))
    /\ late' = (late \/ (Side(r) = "SELL" /\ ~r.fresh))
    /\ events' = IF out.fills = <<>> THEN events
                 ELSE events \cup {[name |-> "MATCH", nr |-> r.nr, fills |-> out.fills,
                                    list |-> FilteringMathcingOrder(out.fills)]}
    /\ queue' = Tail(queue) /\ UNCHANGED <<page, sent, faults>>
LEMMA HandleCase ==
    ASSUME ExchangeTyped, NEW funded \in BOOLEAN, Handle(funded)
    PROVE  \E h, r, out :
              /\ h \in Handlers /\ h = Head(queue) /\ r = req[h] /\ r.phase = "queued" /\ RequestOK(r)
              /\ AnswerTyped(out) /\ AnswerTold(r, out) /\ AnswerOffers(r, out)
              /\ HandledAs(h, r, out)
  <1> DEFINE h == Head(queue)
             r == req[h]
             out == Answer(r, funded)
  <1>1. queue # <<>>
    BY DEF Handle
  <1>2. /\ h \in Handlers /\ r.phase = "queued" /\ RequestOK(r)
        /\ AnswerTyped(out) /\ AnswerTold(r, out) /\ AnswerOffers(r, out)
    BY <1>1, HandledRequest
  <1>3. /\ orders' = out.orders /\ shares' = out.shares /\ book' = Rebook(out.orders)
        /\ req' = [g \in Handlers |->
                      IF g = h THEN IF out.ok THEN [phase |-> "read", nr |-> r.nr,
                                                    todo |-> IF out.ok THEN RowsToRead(r, out) ELSE <<>>,
                                                    rows |-> <<>>]
                                    ELSE Idle
                      ELSE IF req[g].phase = "queued" THEN [req[g] EXCEPT !.fresh = FALSE]
                      ELSE req[g]]
        /\ overtaken' = overtaken \cup
              ({k \in Keys : Rebook(out.orders)[k] # book[k]} \cap (OnTheWay \cup Untold(r, out)))
        /\ late' = (late \/ (Side(r) = "SELL" /\ ~r.fresh))
        /\ events' = (IF out.fills = <<>> THEN events
                      ELSE events \cup {[name |-> "MATCH", nr |-> r.nr, fills |-> out.fills,
                                         list |-> FilteringMathcingOrder(out.fills)]})
        /\ queue' = Tail(queue) /\ UNCHANGED <<page, sent, faults>>
    BY Zenon DEF Handle
  <1> HIDE DEF h, r, out
  <1>4. HandledAs(h, r, out)
    <2>1. DOMAIN req' = Handlers
      BY <1>3
    <2>2. req'[h] = IF out.ok THEN [phase |-> "read", nr |-> r.nr, todo |-> RowsToRead(r, out),
                                    rows |-> <<>>]
                    ELSE Idle
      BY <1>2, <1>3
    <2>3. \A g \in Handlers \ {h} :
             req'[g] = IF req[g].phase = "queued" THEN [req[g] EXCEPT !.fresh = FALSE] ELSE req[g]
      BY <1>3
    <2> QED
      BY <1>3, <2>1, <2>2, <2>3 DEF HandledAs
  <1> QED
    BY <1>2, <1>4 DEF h, r

\* Handle keeps the types.
LEMMA HandleTyped ==
    ASSUME ExchangeTyped, NEW funded \in BOOLEAN, Handle(funded)
    PROVE  ExchangeTyped'
  <1>1. PICK h, r, out :
           /\ h \in Handlers /\ h = Head(queue) /\ r = req[h] /\ r.phase = "queued" /\ RequestOK(r)
           /\ AnswerTyped(out) /\ AnswerTold(r, out) /\ AnswerOffers(r, out)
           /\ HandledAs(h, r, out)
    BY HandleCase
  <1>2. /\ out.orders \in Seq(Rows) /\ DOMAIN orders \subseteq DOMAIN out.orders
        /\ out.shares \in [Users -> Nat] /\ SumOver(Users, out.shares) = SumOver(Users, shares)
    BY <1>1 DEF AnswerTyped
  <1>3. orders' = out.orders /\ shares' = out.shares /\ book' = Rebook(out.orders) /\ page' = page
    BY <1>1 DEF HandledAs
  <1>4. TablesTyped'
    <2>1. book' \in [Keys -> Nat \cup {NoRow}]
      BY <1>2, <1>3, RebookFollows DEF ExchangeTyped, TablesTyped
    <2> QED
      BY <1>2, <1>3, <2>1 DEF ExchangeTyped, TablesTyped
  <1>5. HandlersTyped'
    <2>1. ASSUME NEW g \in Handlers
          PROVE  HandlerOK(g)'
      <3>1. HandlerOK(g) /\ DOMAIN orders \subseteq DOMAIN orders'
        BY <1>2, <1>3 DEF ExchangeTyped, HandlersTyped
      <3>2. CASE g = h
        <4>1. req'[h] = IF out.ok THEN [phase |-> "read", nr |-> r.nr,
                                        todo |-> RowsToRead(r, out), rows |-> <<>>]
                        ELSE Idle
          BY <1>1 DEF HandledAs
        <4>2. r.nr \in Nat /\ RowsToRead(r, out) \in Seq(Keys)
          BY <1>1 DEF AnswerTold, RequestOK, QueuedRequests
        <4>3. [phase |-> "read", nr |-> r.nr, todo |-> RowsToRead(r, out), rows |-> <<>>]
                \in ReadRequests
          BY <4>2 DEF ReadRequests
        <4> QED
          BY <3>2, <4>1, <4>3 DEF HandlerOK
      <3>3. CASE g # h /\ req[g].phase # "queued"
        <4>1. req'[g] = req[g]
          BY <1>1, <3>3 DEF HandledAs
        <4> QED
          BY <3>1, <4>1, HandlerKept
      <3>4. CASE g # h /\ req[g].phase = "queued"
        <4>1. req'[g] = [req[g] EXCEPT !.fresh = FALSE]
          BY <1>1, <3>4 DEF HandledAs
        <4>2. RequestOK(req[g])
          BY <3>1, <3>4, HandlerPhases
        <4>3. req'[g] \in QueuedRequests
          BY <4>1, <4>2 DEF RequestOK, QueuedRequests
        <4>4. /\ req'[g].kind = req[g].kind /\ req'[g].order = req[g].order
              /\ req'[g].amount = req[g].amount /\ req'[g].was = req[g].was
          BY <4>1, <4>2 DEF RequestOK, QueuedRequests
        <4>5. RequestOK(req[g])'
          BY <3>1, <4>2, <4>3, <4>4 DEF RequestOK
        <4> QED
          BY <4>5 DEF HandlerOK
      <3> QED
        BY <3>2, <3>3, <3>4
    <2> QED
      BY <1>1, <2>1 DEF HandledAs, HandlersTyped
  <1>6. QueueTyped'
    <2>1. queue # <<>> /\ queue' = Tail(queue) /\ queue \in Seq(Handlers) /\ IsInjective(queue)
      BY DEF Handle, ExchangeTyped, QueueTyped
    <2>2. /\ queue' \in Seq(Handlers) /\ IsInjective(queue') /\ h \notin ToSet(queue')
          /\ ToSet(queue) = ToSet(queue') \cup {h}
      BY <1>1, <2>1, ListTaken
    <2>3. ASSUME NEW g \in Handlers
          PROVE  g \in ToSet(queue') <=> req'[g].phase = "queued"
      <3>1. CASE g = h
        <4>1. req'[h].phase # "queued"
          BY <1>1 DEF HandledAs, Idle
        <4> QED
          BY <2>2, <3>1, <4>1
      <3>2. CASE g # h
        <4>1. HandlerOK(g)
          BY DEF ExchangeTyped, HandlersTyped
        <4>2. req[g].phase = "queued" => RequestOK(req[g])
          BY <4>1, HandlerPhases
        <4>3. RequestOK(req[g]) => [req[g] EXCEPT !.fresh = FALSE].phase = req[g].phase
          BY DEF RequestOK, QueuedRequests
        <4>4. req'[g] = IF req[g].phase = "queued" THEN [req[g] EXCEPT !.fresh = FALSE]
                        ELSE req[g]
          BY <1>1, <3>2 DEF HandledAs
        <4>5. req'[g].phase = "queued" <=> req[g].phase = "queued"
          BY <4>2, <4>3, <4>4
        <4>6. g \in ToSet(queue) <=> req[g].phase = "queued"
          BY DEF ExchangeTyped, QueueTyped
        <4> QED
          BY <2>2, <3>2, <4>5, <4>6
      <3> QED
        BY <3>1, <3>2
    <2> QED
      BY <2>2, <2>3 DEF QueueTyped
  <1>7. EventsTyped'
    <2> DEFINE fs == out.fills
               m == [name |-> "MATCH", nr |-> r.nr, fills |-> fs, list |-> FilteringMathcingOrder(fs)]
    <2>1. events' = events \/ events' = events \cup {m}
      BY <1>1 DEF HandledAs
    <2>2. TradesListed(fs, FilteringMathcingOrder(fs))
      BY <1>1, TradesAreListed DEF AnswerTyped
    <2>3. EventOK(m)
      BY <2>2 DEF EventOK
    <2> HIDE DEF m
    <2> QED
      BY <2>1, <2>3 DEF ExchangeTyped, EventsTyped, EventOK
  <1>8. CountsTyped'
    <2>1. overtaken' \subseteq Keys
      BY <1>1 DEF HandledAs, ExchangeTyped, CountsTyped
    <2>2. late' \in BOOLEAN
      BY <1>1 DEF HandledAs, ExchangeTyped, CountsTyped
    <2>3. faults' = faults /\ sent' = sent
      BY <1>1 DEF HandledAs
    <2> QED
      BY <2>1, <2>2, <2>3 DEF ExchangeTyped, CountsTyped
  <1> QED
    BY <1>4, <1>5, <1>6, <1>7, <1>8 DEF ExchangeTyped

\* A handler that reads goes on, or its request is over.
LEMMA HandlerMoved ==
    ASSUME ExchangeTyped, NEW h \in Handlers, req[h].phase = "read",
           NEW x, x = Idle \/ x \in ReadRequests, req' = [req EXCEPT ![h] = x],
           UNCHANGED <<orders, queue>>
    PROVE  /\ HandlersTyped' /\ QueueTyped' /\ req'[h] = x
           /\ \A g \in Handlers : g # h => req'[g] = req[g]
  <1>1. /\ DOMAIN req' = Handlers /\ req'[h] = x
        /\ \A g \in Handlers : g # h => req'[g] = req[g]
    BY DEF ExchangeTyped, HandlersTyped
  <1>2. orders' = orders /\ queue' = queue
    OBVIOUS
  <1>3. HandlersTyped'
    <2>1. ASSUME NEW g \in Handlers
          PROVE  HandlerOK(g)'
      <3>1. CASE g = h
        BY <1>1, <3>1 DEF HandlerOK
      <3>2. CASE g # h
        BY <1>1, <1>2, <3>2, HandlerKept DEF ExchangeTyped, HandlersTyped
      <3> QED
        BY <3>1, <3>2
    <2> QED
      BY <1>1, <2>1 DEF HandlersTyped
  <1>4. QueueTyped'
    <2>1. x.phase # "queued"
      BY DEF Idle, ReadRequests
    <2>2. \A g \in Handlers : g \in ToSet(queue) <=> req'[g].phase = "queued"
      BY <1>1, <2>1 DEF ExchangeTyped, QueueTyped
    <2> QED
      BY <1>2, <2>2 DEF ExchangeTyped, QueueTyped
  <1> QED
    BY <1>1, <1>3, <1>4

\* What a handler that reads does with the next row.
RowRead(h, k, x) ==
    /\ k \in Keys /\ k = Head(req[h].todo) /\ x \in ReadRequests /\ x.nr = req[h].nr
    /\ x.todo = Tail(req[h].todo)
    /\ x.rows = IF book[k] = NoRow THEN req[h].rows ELSE Append(req[h].rows, <<k, book[k]>>)
    /\ req' = [req EXCEPT ![h] = x]
    /\ ToSet(req[h].todo) = ToSet(x.todo) \cup {k}
    /\ book[k] # NoRow => book[k] \in Nat
LEMMA ReadRowCase ==
    ASSUME ExchangeTyped, NEW h \in Handlers, ReadRow(h)
    PROVE  \E k, x : RowRead(h, k, x)
  <1> DEFINE todo == req[h].todo
             rows == req[h].rows
             k == Head(todo)
             more == IF book[k] = NoRow THEN rows ELSE Append(rows, <<k, book[k]>>)
             x == [req[h] EXCEPT !.todo = Tail(todo), !.rows = more]
  <1>1. req[h].phase = "read" /\ todo # <<>>
    BY DEF ReadRow
  <1>2. req[h] \in ReadRequests /\ DOMAIN req = Handlers
    BY <1>1, HandlerPhases DEF ExchangeTyped, HandlersTyped
  <1>3. todo \in Seq(Keys) /\ rows \in Seq(Keys \X Nat) /\ req[h].nr \in Nat
    BY <1>2 DEF ReadRequests
  <1>4. k \in Keys /\ Tail(todo) \in Seq(Keys) /\ ToSet(todo) = ToSet(Tail(todo)) \cup {k}
    BY <1>1, <1>3, ListTaken
  <1>5. book[k] # NoRow => book[k] \in Nat
    BY <1>4 DEF ExchangeTyped, TablesTyped
  <1>6. more \in Seq(Keys \X Nat)
    BY <1>3, <1>4, <1>5, ListAppended
  <1>7. req' = [req EXCEPT ![h] = x]
    BY <1>2 DEF ReadRow
  <1> HIDE DEF todo, rows, k, more
  <1>8. x \in ReadRequests /\ x.nr = req[h].nr /\ x.todo = Tail(todo) /\ x.rows = more
    BY <1>2, <1>4, <1>6 DEF ReadRequests
  <1> HIDE DEF x
  <1>9. RowRead(h, k, x)
    BY <1>4, <1>5, <1>7, <1>8 DEF RowRead, todo, rows, k, more
  <1> QED
    BY <1>9

\* ReadRow keeps the types.
LEMMA ReadRowTyped ==
    ASSUME ExchangeTyped, NEW h \in Handlers, ReadRow(h)
    PROVE  ExchangeTyped'
  <1>1. PICK k, x : RowRead(h, k, x)
    BY ReadRowCase
  <1>2. /\ req[h].phase = "read"
        /\ UNCHANGED <<orders, shares, book, queue, events, page, overtaken, late, sent, faults>>
    BY DEF ReadRow, db
  <1>3. HandlersTyped' /\ QueueTyped'
    BY <1>1, <1>2, HandlerMoved DEF RowRead
  <1>4. TablesTyped' /\ EventsTyped' /\ CountsTyped'
    BY <1>2 DEF ExchangeTyped, TablesTyped, EventsTyped, EventOK, CountsTyped
  <1> QED
    BY <1>3, <1>4 DEF ExchangeTyped

\* Sending the rows, or failing to, keeps the types.
LEMMA SendFastBookTyped ==
    ASSUME ExchangeTyped, NEW h \in Handlers, SendFastBook(h) \/ SendFails(h)
    PROVE  ExchangeTyped'
  <1>1. /\ req[h].phase = "read" /\ req' = [req EXCEPT ![h] = Idle]
        /\ UNCHANGED <<orders, shares, book, queue, page, late, sent>>
    BY DEF SendFastBook, SendFails, AllRead, db
  <1>2. HandlersTyped' /\ QueueTyped'
    <2>1. UNCHANGED <<orders, queue>>
      BY <1>1
    <2> QED
      BY <1>1, <2>1, HandlerMoved
  <1>3. TablesTyped'
    BY <1>1 DEF ExchangeTyped, TablesTyped
  <1>4. req[h].rows \in Seq(Keys \X Nat)
    BY <1>1, HandlerPhases DEF ExchangeTyped, HandlersTyped, ReadRequests
  <1>5. CASE SendFastBook(h)
    <2> DEFINE e == [name |-> "FAST_BOOK", nr |-> req[h].nr, rows |-> req[h].rows]
    <2>1. events' = events \cup {e} /\ UNCHANGED <<overtaken, faults>>
      BY <1>5 DEF SendFastBook
    <2>2. e.name = "FAST_BOOK" /\ e.rows \in Seq(Keys \X Nat)
      BY <1>4
    <2> HIDE DEF e
    <2>3. EventsTyped'
      BY <2>1, <2>2 DEF ExchangeTyped, EventsTyped, EventOK
    <2>4. CountsTyped'
      BY <1>1, <2>1 DEF ExchangeTyped, CountsTyped
    <2> QED
      BY <1>2, <1>3, <2>3, <2>4 DEF ExchangeTyped
  <1>6. CASE SendFails(h)
    <2>1. /\ events' = events /\ faults < MaxFaults /\ faults' = faults + 1
          /\ overtaken' = overtaken \cup ReadBy(h)
      BY <1>6 DEF SendFails
    <2>2. EventsTyped'
      BY <2>1 DEF ExchangeTyped, EventsTyped, EventOK
    <2>3. ReadBy(h) \subseteq Keys
      <3>1. \A y \in ToSet(req[h].rows) : y[1] \in Keys
        <4>1. \A n \in DOMAIN req[h].rows : req[h].rows[n] \in Keys \X Nat
          BY <1>4, LenProperties, ElementOfSeq
        <4> QED
          BY <4>1 DEF ToSet
      <3> QED
        BY <3>1 DEF ReadBy
    <2>4. faults' \in 0 .. MaxFaults
      BY <2>1, ShareAssumption DEF ExchangeTyped, CountsTyped
    <2>5. CountsTyped'
      BY <1>1, <2>1, <2>3, <2>4 DEF ExchangeTyped, CountsTyped
    <2> QED
      BY <1>2, <1>3, <2>2, <2>5 DEF ExchangeTyped
  <1> QED
    BY <1>5, <1>6

\* The rows of a typed event or handler.
LEMMA RowsTyped ==
    ASSUME NEW rows \in Seq(Keys \X Nat)
    PROVE  /\ DOMAIN rows = 1 .. Len(rows) /\ Len(rows) \in Nat
           /\ \A n \in DOMAIN rows : rows[n] \in Keys \X Nat /\ rows[n][1] \in Keys /\ rows[n][2] \in Nat
  <1>1. DOMAIN rows = 1 .. Len(rows) /\ Len(rows) \in Nat
    BY LenProperties
  <1>2. \A n \in DOMAIN rows : rows[n] \in Keys \X Nat
    BY <1>1, ElementOfSeq
  <1> QED
    BY <1>1, <1>2

\* What a page shows for a row of an event is the volume of one of the event's
\* rows, the last, and for any other row what it showed before.
LEMMA RowsShown ==
    ASSUME NEW rows \in Seq(Keys \X Nat), page \in [Keys -> Nat]
    PROVE  /\ Shown(rows) \in [Keys -> Nat]
           /\ \A k \in Keys : \/ Shown(rows)[k] = page[k] /\ \A n \in DOMAIN rows : rows[n][1] # k
                              \/ \E n \in DOMAIN rows : rows[n][1] = k /\ Shown(rows)[k] = rows[n][2]
  <1>1. ASSUME NEW k \in Keys
        PROVE  /\ Shown(rows)[k] \in Nat
               /\ \/ Shown(rows)[k] = page[k] /\ \A n \in DOMAIN rows : rows[n][1] # k
                  \/ \E n \in DOMAIN rows : rows[n][1] = k /\ Shown(rows)[k] = rows[n][2]
    <2> DEFINE at == {n \in DOMAIN rows : rows[n][1] = k}
    <2>1. Shown(rows)[k] = IF at = {} THEN page[k] ELSE rows[Max(at)][2]
      BY DEF Shown
    <2>2. ASSUME at # {} PROVE Max(at) \in at
      <3>1. at \in SUBSET (1 .. Len(rows)) /\ Len(rows) \in Nat
        BY RowsTyped
      <3> HIDE DEF at
      <3>2. PICK m \in at : \A j \in at : j <= m
        <4>1. at \in SUBSET (0 .. Len(rows))
          BY <3>1
        <4> QED
          BY <2>2, <3>1, <4>1, HighestId
      <3>3. \A j \in at : m >= j
        BY <3>1, <3>2
      <3> QED
        BY <3>3 DEF Max
    <2>3. CASE at = {}
      BY <2>1, <2>3
    <2>4. CASE at # {}
      <3>1. PICK n \in DOMAIN rows : n = Max(at) /\ rows[n][1] = k
        BY <2>2, <2>4
      <3>2. Shown(rows)[k] = rows[n][2]
        BY <2>1, <2>4, <3>1
      <3> QED
        BY <3>1, <3>2, RowsTyped
    <2> QED
      BY <2>3, <2>4
  <1>2. Shown(rows) = [k \in Keys |-> Shown(rows)[k]]
    BY DEF Shown
  <1> QED
    BY <1>1, <1>2

\* Delivering an event keeps the types.
LEMMA DeliverTyped ==
    ASSUME ExchangeTyped, NEW e \in events, NEW deleted \in BOOLEAN, Deliver(e, deleted)
    PROVE  ExchangeTyped'
  <1>1. UNCHANGED <<orders, shares, book, req, queue, overtaken, late, sent>>
    BY DEF Deliver, db
  <1>2. EventOK(e)
    BY DEF ExchangeTyped, EventsTyped
  <1>3. page' = page \/ (e.name = "FAST_BOOK" /\ page' = Shown(e.rows))
    BY DEF Deliver
  <1>4. page' \in [Keys -> Nat]
    <2>1. page \in [Keys -> Nat]
      BY DEF ExchangeTyped, TablesTyped
    <2>2. ASSUME e.name = "FAST_BOOK" PROVE Shown(e.rows) \in [Keys -> Nat]
      <3>1. e.rows \in Seq(Keys \X Nat)
        BY <1>2, <2>2 DEF EventOK
      <3> QED
        BY <2>1, <3>1, RowsShown
    <2> QED
      BY <1>3, <2>1, <2>2
  <1>5. TablesTyped'
    BY <1>1, <1>4 DEF ExchangeTyped, TablesTyped
  <1>6. HandlersTyped' /\ QueueTyped'
    BY <1>1 DEF ExchangeTyped, HandlersTyped, HandlerOK, RequestOK, QueueTyped
  <1>7. /\ events' \subseteq events
        /\ faults' = faults \/ (faults < MaxFaults /\ faults' = faults + 1)
    BY DEF Deliver
  <1>8. EventsTyped'
    BY <1>7 DEF ExchangeTyped, EventsTyped, EventOK
  <1>9. faults' \in 0 .. MaxFaults
    BY <1>7, ShareAssumption DEF ExchangeTyped, CountsTyped
  <1>10. CountsTyped'
    BY <1>1, <1>9 DEF ExchangeTyped, CountsTyped
  <1> QED
    BY <1>5, <1>6, <1>8, <1>10 DEF ExchangeTyped

\* Loading a page, and the cleanup of the book, keep the types.
LEMMA DetailTyped ==
    ASSUME ExchangeTyped, Detail \/ BatchDeleteOrderVolumeZero
    PROVE  ExchangeTyped'
  <1>1. /\ UNCHANGED <<orders, shares, req, queue, events, late, sent, faults>>
        /\ \/ page' = [k \in Keys |-> RowVolume(book, k)] /\ UNCHANGED <<book, overtaken>>
           \/ /\ book' = [k \in Keys |-> IF book[k] = 0 THEN NoRow ELSE book[k]]
              /\ overtaken' \subseteq overtaken \cup Keys /\ page' = page
    BY DEF Detail, BatchDeleteOrderVolumeZero, db
  <1>2. \A k \in Keys : book[k] \in Nat \cup {NoRow} /\ RowVolume(book, k) \in Nat
    BY DEF ExchangeTyped, TablesTyped, RowVolume
  <1>3. book' \in [Keys -> Nat \cup {NoRow}] /\ page' \in [Keys -> Nat]
    BY <1>1, <1>2 DEF ExchangeTyped, TablesTyped
  <1>4. TablesTyped'
    BY <1>1, <1>3 DEF ExchangeTyped, TablesTyped
  <1>5. HandlersTyped' /\ QueueTyped' /\ EventsTyped'
    BY <1>1 DEF ExchangeTyped, HandlersTyped, HandlerOK, RequestOK, QueueTyped, EventsTyped, EventOK
  <1>6. CountsTyped'
    BY <1>1 DEF ExchangeTyped, CountsTyped
  <1> QED
    BY <1>4, <1>5, <1>6 DEF ExchangeTyped

\* Every step keeps the types.
LEMMA StepTyped ==
    ASSUME ExchangeTyped, [Next]_vars
    PROVE  ExchangeTyped'
  <1>1. CASE Next
    BY <1>1, SendTyped, HandleTyped, ReadRowTyped, SendFastBookTyped, DeliverTyped, DetailTyped
       DEF Next
  <1>2. CASE UNCHANGED vars
    <2>1. UNCHANGED <<orders, shares, book, req, queue, events, page, overtaken, late, sent, faults>>
      BY <1>2 DEF vars, db
    <2> QED
      BY <2>1 DEF ExchangeTyped, TablesTyped, HandlersTyped, HandlerOK, RequestOK, QueueTyped,
                  EventsTyped, EventOK, CountsTyped
  <1> QED
    BY <1>1, <1>2

-----------------------------------------------------------------------------
(* What is on offer                                                         *)

BookFollows == \A k \in Keys : RowVolume(book, k) = VolumeAt(orders, k)

\* A request that sells and that no other message was handled before since it
\* was sent still passes the check of its handler.
Checked(r) ==
    /\ r.kind \in {"SELL", "MODIFY_SELL"} => KeepsRemain(r.user, r.volume)
    /\ r.kind = "SELL" => OnSaleTotal(orders) + r.volume <= MaxVolume
    /\ r.kind = "MODIFY_SELL" =>
          OnSaleTotal(orders) + r.volume <= MaxVolume + orders[r.order].volume
FreshChecked ==
    \A h \in Handlers : req[h].phase = "queued" /\ req[h].fresh => Checked(req[h])

OffersHold ==
    ~late => OnSaleTotal(orders) <= MaxVolume /\ LiveSell(orders, Owner) <= shares[Owner]

OffersInv == ExchangeTyped /\ BookFollows /\ FreshChecked /\ OffersHold

\* What is on sale is what the book offers, and no user offers more.
LEMMA OnSaleIsOffered ==
    ASSUME ExchangeTyped, BookFollows
    PROVE  /\ SellBook(book) = OnSaleTotal(orders) /\ OnSaleTotal(orders) \in Nat
           /\ \A u : LiveSell(orders, u) <= OnSaleTotal(orders) /\ LiveSell(orders, u) \in Nat
  <1>1. orders \in Seq(Rows)
    BY DEF ExchangeTyped, TablesTyped
  <1>2. \A k \in Keys : RowVolume(book, k) = VolumeAt(orders, k)
    BY DEF BookFollows
  <1>3. /\ SellBook(book) = OnSaleTotal(orders) /\ SellBook(book) \in Nat
        /\ \A u : LiveSell(orders, u) <= SellBook(book)
    BY <1>1, <1>2, SellBookTotal DEF OnSaleTotal
  <1>4. \A u : LiveSell(orders, u) \in Nat
    BY <1>1, LiveSellTotal
  <1> QED
    BY <1>3, <1>4

\* Every step keeps the book after the orders.
LEMMA StepFollows ==
    ASSUME ExchangeTyped, BookFollows, [Next]_vars
    PROVE  BookFollows'
  <1>1. CASE UNCHANGED <<orders, book>>
    BY <1>1 DEF BookFollows, RowVolume, VolumeAt, LiveAt
  <1>2. ASSUME NEW funded \in BOOLEAN, Handle(funded)
        PROVE  BookFollows'
    <2>1. PICK h, r, out : h \in Handlers /\ AnswerTyped(out) /\ HandledAs(h, r, out)
      BY <1>2, HandleCase
    <2>2. out.orders \in Seq(Rows) /\ orders' = out.orders /\ book' = Rebook(out.orders)
      BY <2>1 DEF AnswerTyped, HandledAs
    <2>3. \A k \in Keys : RowVolume(book', k) = VolumeAt(orders', k)
      BY <2>2, RebookFollows DEF ExchangeTyped, TablesTyped
    <2> QED
      BY <2>3 DEF BookFollows
  <1>3. CASE BatchDeleteOrderVolumeZero
    <2>1. orders' = orders /\ book' = [k \in Keys |-> IF book[k] = 0 THEN NoRow ELSE book[k]]
      BY <1>3 DEF BatchDeleteOrderVolumeZero
    <2>2. \A k \in Keys : RowVolume(book', k) = RowVolume(book, k)
      BY <2>1 DEF RowVolume, NoRow
    <2> QED
      BY <2>1, <2>2 DEF BookFollows
  <1>4. CASE Next
    <2>1. CASE \E h \in Handlers, r \in Requests : Send(h, r)
      BY <1>1, <2>1 DEF Send, db
    <2>2. CASE \E h \in Handlers : ReadRow(h) \/ SendFastBook(h) \/ SendFails(h)
      BY <1>1, <2>2 DEF ReadRow, SendFastBook, SendFails, db
    <2>3. CASE \E e \in events, deleted \in BOOLEAN : Deliver(e, deleted)
      BY <1>1, <2>3 DEF Deliver, db
    <2>4. CASE Detail
      BY <1>1, <2>4 DEF Detail, db
    <2> QED
      BY <1>2, <1>3, <1>4, <2>1, <2>2, <2>3, <2>4 DEF Next
  <1>5. CASE UNCHANGED vars
    BY <1>1, <1>5 DEF vars, db
  <1> QED
    BY <1>4, <1>5

\* The order that a request names has a volume.
LEMMA NamedVolume ==
    ASSUME ExchangeTyped, NEW r, RequestOK(r), r.kind = "MODIFY_SELL"
    PROVE  orders[r.order].volume \in Nat
  <1>1. r.order \in DOMAIN orders
    BY DEF RequestOK
  <1> QED
    BY <1>1, OrderRows DEF ExchangeTyped, TablesTyped

\* A request that is sent has just passed its check.
LEMMA SentChecked ==
    ASSUME ExchangeTyped, BookFollows, NEW r \in Requests
    PROVE  Checked(r)
  <1>1. /\ RequestOK(r)
        /\ r.kind = "SELL" => CanSell(r.user, r.volume)
        /\ r.kind = "MODIFY_SELL" => CanModifySell(r.user, r.order, r.volume)
    BY SentRequest DEF ExchangeTyped
  <1>2. PICK t \in Nat : t = SellBook(book) /\ t = OnSaleTotal(orders)
    BY OnSaleIsOffered
  <1>3. PICK v \in Nat : v = r.volume
    BY <1>1, RequestTyped
  <1>4. PICK m \in Nat : m = MaxVolume
    BY ShareAssumption
  <1>5. ASSUME r.kind = "SELL"
        PROVE  KeepsRemain(r.user, r.volume) /\ OnSaleTotal(orders) + r.volume <= MaxVolume
    BY <1>1, <1>2, <1>5 DEF CanSell
  <1>6. ASSUME r.kind = "MODIFY_SELL"
        PROVE  /\ KeepsRemain(r.user, r.volume)
               /\ OnSaleTotal(orders) + r.volume <= MaxVolume + orders[r.order].volume
    <2>1. PICK w \in Nat : w = orders[r.order].volume
      BY <1>1, <1>6, NamedVolume
    <2>2. KeepsRemain(r.user, r.volume) /\ t + v - w <= m
      BY <1>1, <1>2, <1>3, <1>4, <1>6, <2>1 DEF CanModifySell
    <2>3. t + v <= m + w
      BY <2>2
    <2> QED
      BY <1>2, <1>3, <1>4, <2>1, <2>2, <2>3
  <1> QED
    BY <1>5, <1>6 DEF Checked

\* A step other than Handle changes no order and no account, and a handler that
\* waits is one that waited or has just sent.
LEMMA OtherSteps ==
    ASSUME ExchangeTyped, [Next]_vars, \A funded \in BOOLEAN : ~Handle(funded)
    PROVE  /\ UNCHANGED <<orders, shares, late>>
           /\ \A h \in Handlers : req'[h].phase = "queued" => req'[h] = req[h] \/ req'[h] \in Requests
  <1>1. CASE UNCHANGED vars
    BY <1>1 DEF vars, db
  <1>2. ASSUME NEW h \in Handlers, NEW r \in Requests, Send(h, r)
        PROVE  /\ UNCHANGED <<orders, shares, late>>
               /\ \A g \in Handlers : req'[g] = req[g] \/ req'[g] \in Requests
    <2>1. UNCHANGED <<orders, shares, late>> /\ req' = [req EXCEPT ![h] = r]
      BY <1>2 DEF Send, db
    <2> QED
      BY <2>1 DEF ExchangeTyped, HandlersTyped
  <1>3. ASSUME NEW h \in Handlers, ReadRow(h)
        PROVE  /\ UNCHANGED <<orders, shares, late>>
               /\ \A g \in Handlers : req'[g] = req[g] \/ req'[g].phase = "read"
    <2>1. UNCHANGED <<orders, shares, late>>
      BY <1>3 DEF ReadRow, db
    <2>2. PICK k, x : RowRead(h, k, x)
      BY <1>3, ReadRowCase
    <2>3. x.phase = "read" /\ req' = [req EXCEPT ![h] = x]
      BY <2>2 DEF RowRead, ReadRequests
    <2> QED
      BY <2>1, <2>3 DEF ExchangeTyped, HandlersTyped
  <1>4. ASSUME NEW h \in Handlers, SendFastBook(h) \/ SendFails(h)
        PROVE  /\ UNCHANGED <<orders, shares, late>>
               /\ \A g \in Handlers : req'[g] = req[g] \/ req'[g].phase = "idle"
    <2>1. UNCHANGED <<orders, shares, late>> /\ req' = [req EXCEPT ![h] = Idle]
      BY <1>4 DEF SendFastBook, SendFails, db
    <2>2. Idle.phase = "idle"
      BY DEF Idle
    <2> QED
      BY <2>1, <2>2 DEF ExchangeTyped, HandlersTyped
  <1>5. ASSUME NEW e \in events, NEW deleted \in BOOLEAN, Deliver(e, deleted)
        PROVE  UNCHANGED <<orders, shares, late, req>>
    BY <1>5 DEF Deliver, db
  <1>6. ASSUME Detail \/ BatchDeleteOrderVolumeZero
        PROVE  UNCHANGED <<orders, shares, late, req>>
    BY <1>6 DEF Detail, BatchDeleteOrderVolumeZero, db
  <1>7. CASE Next
    <2>1. CASE \E h \in Handlers, r \in Requests : Send(h, r)
      BY <1>2, <2>1
    <2>2. CASE \E h \in Handlers : ReadRow(h) \/ SendFastBook(h) \/ SendFails(h)
      <3>1. PICK h \in Handlers : ReadRow(h) \/ SendFastBook(h) \/ SendFails(h)
        BY <2>2
      <3>2. UNCHANGED <<orders, shares, late>>
        BY <1>3, <1>4, <3>1
      <3>3. \A g \in Handlers : req'[g] = req[g] \/ req'[g].phase \in {"read", "idle"}
        BY <1>3, <1>4, <3>1
      <3> QED
        BY <3>2, <3>3
    <2>3. CASE \E e \in events, deleted \in BOOLEAN : Deliver(e, deleted)
      BY <1>5, <2>3
    <2> QED
      BY <1>6, <1>7, <2>1, <2>2, <2>3 DEF Next
  <1> QED
    BY <1>1, <1>7

\* The checks stay good until a message is handled.
LEMMA StepChecked ==
    ASSUME ExchangeTyped, BookFollows, FreshChecked, [Next]_vars
    PROVE  FreshChecked'
  <1>1. ASSUME NEW funded \in BOOLEAN, Handle(funded)
        PROVE  FreshChecked'
    <2>1. PICK h, r, out : h \in Handlers /\ HandledAs(h, r, out)
      BY <1>1, HandleCase
    <2>2. ASSUME NEW g \in Handlers, req'[g].phase = "queued"
          PROVE  ~req'[g].fresh
      <3>1. g # h
        BY <2>1, <2>2 DEF HandledAs, Idle
      <3>2. req'[g] = IF req[g].phase = "queued" THEN [req[g] EXCEPT !.fresh = FALSE] ELSE req[g]
        BY <2>1, <3>1 DEF HandledAs
      <3>3. req[g].phase = "queued" /\ req'[g] = [req[g] EXCEPT !.fresh = FALSE]
        BY <2>2, <3>2
      <3>4. req[g] \in QueuedRequests
        BY <3>3, HandlerPhases DEF ExchangeTyped, HandlersTyped, RequestOK
      <3> QED
        BY <3>3, <3>4 DEF QueuedRequests
    <2> QED
      BY <2>2 DEF FreshChecked
  <1>2. ASSUME \A funded \in BOOLEAN : ~Handle(funded)
        PROVE  FreshChecked'
    <2>1. /\ UNCHANGED <<orders, shares>>
          /\ \A h \in Handlers : req'[h].phase = "queued" => req'[h] = req[h] \/ req'[h] \in Requests
      BY <1>2, OtherSteps
    <2>2. \A h \in Handlers : req'[h].phase = "queued" /\ req'[h].fresh => Checked(req'[h])
      BY <2>1, SentChecked DEF FreshChecked
    <2>3. \A r : Checked(r) => /\ r.kind \in {"SELL", "MODIFY_SELL"} => KeepsRemain(r.user, r.volume)'
                               /\ r.kind = "SELL" => OnSaleTotal(orders') + r.volume <= MaxVolume
                               /\ r.kind = "MODIFY_SELL" =>
                                     OnSaleTotal(orders') + r.volume <= MaxVolume + orders'[r.order].volume
      BY <2>1 DEF Checked, KeepsRemain
    <2>4. \A h \in Handlers : req'[h].phase = "queued" /\ req'[h].fresh => Checked(req[h])'
      BY <2>2, <2>3 DEF Checked
    <2> QED
      BY <2>4 DEF FreshChecked
  <1> QED
    BY <1>1, <1>2

\* What a message leaves on offer, if it does not sell or its check was good.
LEMMA StepOffers ==
    ASSUME OffersInv, ExchangeTyped', BookFollows', [Next]_vars
    PROVE  OffersHold'
  <1>1. ASSUME NEW funded \in BOOLEAN, Handle(funded), ~late'
        PROVE  OnSaleTotal(orders') <= MaxVolume /\ LiveSell(orders', Owner) <= shares'[Owner]
    <2>1. ExchangeTyped /\ BookFollows /\ FreshChecked /\ OffersHold
      BY DEF OffersInv
    <2>2. PICK h, r, out :
             /\ h \in Handlers /\ r = req[h] /\ r.phase = "queued" /\ RequestOK(r)
             /\ AnswerTyped(out) /\ AnswerOffers(r, out) /\ HandledAs(h, r, out)
      BY <1>1, <2>1, HandleCase
    <2>3. ~late /\ (Side(r) = "SELL" => r.fresh)
      BY <1>1, <2>2 DEF HandledAs
    <2>4. r.kind \in {"SELL", "MODIFY_SELL"} => Checked(r)
      <3>1. r.kind \in {"SELL", "MODIFY_SELL"} => Side(r) = "SELL"
        BY DEF Side
      <3> QED
        BY <2>1, <2>2, <2>3, <3>1 DEF FreshChecked
    <2>5. PICK t, tt, v, m, n \in Nat :
             /\ t = OnSaleTotal(orders) /\ tt = OnSaleTotal(orders') /\ v = r.volume
             /\ m = MaxVolume /\ n = Remain /\ m < n
      <3>1. OnSaleTotal(orders) \in Nat
        BY <2>1, OnSaleIsOffered
      <3>2. OnSaleTotal(orders') \in Nat
        <4>1. orders' \in Seq(Rows)
          BY DEF ExchangeTyped, TablesTyped
        <4>2. \A k \in Keys : RowVolume(book', k) = VolumeAt(orders', k)
          BY DEF BookFollows
        <4> QED
          BY <4>1, <4>2, SellBookTotal DEF OnSaleTotal
      <3>3. r.volume \in Nat
        BY <2>2, RequestTyped
      <3> QED
        BY <3>1, <3>2, <3>3, ShareAssumption
    <2>6. orders' = out.orders /\ shares' = out.shares
      BY <2>2 DEF HandledAs
    <2>7. PICK l, ll, s, ss \in Nat :
             /\ l = LiveSell(orders, Owner) /\ ll = LiveSell(orders', Owner) /\ ll <= tt
             /\ s = shares[Owner] /\ ss = shares'[Owner]
      <3>1. LiveSell(orders, Owner) \in Nat
        BY <2>1, OnSaleIsOffered
      <3>2. LiveSell(orders', Owner) \in Nat /\ LiveSell(orders', Owner) <= tt
        <4>1. orders' \in Seq(Rows)
          BY DEF ExchangeTyped, TablesTyped
        <4>2. \A k \in Keys : RowVolume(book', k) = VolumeAt(orders', k)
          BY DEF BookFollows
        <4>3. LiveSell(orders', Owner) <= OnSaleTotal(orders')
          BY <4>1, <4>2, SellBookTotal DEF OnSaleTotal
        <4> QED
          BY <2>5, <4>1, <4>3, LiveSellTotal
      <3>3. shares[Owner] \in Nat /\ shares'[Owner] \in Nat
        BY <2>1, ShareAssumption DEF ExchangeTyped, TablesTyped
      <3> QED
        BY <3>1, <3>2, <3>3
    <2>8. t <= m /\ l <= s
      BY <2>1, <2>3, <2>5, <2>7 DEF OffersHold
    <2>9. tt <= m
      <3>1. \/ tt <= t
            \/ r.kind = "SELL" /\ tt <= t + v
            \/ r.kind = "MODIFY_SELL" /\ tt + orders[r.order].volume <= t + v
        BY <2>2, <2>5, <2>6 DEF AnswerOffers
      <3>2. CASE tt <= t
        BY <2>8, <3>2
      <3>3. CASE r.kind = "SELL" /\ tt <= t + v
        <4>1. t + v <= m
          BY <2>4, <2>5, <3>3 DEF Checked
        <4> QED
          BY <3>3, <4>1
      <3>4. CASE r.kind = "MODIFY_SELL" /\ tt + orders[r.order].volume <= t + v
        <4>1. PICK w \in Nat : w = orders[r.order].volume
          BY <2>1, <2>2, <3>4, NamedVolume
        <4>2. t + v <= m + w
          BY <2>4, <2>5, <3>4, <4>1 DEF Checked
        <4>3. tt + w <= t + v
          BY <3>4, <4>1
        <4> QED
          BY <4>2, <4>3
      <3> QED
        BY <3>1, <3>2, <3>3, <3>4
    <2>10. ll <= ss
      <3>1. Owner \in Users
        BY ShareAssumption
      <3>2. \/ ll + s <= l + ss
            \/ Owner = r.user /\ r.kind \in {"SELL", "MODIFY_SELL"} /\ s <= ss + v
        BY <2>2, <2>5, <2>6, <2>7, <3>1 DEF AnswerOffers
      <3>3. CASE ll + s <= l + ss
        BY <2>8, <3>3
      <3>4. CASE Owner = r.user /\ r.kind \in {"SELL", "MODIFY_SELL"} /\ s <= ss + v
        <4>1. s - v >= n
          BY <2>4, <2>5, <2>7, <3>4 DEF Checked, KeepsRemain
        <4> QED
          BY <2>5, <2>7, <2>9, <3>4, <4>1
      <3> QED
        BY <3>2, <3>3, <3>4
    <2> QED
      BY <2>5, <2>7, <2>9, <2>10
  <1>2. ASSUME \A funded \in BOOLEAN : ~Handle(funded)
        PROVE  UNCHANGED <<orders, shares, late>>
    BY <1>2, OtherSteps DEF OffersInv
  <1>3. ASSUME \A funded \in BOOLEAN : ~Handle(funded)
        PROVE  OffersHold'
    BY <1>2, <1>3 DEF OffersInv, OffersHold
  <1> QED
    BY <1>1, <1>3 DEF OffersHold

LEMMA OffersInit ==
    ASSUME Init
    PROVE  OffersInv
  <1>1. ExchangeTyped
    BY InitTyped
  <1>2. BookFollows /\ OnSaleTotal(orders) <= MaxVolume /\ shares[Owner] = ShareTotal
    BY FirstOrder DEF BookFollows
  <1>3. FreshChecked
    <2>1. \A h \in Handlers : req[h].phase = "idle"
      BY DEF Init, Idle
    <2> QED
      BY <2>1 DEF FreshChecked
  <1>4. PICK t, l \in Nat : t = OnSaleTotal(orders) /\ l = LiveSell(orders, Owner) /\ l <= t
    BY <1>1, <1>2, OnSaleIsOffered
  <1>5. MaxVolume \in Nat /\ ShareTotal \in Nat /\ MaxVolume <= ShareTotal
    BY ShareAssumption
  <1>6. OffersHold
    BY <1>2, <1>4, <1>5 DEF OffersHold
  <1> QED
    BY <1>1, <1>2, <1>3, <1>6 DEF OffersInv

LEMMA OffersStep ==
    ASSUME OffersInv, [Next]_vars
    PROVE  OffersInv'
  <1>1. ExchangeTyped' /\ BookFollows' /\ FreshChecked'
    BY StepTyped, StepFollows, StepChecked DEF OffersInv
  <1>2. OffersHold'
    BY <1>1, StepOffers
  <1> QED
    BY <1>1, <1>2 DEF OffersInv

LEMMA OffersAlways == Spec => []OffersInv
  <1>1. Init => OffersInv
    BY OffersInit
  <1>2. OffersInv /\ [Next]_vars => OffersInv'
    BY OffersStep
  <1> QED
    BY <1>1, <1>2, PTL DEF Spec

\* StockExchange, TypeOK: the tables, the queue and the handlers hold what they
\* are read as, and no account holds more than all the shares there are.
THEOREM ExchangeTypeCorrect == Spec => []TypeOK
  <1>1. ASSUME OffersInv
        PROVE  TypeOK
    <2>1. TablesTyped /\ HandlersTyped /\ QueueTyped /\ CountsTyped
      BY <1>1 DEF OffersInv, ExchangeTyped
    <2>2. \A i \in DOMAIN orders : orders[i].volume \in Nat
      BY <2>1, OrderRows DEF TablesTyped
    <2>3. shares \in [Users -> 0 .. ShareTotal]
      <3>1. ASSUME NEW u \in Users
            PROVE  shares[u] \in 0 .. ShareTotal
        <4>1. IsFiniteSet(Users) /\ ShareTotal \in Nat
          BY ShareAssumption
        <4>2. \A w \in Users : shares[w] \in Nat
          BY <2>1 DEF TablesTyped
        <4>3. SumOver(Users, shares) = SumOver(Users \ {u}, shares) + shares[u]
          BY <4>1, <4>2, SumSplit
        <4>4. SumOver(Users \ {u}, shares) \in Nat
          <5>1. IsFiniteSet(Users \ {u})
            BY <4>1, FS_RemoveElement
          <5>2. \A w \in Users \ {u} : shares[w] \in Nat
            BY <4>2
          <5> QED
            BY <5>1, <5>2, SumNat
        <4>5. SumOver(Users, shares) = ShareTotal
          BY <2>1 DEF TablesTyped
        <4> QED
          BY <4>1, <4>2, <4>3, <4>4, <4>5
      <3> QED
        BY <2>1, <3>1 DEF TablesTyped
    <2>4. ToSet(queue) \subseteq Handlers
      <3>1. \A n \in DOMAIN queue : queue[n] \in Handlers
        BY <2>1, LenProperties, ElementOfSeq DEF QueueTyped
      <3> QED
        BY <3>1 DEF ToSet
    <2> QED
      BY <2>1, <2>2, <2>3, <2>4
         DEF TypeOK, TablesTyped, HandlersTyped, QueueTyped, CountsTyped
  <1>2. OffersInv => TypeOK
    BY <1>1
  <1> QED
    BY <1>2, OffersAlways, PTL

\* StockExchange, OffersAreCovered: while no SELL is handled after a message its
\* handler did not see the effects of, the shares on offer stay within
\* STOCK_ORDER_MAX_VOLUME and the owner holds all it offers.
THEOREM OffersStayCovered == Spec => []OffersAreCovered
  <1>1. ASSUME OffersInv
        PROVE  OffersAreCovered
    <2>1. SellBook(book) = OnSaleTotal(orders)
      BY <1>1, OnSaleIsOffered DEF OffersInv
    <2>2. ~late => OnSaleTotal(orders) <= MaxVolume /\ LiveSell(orders, Owner) <= shares[Owner]
      BY <1>1 DEF OffersInv, OffersHold
    <2> QED
      BY <2>1, <2>2 DEF OffersAreCovered, OfferWithinMax, OwnerIsCovered
  <1>2. OffersInv => OffersAreCovered
    BY <1>1
  <1> QED
    BY <1>2, OffersAlways, PTL

\* StockExchange, EveryTradeIsListed: a MATCH event tells each user of the shares
\* bought and of those sold, in one entry each, with the volumes of exactly that
\* user's matches.
THEOREM EveryTradeIsTold == Spec => []EveryTradeIsListed
  <1>1. ASSUME OffersInv
        PROVE  EveryTradeIsListed
    <2>1. \A e \in events : e.name = "MATCH" => TradesListed(e.fills, e.list)
      BY <1>1 DEF OffersInv, ExchangeTyped, EventsTyped, EventOK
    <2> QED
      BY <2>1 DEF EveryTradeIsListed, TradesListed
  <1>2. OffersInv => EveryTradeIsListed
    BY <1>1
  <1> QED
    BY <1>2, OffersAlways, PTL

-----------------------------------------------------------------------------
(* What pages show                                                          *)

\* A row that an event brings, that a handler has read, or will read and find.
SentRow(k) ==
    \E e \in events : e.name = "FAST_BOOK" /\ \E n \in DOMAIN e.rows : e.rows[n][1] = k
ReadRows(h, k) == req[h].phase = "read" /\ \E n \in DOMAIN req[h].rows : req[h].rows[n][1] = k
TodoRow(h, k) == book[k] # NoRow /\ req[h].phase = "read" /\ k \in ToSet(req[h].todo)
Comes(k) == SentRow(k) \/ \E h \in Handlers : ReadRows(h, k) \/ TodoRow(h, k)

\* Rows of which those of one price tell its volume as the book has it.
Current(rows, k) == \A n \in DOMAIN rows : rows[n][1] = k => rows[n][2] = RowVolume(book, k)

\* Of a row that was not overtaken every reader and every event has the volume
\* of the book, and so has the page, or one of them will bring it.
RowsCurrent ==
    \A k \in Keys \ overtaken :
        /\ \A h \in Handlers : req[h].phase = "read" => Current(req[h].rows, k)
        /\ \A e \in events : e.name = "FAST_BOOK" => Current(e.rows, k)
PageFollows == \A k \in Keys \ overtaken : page[k] = RowVolume(book, k) \/ Comes(k)
PageInv == OffersInv /\ RowsCurrent /\ PageFollows

\* The rows on their way to the page are those that are read or sent.
LEMMA RowsOnTheWay ==
    ASSUME NEW k
    PROVE  /\ k \in SentKeys <=> SentRow(k)
           /\ \A h : k \in ReadBy(h) <=> ReadRows(h, k)
           /\ k \in OnTheWay <=> SentRow(k) \/ \E h \in Handlers : ReadRows(h, k)
  <1>1. k \in SentKeys <=> SentRow(k)
    BY DEF SentKeys, ToSet, SentRow
  <1>2. \A h : k \in ReadBy(h) <=> ReadRows(h, k)
    BY DEF ReadBy, ToSet, ReadRows
  <1>3. k \in OnTheWay <=> k \in SentKeys \/ \E h \in Handlers : k \in ReadBy(h)
    BY DEF OnTheWay
  <1> QED
    BY <1>1, <1>2, <1>3

\* Sending a request brings no row and takes none.
LEMMA SendShows ==
    ASSUME PageInv, NEW h \in Handlers, NEW r \in Requests, Send(h, r)
    PROVE  RowsCurrent' /\ PageFollows'
  <1>1. ExchangeTyped
    BY DEF PageInv, OffersInv
  <1>2. /\ req[h] = Idle /\ req' = [req EXCEPT ![h] = r]
        /\ UNCHANGED <<book, events, page, overtaken>>
    BY DEF Send, db
  <1>3. \A g \in Handlers : req'[g] = req[g] \/ (req[g].phase # "read" /\ req'[g].phase # "read")
    <2>1. r.phase = "queued"
      BY <1>1, SentRequest DEF ExchangeTyped, RequestOK, QueuedRequests
    <2> QED
      BY <1>1, <1>2, <2>1 DEF Idle, ExchangeTyped, HandlersTyped
  <1>4. RowsCurrent'
    BY <1>2, <1>3 DEF PageInv, RowsCurrent, Current, RowVolume
  <1>5. \A k \in Keys : Comes(k) => Comes(k)'
    BY <1>2, <1>3 DEF Comes, SentRow, ReadRows, TodoRow
  <1>6. PageFollows'
    BY <1>2, <1>5 DEF PageInv, PageFollows, RowVolume
  <1> QED
    BY <1>4, <1>6

\* A message that is handled changes rows that its handler will read, or that
\* are overtaken.
LEMMA HandleShows ==
    ASSUME PageInv, NEW funded \in BOOLEAN, Handle(funded)
    PROVE  RowsCurrent' /\ PageFollows'
  <1>1. ExchangeTyped /\ BookFollows
    BY DEF PageInv, OffersInv
  <1>2. PICK h, r, out :
           /\ h \in Handlers /\ r = req[h] /\ r.phase = "queued" /\ RequestOK(r)
           /\ AnswerTyped(out) /\ AnswerTold(r, out) /\ HandledAs(h, r, out)
    BY <1>1, HandleCase
  <1>3. /\ book' = Rebook(out.orders) /\ page' = page /\ out.orders \in Seq(Rows)
        /\ overtaken' = overtaken \cup
              ({k \in Keys : Rebook(out.orders)[k] # book[k]} \cap (OnTheWay \cup Untold(r, out)))
    BY <1>2 DEF HandledAs, AnswerTyped
  \* Readers stay, and the events that bring rows.
  <1>4. ASSUME NEW g \in Handlers, g # h
        PROVE  /\ req'[g].phase = "read" <=> req[g].phase = "read"
               /\ req[g].phase = "read" => req'[g] = req[g]
    <2>1. req'[g] = IF req[g].phase = "queued" THEN [req[g] EXCEPT !.fresh = FALSE] ELSE req[g]
      BY <1>2, <1>4 DEF HandledAs
    <2>2. RequestOK(req[g]) => [req[g] EXCEPT !.fresh = FALSE].phase = "queued"
      BY DEF RequestOK, QueuedRequests
    <2>3. req[g].phase = "queued" => RequestOK(req[g])
      BY <1>1, HandlerPhases DEF ExchangeTyped, HandlersTyped
    <2> QED
      BY <2>1, <2>2, <2>3
  <1>5. /\ req[h].phase = "queued"
        /\ req'[h].phase = "read" =>
              out.ok /\ req'[h].todo = RowsToRead(r, out) /\ req'[h].rows = <<>>
        /\ out.ok => req'[h].phase = "read"
    BY <1>2 DEF HandledAs, Idle
  <1>6. \A e : e.name = "FAST_BOOK" => (e \in events' <=> e \in events)
    <2> DEFINE m == [name |-> "MATCH", nr |-> r.nr, fills |-> out.fills,
                     list |-> FilteringMathcingOrder(out.fills)]
    <2>1. events' = events \/ events' = events \cup {m}
      BY <1>2 DEF HandledAs
    <2>2. m.name # "FAST_BOOK"
      OBVIOUS
    <2> HIDE DEF m
    <2> QED
      BY <2>1, <2>2
  <1>7. \A k : SentRow(k)' <=> SentRow(k)
    BY <1>6 DEF SentRow
  \* A row that is not overtaken is as it was, or comes of the handler.
  <1>8. ASSUME NEW k \in Keys \ overtaken'
        PROVE  /\ k \in Keys \ overtaken
               /\ \/ book'[k] = book[k]
                  \/ /\ ~SentRow(k) /\ \A g \in Handlers : ~ReadRows(g, k)
                     /\ TodoRow(h, k)'
    <2>1. k \in Keys \ overtaken
      BY <1>3
    <2>2. ASSUME book'[k] # book[k]
          PROVE  /\ ~SentRow(k) /\ \A g \in Handlers : ~ReadRows(g, k)
                 /\ TodoRow(h, k)'
      <3>1. k \notin OnTheWay /\ k \notin Untold(r, out)
        BY <1>3, <2>2
      <3>2. ~SentRow(k) /\ \A g \in Handlers : ~ReadRows(g, k)
        BY <3>1, RowsOnTheWay
      <3>3. out.ok
        BY <3>1 DEF Untold
      <3>4. book'[k] # NoRow /\ VolumeAt(out.orders, k) # VolumeAt(orders, k)
        <4>1. book'[k] # NoRow /\ VolumeAt(out.orders, k) # RowVolume(book, k)
          BY <1>1, <1>3, <2>2, RebookFollows DEF ExchangeTyped, TablesTyped
        <4> QED
          BY <1>1, <4>1 DEF BookFollows
      <3>5. k \in ToSet(RowsToRead(r, out))
        BY <1>2, <3>1, <3>3, <3>4 DEF AnswerTold
      <3>6. req'[h].phase = "read" /\ req'[h].todo = RowsToRead(r, out)
        BY <1>5, <3>3
      <3> QED
        BY <3>2, <3>4, <3>5, <3>6 DEF TodoRow
    <2> QED
      BY <2>1, <2>2
  <1>9. RowsCurrent'
    <2>1. ASSUME NEW k \in Keys \ overtaken', NEW g \in Handlers, req'[g].phase = "read"
          PROVE  Current(req[g].rows, k)'
      <3>1. CASE g = h
        <4>1. req'[h].rows = <<>>
          BY <1>5, <2>1, <3>1
        <4> QED
          BY <3>1, <4>1 DEF Current
      <3>2. CASE g # h
        <4>1. req[g].phase = "read" /\ req'[g] = req[g]
          BY <1>4, <2>1, <3>2
        <4>2. Current(req[g].rows, k)
          BY <1>8, <2>1, <4>1 DEF PageInv, RowsCurrent
        <4>3. CASE book'[k] = book[k]
          BY <4>1, <4>2, <4>3 DEF Current, RowVolume
        <4>4. CASE ~ReadRows(g, k)
          BY <4>1, <4>4 DEF Current, ReadRows
        <4> QED
          BY <1>8, <2>1, <4>3, <4>4
      <3> QED
        BY <3>1, <3>2
    <2>2. ASSUME NEW k \in Keys \ overtaken', NEW e \in events', e.name = "FAST_BOOK"
          PROVE  \A n \in DOMAIN e.rows : e.rows[n][1] = k => e.rows[n][2] = RowVolume(book', k)
      <3>1. e \in events
        BY <1>6, <2>2
      <3>2. Current(e.rows, k)
        BY <1>8, <2>2, <3>1 DEF PageInv, RowsCurrent
      <3>3. CASE book'[k] = book[k]
        BY <3>2, <3>3 DEF Current, RowVolume
      <3>4. CASE ~SentRow(k)
        BY <2>2, <3>1, <3>4 DEF SentRow
      <3> QED
        BY <1>8, <2>2, <3>3, <3>4
    <2> QED
      BY <2>1, <2>2 DEF RowsCurrent, Current
  <1>10. PageFollows'
    <2>1. ASSUME NEW k \in Keys \ overtaken', page'[k] # RowVolume(book', k)
          PROVE  Comes(k)'
      <3>1. CASE TodoRow(h, k)'
        BY <1>2, <3>1 DEF Comes
      <3>2. CASE book'[k] = book[k]
        <4>1. Comes(k)
          BY <1>3, <1>8, <2>1, <3>2 DEF PageInv, PageFollows, RowVolume
        <4>2. CASE SentRow(k)
          BY <1>7, <4>2 DEF Comes
        <4>3. CASE \E g \in Handlers : ReadRows(g, k) \/ TodoRow(g, k)
          <5>1. PICK g \in Handlers : ReadRows(g, k) \/ TodoRow(g, k)
            BY <4>3
          <5>2. g # h /\ req[g].phase = "read"
            BY <1>5, <5>1 DEF ReadRows, TodoRow
          <5>3. req'[g] = req[g]
            BY <1>4, <5>2
          <5>4. (ReadRows(g, k) \/ TodoRow(g, k))'
            BY <3>2, <5>1, <5>3 DEF ReadRows, TodoRow
          <5> QED
            BY <5>4 DEF Comes
        <4> QED
          BY <4>1, <4>2, <4>3 DEF Comes
      <3> QED
        BY <1>8, <2>1, <3>1, <3>2
    <2> QED
      BY <2>1 DEF PageFollows
  <1> QED
    BY <1>9, <1>10

\* A row that is read is read as the book has it.
LEMMA ReadRowShows ==
    ASSUME PageInv, NEW h \in Handlers, ReadRow(h)
    PROVE  RowsCurrent' /\ PageFollows'
  <1>1. ExchangeTyped
    BY DEF PageInv, OffersInv
  <1>2. PICK key, x : RowRead(h, key, x)
    BY <1>1, ReadRowCase
  <1>3. req[h].phase = "read" /\ UNCHANGED <<orders, book, queue, events, page, overtaken>>
    BY DEF ReadRow, db
  <1>4. req'[h] = x /\ x.phase = "read" /\ \A g \in Handlers : g # h => req'[g] = req[g]
    <2>1. UNCHANGED <<orders, queue>>
      BY <1>3
    <2> QED
      BY <1>1, <1>2, <1>3, <2>1, HandlerMoved DEF RowRead, ReadRequests
  <1>5. req[h].rows \in Seq(Keys \X Nat)
    BY <1>1, <1>3, HandlerPhases DEF ExchangeTyped, HandlersTyped, ReadRequests
  <1>6. PICK rows : rows = req[h].rows /\ rows \in Seq(Keys \X Nat)
    BY <1>5
  \* What the handler has read now.
  <1>7. CASE book[key] = NoRow
    <2>1. x.rows = rows /\ ToSet(req[h].todo) = ToSet(x.todo) \cup {key}
      BY <1>2, <1>6, <1>7 DEF RowRead
    <2>2. \A g \in Handlers : req'[g].phase = req[g].phase /\ req'[g].rows = req[g].rows
      BY <1>3, <1>4, <1>6, <2>1
    <2>3. RowsCurrent'
      BY <1>3, <2>2 DEF PageInv, RowsCurrent, Current, RowVolume
    <2>4. ASSUME NEW k, NEW g \in Handlers
          PROVE  /\ ReadRows(g, k) => ReadRows(g, k)'
                 /\ TodoRow(g, k) => TodoRow(g, k)'
      <3>1. ReadRows(g, k) => ReadRows(g, k)'
        BY <2>2 DEF ReadRows
      <3>2. TodoRow(g, k) => TodoRow(g, k)'
        BY <1>3, <1>4, <1>7, <2>1 DEF TodoRow
      <3> QED
        BY <3>1, <3>2
    <2>5. \A k : Comes(k) => Comes(k)'
      BY <1>3, <2>4 DEF Comes, SentRow
    <2>6. PageFollows'
      BY <1>3, <2>5 DEF PageInv, PageFollows, RowVolume
    <2> QED
      BY <2>3, <2>6
  <1>8. CASE book[key] # NoRow
    <2>1. /\ key \in Keys /\ book[key] \in Nat /\ x.rows = Append(rows, <<key, book[key]>>)
          /\ ToSet(req[h].todo) = ToSet(x.todo) \cup {key}
      BY <1>2, <1>6, <1>8 DEF RowRead
    <2>2. PICK last : /\ last \in DOMAIN x.rows /\ x.rows[last] = <<key, book[key]>>
                      /\ DOMAIN x.rows = DOMAIN rows \cup {last}
                      /\ \A n \in DOMAIN rows : x.rows[n] = rows[n]
      <3>1. <<key, book[key]>> \in Keys \X Nat
        BY <2>1
      <3> DEFINE n == Len(rows) + 1
      <3>2. /\ DOMAIN x.rows = DOMAIN rows \cup {n} /\ x.rows[n] = <<key, book[key]>>
            /\ \A j \in DOMAIN rows : x.rows[j] = rows[j]
        <4>1. PICK s, y : s = rows /\ y = <<key, book[key]>> /\ s \in Seq(Keys \X Nat) /\ y \in Keys \X Nat
          BY <1>6, <3>1
        <4>2. PICK t : t = x.rows /\ t = Append(s, y)
          BY <2>1, <4>1
        <4>3. /\ DOMAIN t = DOMAIN s \cup {Len(s) + 1} /\ t[Len(s) + 1] = y
              /\ \A j \in DOMAIN s : t[j] = s[j]
          BY <4>1, <4>2, Appended
        <4> QED
          BY <4>1, <4>2, <4>3
      <3> QED
        BY <3>2
    <2>3. RowsCurrent'
      <3>1. ASSUME NEW k \in Keys \ overtaken', NEW g \in Handlers, req'[g].phase = "read"
            PROVE  \A n \in DOMAIN req'[g].rows :
                      req'[g].rows[n][1] = k => req'[g].rows[n][2] = RowVolume(book, k)
        <4>1. CASE g = h
          <5>1. \A n \in DOMAIN rows : rows[n][1] = k => rows[n][2] = RowVolume(book, k)
            BY <1>3, <1>6, <3>1 DEF PageInv, RowsCurrent, Current
          <5>2. book[key] = RowVolume(book, key)
            BY <1>8 DEF RowVolume
          <5>3. req'[g].rows = x.rows
            BY <1>4, <4>1
          <5> QED
            BY <2>2, <5>1, <5>2, <5>3
        <4>2. CASE g # h
          BY <1>3, <1>4, <3>1, <4>2 DEF PageInv, RowsCurrent, Current
        <4> QED
          BY <4>1, <4>2
      <3>2. \A k \in Keys \ overtaken' : \A e \in events' :
               e.name = "FAST_BOOK" =>
                  \A n \in DOMAIN e.rows : e.rows[n][1] = k => e.rows[n][2] = RowVolume(book, k)
        BY <1>3 DEF PageInv, RowsCurrent, Current
      <3>3. \A k : RowVolume(book', k) = RowVolume(book, k)
        BY <1>3
      <3> QED
        BY <3>1, <3>2, <3>3 DEF RowsCurrent, Current
    <2>4. ASSUME NEW k, NEW g \in Handlers
          PROVE  /\ ReadRows(g, k) => ReadRows(g, k)'
                 /\ TodoRow(g, k) => (ReadRows(g, k) \/ TodoRow(g, k))'
      <3>1. CASE g # h
        BY <1>3, <1>4, <3>1 DEF ReadRows, TodoRow
      <3>2. CASE g = h
        <4>1. ReadRows(h, k) => ReadRows(h, k)'
          <5>1. ASSUME ReadRows(h, k) PROVE \E n \in DOMAIN x.rows : x.rows[n][1] = k
            BY <1>6, <2>2, <5>1 DEF ReadRows
          <5> QED
            BY <1>4, <5>1 DEF ReadRows
        <4>2. ReadRows(h, key)'
          <5>1. \E n \in DOMAIN x.rows : x.rows[n][1] = key
            BY <2>2
          <5> QED
            BY <1>4, <5>1 DEF ReadRows
        <4>3. TodoRow(h, k) => k = key \/ TodoRow(h, k)'
          BY <1>3, <1>4, <2>1 DEF TodoRow
        <4> QED
          BY <3>2, <4>1, <4>2, <4>3
      <3> QED
        BY <3>1, <3>2
    <2>5. \A k : Comes(k) => Comes(k)'
      BY <1>3, <2>4 DEF Comes, SentRow
    <2>6. PageFollows'
      BY <1>3, <2>5 DEF PageInv, PageFollows, RowVolume
    <2> QED
      BY <2>3, <2>6
  <1> QED
    BY <1>7, <1>8

\* The rows that a handler sends are those it has read; if it fails to, they
\* are overtaken.
LEMMA SendFastBookShows ==
    ASSUME PageInv, NEW h \in Handlers, SendFastBook(h) \/ SendFails(h)
    PROVE  RowsCurrent' /\ PageFollows'
  <1>1. ExchangeTyped
    BY DEF PageInv, OffersInv
  <1>2. /\ req[h].phase = "read" /\ req[h].todo = <<>> /\ req' = [req EXCEPT ![h] = Idle]
        /\ book' = book /\ page' = page /\ overtaken \subseteq overtaken'
    BY DEF SendFastBook, SendFails, AllRead, db
  <1>3. /\ req'[h].phase # "read"
        /\ \A g \in Handlers : g # h => req'[g] = req[g]
    BY <1>1, <1>2 DEF Idle, ExchangeTyped, HandlersTyped
  <1>4. \A k : ~TodoRow(h, k)
    BY <1>2 DEF TodoRow, ToSet
  <1>5. CASE SendFastBook(h)
    <2> DEFINE e == [name |-> "FAST_BOOK", nr |-> req[h].nr, rows |-> req[h].rows]
    <2>1. events' = events \cup {e} /\ overtaken' = overtaken
      BY <1>5 DEF SendFastBook
    <2>2. e.name = "FAST_BOOK" /\ e.rows = req[h].rows
      OBVIOUS
    <2> HIDE DEF e
    <2>3. RowsCurrent'
      <3>1. ASSUME NEW k \in Keys \ overtaken', NEW d \in events', d.name = "FAST_BOOK"
            PROVE  Current(d.rows, k)
        BY <1>2, <2>1, <2>2, <3>1 DEF PageInv, RowsCurrent
      <3>2. ASSUME NEW k \in Keys \ overtaken', NEW g \in Handlers, req'[g].phase = "read"
            PROVE  Current(req'[g].rows, k)
        BY <1>3, <2>1, <3>2 DEF PageInv, RowsCurrent
      <3> QED
        BY <1>2, <3>1, <3>2 DEF RowsCurrent, Current, RowVolume
    <2>4. ASSUME NEW k, Comes(k)
          PROVE  Comes(k)'
      <3>1. CASE SentRow(k)
        BY <2>1, <3>1 DEF Comes, SentRow
      <3>2. CASE ReadRows(h, k)
        <4>1. e \in events' /\ e.name = "FAST_BOOK" /\ \E n \in DOMAIN e.rows : e.rows[n][1] = k
          BY <2>1, <2>2, <3>2 DEF ReadRows
        <4> QED
          BY <4>1 DEF Comes, SentRow
      <3>3. CASE \E g \in Handlers : g # h /\ (ReadRows(g, k) \/ TodoRow(g, k))
        BY <1>2, <1>3, <3>3 DEF Comes, ReadRows, TodoRow
      <3> QED
        BY <1>4, <2>4, <3>1, <3>2, <3>3 DEF Comes
    <2>5. PageFollows'
      BY <1>2, <2>1, <2>4 DEF PageInv, PageFollows, RowVolume
    <2> QED
      BY <2>3, <2>5
  <1>6. CASE SendFails(h)
    <2>1. events' = events /\ overtaken' = overtaken \cup ReadBy(h)
      BY <1>6 DEF SendFails
    <2>2. RowsCurrent'
      <3>1. ASSUME NEW k \in Keys \ overtaken', NEW d \in events', d.name = "FAST_BOOK"
            PROVE  Current(d.rows, k)
        BY <2>1, <3>1 DEF PageInv, RowsCurrent
      <3>2. ASSUME NEW k \in Keys \ overtaken', NEW g \in Handlers, req'[g].phase = "read"
            PROVE  Current(req'[g].rows, k)
        BY <1>2, <1>3, <3>2 DEF PageInv, RowsCurrent
      <3> QED
        BY <1>2, <3>1, <3>2 DEF RowsCurrent, Current, RowVolume
    <2>3. ASSUME NEW k \in Keys \ overtaken', Comes(k)
          PROVE  Comes(k)'
      <3>1. ~ReadRows(h, k)
        BY <2>1, RowsOnTheWay
      <3>2. CASE SentRow(k)
        BY <2>1, <3>2 DEF Comes, SentRow
      <3>3. CASE \E g \in Handlers : g # h /\ (ReadRows(g, k) \/ TodoRow(g, k))
        BY <1>2, <1>3, <3>3 DEF Comes, ReadRows, TodoRow
      <3> QED
        BY <1>4, <2>3, <3>1, <3>2, <3>3 DEF Comes
    <2>4. PageFollows'
      BY <1>2, <2>3 DEF PageInv, PageFollows, RowVolume
    <2> QED
      BY <2>2, <2>4
  <1> QED
    BY <1>5, <1>6

\* An event that is delivered shows its rows.
LEMMA DeliverShows ==
    ASSUME PageInv, NEW e \in events, NEW deleted \in BOOLEAN, Deliver(e, deleted)
    PROVE  RowsCurrent' /\ PageFollows'
  <1>1. ExchangeTyped
    BY DEF PageInv, OffersInv
  <1>2. UNCHANGED <<book, req, overtaken>> /\ events' \subseteq events /\ events \ {e} \subseteq events'
    BY DEF Deliver, db
  <1>3. RowsCurrent'
    BY <1>2 DEF PageInv, RowsCurrent, Current, RowVolume
  <1>4. ASSUME NEW k \in Keys \ overtaken', page'[k] # RowVolume(book', k)
        PROVE  Comes(k)'
    <2>1. page'[k] = page[k] /\ ~(e.name = "FAST_BOOK" /\ \E n \in DOMAIN e.rows : e.rows[n][1] = k)
      <3>1. CASE e.name # "FAST_BOOK"
        BY <3>1 DEF Deliver
      <3>2. CASE e.name = "FAST_BOOK"
        <4>1. page' = Shown(e.rows)
          BY <3>2 DEF Deliver
        <4>2. e.rows \in Seq(Keys \X Nat) /\ page \in [Keys -> Nat]
          BY <1>1, <3>2 DEF ExchangeTyped, EventsTyped, EventOK, TablesTyped
        <4>3. Current(e.rows, k)
          BY <1>2, <1>4, <3>2 DEF PageInv, RowsCurrent
        <4>4. \/ page'[k] = page[k] /\ \A n \in DOMAIN e.rows : e.rows[n][1] # k
              \/ \E n \in DOMAIN e.rows : e.rows[n][1] = k /\ page'[k] = e.rows[n][2]
          BY <4>1, <4>2, RowsShown
        <4>5. page'[k] # RowVolume(book, k)
          BY <1>2, <1>4
        <4> QED
          BY <4>3, <4>4, <4>5 DEF Current
      <3> QED
        BY <3>1, <3>2
    <2>2. Comes(k)
      BY <1>2, <1>4, <2>1 DEF PageInv, PageFollows, RowVolume
    <2>3. CASE SentRow(k)
      <3>1. PICK d \in events : d.name = "FAST_BOOK" /\ \E n \in DOMAIN d.rows : d.rows[n][1] = k
        BY <2>3 DEF SentRow
      <3>2. d \in events'
        BY <1>2, <2>1, <3>1
      <3> QED
        BY <3>1, <3>2 DEF Comes, SentRow
    <2>4. CASE \E g \in Handlers : ReadRows(g, k) \/ TodoRow(g, k)
      BY <1>2, <2>4 DEF Comes, ReadRows, TodoRow
    <2> QED
      BY <2>2, <2>3, <2>4 DEF Comes
  <1> QED
    BY <1>3, <1>4 DEF PageFollows

\* A page that is loaded shows the book, and the cleanup of the book takes rows
\* that show nothing.
LEMMA DetailShows ==
    ASSUME PageInv, Detail \/ BatchDeleteOrderVolumeZero
    PROVE  RowsCurrent' /\ PageFollows'
  <1>1. CASE Detail
    <2>1. page' = [k \in Keys |-> RowVolume(book, k)] /\ UNCHANGED <<book, req, events, overtaken>>
      BY <1>1 DEF Detail, db
    <2>2. RowsCurrent'
      BY <2>1 DEF PageInv, RowsCurrent, Current, RowVolume
    <2>3. PageFollows'
      BY <2>1 DEF PageFollows, RowVolume
    <2> QED
      BY <2>2, <2>3
  <1>2. CASE BatchDeleteOrderVolumeZero
    <2>1. /\ book' = [k \in Keys |-> IF book[k] = 0 THEN NoRow ELSE book[k]]
          /\ UNCHANGED <<req, events, page>>
          /\ overtaken' = overtaken \cup
                {k \in Keys : book[k] = 0 /\
                    \E h \in Handlers : req[h].phase = "read" /\ k \in ToSet(req[h].todo)}
      BY <1>2 DEF BatchDeleteOrderVolumeZero
    <2>2. \A k \in Keys : RowVolume(book', k) = RowVolume(book, k)
      BY <2>1 DEF RowVolume, NoRow
    <2>3. RowsCurrent'
      <3>1. \A k \in Keys \ overtaken' : k \in Keys \ overtaken
        BY <2>1
      <3> QED
        BY <2>1, <2>2, <3>1 DEF PageInv, RowsCurrent, Current
    <2>4. ASSUME NEW k \in Keys \ overtaken', Comes(k)
          PROVE  Comes(k)'
      <3>1. CASE SentRow(k) \/ \E g \in Handlers : ReadRows(g, k)
        BY <2>1, <3>1 DEF Comes, SentRow, ReadRows
      <3>2. CASE \E g \in Handlers : TodoRow(g, k)
        <4>1. PICK g \in Handlers : TodoRow(g, k)
          BY <3>2
        <4>2. book[k] # 0 /\ book'[k] = book[k]
          BY <2>1, <2>4, <4>1 DEF TodoRow
        <4>3. TodoRow(g, k)'
          BY <2>1, <4>1, <4>2 DEF TodoRow
        <4> QED
          BY <4>3 DEF Comes
      <3> QED
        BY <2>4, <3>1, <3>2 DEF Comes
    <2>5. PageFollows'
      BY <2>1, <2>2, <2>4 DEF PageInv, PageFollows
    <2> QED
      BY <2>3, <2>5
  <1> QED
    BY <1>1, <1>2

LEMMA PageStep ==
    ASSUME PageInv, [Next]_vars
    PROVE  PageInv'
  <1>1. OffersInv'
    BY OffersStep DEF PageInv
  <1>2. CASE Next
    <2>1. RowsCurrent' /\ PageFollows'
      BY <1>2, SendShows, HandleShows, ReadRowShows, SendFastBookShows, DeliverShows, DetailShows
         DEF Next
    <2> QED
      BY <1>1, <2>1 DEF PageInv
  <1>3. CASE UNCHANGED vars
    <2>1. UNCHANGED <<book, req, events, page, overtaken>>
      BY <1>3 DEF vars, db
    <2>2. RowsCurrent'
      BY <2>1 DEF PageInv, RowsCurrent, Current, RowVolume
    <2>3. PageFollows'
      BY <2>1 DEF PageInv, PageFollows, Comes, SentRow, ReadRows, TodoRow, RowVolume
    <2> QED
      BY <1>1, <2>2, <2>3 DEF PageInv
  <1> QED
    BY <1>2, <1>3

\* StockExchange, PageShowsBook: a connected page shows the volume of the book
\* for every row that no handler has yet to read, no event has yet to bring, and
\* that did not change after the last read of it.
THEOREM PagesShowTheBook == Spec => []PageShowsBook
  <1>1. ASSUME Init
        PROVE  PageInv
    <2>1. OffersInv
      BY <1>1, OffersInit
    <2>2. RowsCurrent
      <3>1. events = {} /\ \A h \in Handlers : req[h].phase = "idle"
        BY <1>1 DEF Init, Idle
      <3> QED
        BY <3>1 DEF RowsCurrent
    <2>3. PageFollows
      BY <1>1 DEF Init, PageFollows
    <2> QED
      BY <2>1, <2>2, <2>3 DEF PageInv
  <1>2. ASSUME PageInv
        PROVE  PageShowsBook
    <2>1. ASSUME NEW k \in Keys, Comes(k)
          PROVE  k \in Awaited
      <3>1. CASE SentRow(k)
        BY <3>1, RowsOnTheWay DEF Awaited
      <3>2. CASE \E h \in Handlers : ReadRows(h, k) \/ TodoRow(h, k)
        <4>1. PICK h \in Handlers : ReadRows(h, k) \/ TodoRow(h, k)
          BY <3>2
        <4>2. req[h].phase = "read" /\ k \in ToSet(req[h].todo) \cup ReadBy(h)
          BY <4>1, RowsOnTheWay DEF ReadRows, TodoRow
        <4> QED
          BY <4>2 DEF Awaited
      <3> QED
        BY <2>1, <3>1, <3>2 DEF Comes
    <2> QED
      BY <1>2, <2>1 DEF PageInv, PageFollows, PageShowsBook
  <1>3. Init => PageInv
    BY <1>1
  <1>4. PageInv /\ [Next]_vars => PageInv'
    BY PageStep
  <1>5. PageInv => PageShowsBook
    BY <1>2
  <1> QED
    BY <1>3, <1>4, <1>5, PTL DEF Spec

-----------------------------------------------------------------------------
(* The support desk: what was told and mailed is true, for any requests,    *)
(* administrators and texts.                                                *)

-----------------------------------------------------------------------------
(* The invariant                                                            *)

Row == [status : Statuses, response : Texts \cup {None}]
AskJobs == [op : {"ask"}, phase : {"admins", "mail"}, kind : QuestionKinds, id : Nat,
            left : SUBSET Receivers]
AnswerJobs == [op : {"answer"}, phase : {"save", "mail"}, id : Nat, text : Texts, copy : Row]
StatusJobs == [op : {"status"}, phase : {"save"}, about : QuestionKinds, id : Nat, status : Statuses,
               copy : Row]
Works == AnswerJobs \cup StatusJobs
JobRecords == {NoJob} \cup AskJobs \cup Works

AnswerShown(id) == id \in mixed \/ questions["customer"][id].response # None

\* How far a request has come: a question that is mailed is stored, the
\* administrators that are not left have their mail, what an answer is about to
\* mail is stored and shown, and what it is about to save is the current row.
AskOK(c) ==
    c \in AskJobs =>
       /\ c.id \in DOMAIN questions[c.kind]
       /\ c.phase = "mail" =>
             \A a \in Receivers \ c.left :
                [to |-> a, kind |-> c.kind, id |-> c.id, text |-> None] \in mails
WorkOK(c) ==
    c \in Works =>
       /\ c.id \in Customers
       /\ c.phase = "save" => c.id \in mixed \/ c.copy = questions["customer"][c.id]
       /\ c.phase = "mail" => <<c.id, c.text>> \in saved /\ AnswerShown(c.id)
JobOK(c) == AskOK(c) /\ WorkOK(c)

\* Two requests that work on one question are known to.
Apart ==
    \A i, j \in Jobs : /\ i # j /\ job[i] \in Works /\ job[j] \in Works
                       /\ job[i].id = job[j].id
                       => job[i].id \in mixed

MailOK == \A m \in mails : m.kind \in QuestionKinds /\ (m.text # None => m.kind = "customer")

DeskInv ==
    /\ DeskTypeOK /\ MailOK /\ MailIsTrue
    /\ job \in [Jobs -> JobRecords] /\ Apart
    /\ \A j \in Jobs : JobOK(job[j])

\* The desk before any request.
LEMMA DeskBegins == DeskInit => DeskInv
  <1> SUFFICES ASSUME DeskInit PROVE DeskInv
    OBVIOUS
  <1>1. questions \in [QuestionKinds -> Seq(Row)]
    <2>1. NewQuestion \in Row
      BY DEF NewQuestion, Row, Statuses
    <2>2. <<>> \in Seq(Row) /\ <<NewQuestion>> \in Seq(Row)
      BY <2>1, EmptySeq
    <2> QED
      BY <2>2 DEF DeskInit
  <1>2. job = [j \in Jobs |-> NoJob] /\ mails = {} /\ mixed = {} /\ told = {}
    BY DEF DeskInit
  <1>3. NoJob \notin AskJobs /\ NoJob \notin Works
    BY DEF NoJob, AskJobs, Works, AnswerJobs, StatusJobs
  <1>4. DeskTypeOK /\ MailOK
    BY <1>1, <1>2 DEF DeskTypeOK, MailOK, Row
  <1>5. MailIsTrue
    BY <1>2 DEF MailIsTrue, SuccessIsMailed, MailedIsAnswered
  <1>6. job \in [Jobs -> JobRecords] /\ Apart /\ \A j \in Jobs : JobOK(job[j])
    BY <1>2, <1>3 DEF JobRecords, Apart, JobOK, AskOK, WorkOK
  <1> QED
    BY <1>4, <1>5, <1>6 DEF DeskInv

-----------------------------------------------------------------------------
(* One request goes on                                                      *)

\* What a step of request j leaves to the others: tables and histories grow,
\* and no customer's row changes but the one that j works on.
Grows(j) ==
    /\ questions' \in [QuestionKinds -> Seq(Row)]
    /\ \A k \in QuestionKinds : DOMAIN questions[k] \subseteq DOMAIN questions'[k]
    /\ \A id \in Customers : \/ questions'["customer"][id] = questions["customer"][id]
                             \/ job[j] \in Works /\ job[j].id = id
    /\ mails \subseteq mails' /\ saved \subseteq saved' /\ mixed \subseteq mixed'

\* The other requests are none the worse for a step of one.
LEMMA OthersGoOn ==
    ASSUME DeskInv, NEW j \in Jobs, Grows(j), NEW i \in Jobs, i # j,
           NEW c, c = job[i]
    PROVE  JobOK(c)'
  <1>1. JobOK(c) /\ "customer" \in QuestionKinds
    BY DEF DeskInv, QuestionKinds
  <1>2. AskOK(c)'
    <2>1. c \in AskJobs => c.kind \in QuestionKinds
      BY DEF AskJobs
    <2> QED
      BY <1>1, <2>1 DEF JobOK, AskOK, Grows, Receivers, AskJobs
  <1>3. ASSUME c \in Works
        PROVE  /\ c.id \in Customers'
               /\ c.phase = "save" => c.id \in mixed' \/ c.copy = questions'["customer"][c.id]
               /\ c.phase = "mail" => <<c.id, c.text>> \in saved' /\ AnswerShown(c.id)'
    <2>1. c.id \in Customers /\ c.id \in Customers'
      BY <1>1, <1>3 DEF JobOK, WorkOK, Grows, Customers
    <2>2. c.id \in mixed' \/ questions'["customer"][c.id] = questions["customer"][c.id]
      <3>1. CASE job[j] \in Works /\ job[j].id = c.id
        BY <1>3, <3>1 DEF DeskInv, Apart, Grows
      <3>2. CASE ~(job[j] \in Works /\ job[j].id = c.id)
        BY <2>1, <3>2 DEF Grows
      <3> QED
        BY <3>1, <3>2
    <2> QED
      BY <1>1, <1>3, <2>1, <2>2 DEF JobOK, WorkOK, Grows, AnswerShown
  <1>4. WorkOK(c)'
    BY <1>3 DEF WorkOK, Works, AnswerJobs, StatusJobs, Row
  <1> QED
    BY <1>2, <1>4 DEF JobOK

\* A step of one request keeps the invariant when it keeps its own part, says
\* with whom it works on a question, and tells and mails the truth.
LEMMA OneGoesOn ==
    ASSUME DeskInv, NEW j \in Jobs, Grows(j), NEW x \in JobRecords,
           job' = [job EXCEPT ![j] = x], JobOK(x)',
           \A i \in Jobs \ {j} : x \in Works /\ job[i] \in Works /\ job[i].id = x.id
                                    => x.id \in mixed',
           mixed' \subseteq Customers',
           \A m \in mails' \ mails :
              /\ m.kind \in QuestionKinds /\ m.id \in DOMAIN questions'[m.kind]
              /\ m.text # None => /\ m.kind = "customer" /\ <<m.id, m.text>> \in saved'
                                  /\ AnswerShown(m.id)',
           \A id \in Customers : AnswerShown(id) => AnswerShown(id)',
           \A t \in told' \ told : t.op = "ask" =>
              \A a \in Receivers :
                 [to |-> a, kind |-> t.kind, id |-> t.id, text |-> None] \in mails'
    PROVE  DeskInv'
  <1>1. /\ job \in [Jobs -> JobRecords] /\ DeskTypeOK /\ MailOK /\ Apart
        /\ SuccessIsMailed /\ MailedIsAnswered /\ "customer" \in QuestionKinds
    BY DEF DeskInv, MailIsTrue, QuestionKinds
  <1>2. job' \in [Jobs -> JobRecords] /\ job'[j] = x /\ \A i \in Jobs \ {j} : job'[i] = job[i]
    BY <1>1
  <1>3. DeskTypeOK'
    <2>1. \A m \in mails' : m.id \in DOMAIN questions'[m.kind]
      BY <1>1 DEF DeskTypeOK, MailOK, Grows
    <2> QED
      BY <2>1 DEF DeskTypeOK, Grows, Row
  <1>4. MailOK'
    BY <1>1 DEF MailOK
  <1>5. SuccessIsMailed'
    <2>1. \A t \in told' : t.op = "ask" =>
             \A a \in Receivers :
                [to |-> a, kind |-> t.kind, id |-> t.id, text |-> None] \in mails'
      BY <1>1 DEF SuccessIsMailed, Grows
    <2> QED
      BY <2>1 DEF SuccessIsMailed, Receivers
  <1>6. MailedIsAnswered'
    <2>1. ASSUME NEW m \in mails', m.text # None
          PROVE  <<m.id, m.text>> \in saved' /\ AnswerShown(m.id)'
      <3>1. CASE m \in mails
        <4>1. m.kind = "customer" /\ m.id \in Customers
          BY <1>1, <2>1, <3>1 DEF MailOK, DeskTypeOK, Customers
        <4>2. <<m.id, m.text>> \in saved /\ AnswerShown(m.id)
          BY <1>1, <2>1, <3>1 DEF MailedIsAnswered, AnswerShown
        <4> QED
          BY <4>1, <4>2 DEF Grows
      <3>2. CASE m \notin mails
        BY <2>1, <3>2
      <3> QED
        BY <3>1, <3>2
    <2> QED
      BY <2>1 DEF MailedIsAnswered, AnswerShown
  <1>7. Apart'
    <2>1. ASSUME NEW i \in Jobs, NEW k \in Jobs, i # k, job'[i] \in Works, job'[k] \in Works,
                 job'[i].id = job'[k].id
          PROVE  job'[i].id \in mixed'
      <3>1. CASE i = j
        BY <1>2, <2>1, <3>1
      <3>2. CASE k = j
        BY <1>2, <2>1, <3>2
      <3>3. CASE i # j /\ k # j
        BY <1>1, <1>2, <2>1, <3>3 DEF Apart, Grows
      <3> QED
        BY <3>1, <3>2, <3>3
    <2>2. Works' = Works
      BY DEF Works, AnswerJobs, StatusJobs, Row
    <2> QED
      BY <2>1, <2>2 DEF Apart
  <1>8. \A i \in Jobs : JobOK(job[i])'
    <2> TAKE i \in Jobs
    <2>1. PICK c : c = job'[i]
      OBVIOUS
    <2>2. JobOK(c)'
      <3>1. CASE i = j
        BY <1>2, <2>1, <3>1 DEF JobOK, AskOK, WorkOK, AnswerShown
      <3>2. CASE i # j
        BY <1>2, <2>1, <3>2, OthersGoOn
      <3> QED
        BY <3>1, <3>2
    <2> QED
      BY <2>1, <2>2 DEF JobOK, AskOK, WorkOK
  <1>9. (job \in [Jobs -> JobRecords])'
    BY <1>2 DEF JobRecords, Works, AnswerJobs, StatusJobs, AskJobs, Row, Receivers, NoJob
  <1> QED
    BY <1>3, <1>4, <1>5, <1>6, <1>7, <1>8, <1>9 DEF DeskInv, MailIsTrue

-----------------------------------------------------------------------------
(* The actions, one after the other                                         *)

\* What the invariant says of one request.
LEMMA OfOne ==
    ASSUME DeskInv, NEW j \in Jobs, NEW c, c = job[j]
    PROVE  /\ c \in JobRecords /\ JobOK(c)
           /\ c.op = "ask" => c \in AskJobs
           /\ c.op = "answer" => c \in AnswerJobs /\ c \in Works
           /\ c.op = "status" => c \in StatusJobs /\ c \in Works
           /\ questions \in [QuestionKinds -> Seq(Row)] /\ "customer" \in QuestionKinds
           /\ \A k \in QuestionKinds : DOMAIN questions[k] = 1 .. Len(questions[k])
                               /\ Len(questions[k]) \in Nat
           /\ mixed \subseteq Customers
  <1>1. job \in [Jobs -> JobRecords] /\ JobOK(c) /\ questions \in [QuestionKinds -> Seq(Row)]
        /\ mixed \subseteq Customers
    BY DEF DeskInv, DeskTypeOK, Row
  <1>2. \A k \in QuestionKinds : DOMAIN questions[k] = 1 .. Len(questions[k])
                         /\ Len(questions[k]) \in Nat
    BY <1>1, LenProperties
  <1> QED
    BY <1>1, <1>2 DEF JobRecords, AskJobs, AnswerJobs, StatusJobs, Works, NoJob, QuestionKinds

\* A request that is over promises nothing.
LEMMA IdleIsFine == NoJob \in JobRecords /\ NoJob \notin Works /\ JobOK(NoJob) /\ JobOK(NoJob)'
  BY DEF NoJob, JobRecords, JobOK, AskOK, WorkOK, AskJobs, Works, AnswerJobs, StatusJobs, Row

\* A step that changes no question leaves to the others what they had.
LEMMA QuestionsStay ==
    ASSUME DeskInv, NEW j \in Jobs, UNCHANGED questions,
           mails \subseteq mails', saved \subseteq saved', mixed \subseteq mixed'
    PROVE  Grows(j) /\ \A id : AnswerShown(id) => AnswerShown(id)'
  BY DEF Grows, AnswerShown, DeskInv, DeskTypeOK, Row

\* A question is asked.
LEMMA AskKeeps ==
    ASSUME DeskInv, NEW j \in Jobs, NEW kind \in QuestionKinds, Ask(j, kind)
    PROVE  DeskInv'
  <1>1. PICK s \in Seq(Row) : s = questions[kind]
    BY OfOne
  <1>2. PICK n \in Nat : n = Len(s) + 1
    BY LenProperties
  <1>3. PICK w \in Row : w = NewQuestion
    BY DEF NewQuestion, Row, Statuses
  <1>4. PICK t \in Seq(Row) : /\ t = Append(s, w) /\ DOMAIN t = DOMAIN s \cup {n}
                              /\ \A k \in DOMAIN s : t[k] = s[k]
    <2>1. PICK t : t = Append(s, w)
      OBVIOUS
    <2>2. t \in Seq(Row) /\ DOMAIN t = DOMAIN s \cup {n} /\ \A k \in DOMAIN s : t[k] = s[k]
      <3> HIDE DEF Row
      <3> QED
        BY <1>2, <2>1, Appended
    <2> QED
      BY <2>1, <2>2
  <1>5. questions' = [questions EXCEPT ![kind] = t]
    BY <1>1, <1>3, <1>4 DEF Ask
  <1>6. PICK x : x = [op |-> "ask", phase |-> "admins", kind |-> kind, id |-> n, left |-> {}]
    OBVIOUS
  <1>7. /\ job' = [job EXCEPT ![j] = x]
        /\ UNCHANGED <<mails, saved, mixed, told, failures>>
    BY <1>1, <1>2, <1>6 DEF Ask, Open
  <1>8. /\ questions' \in [QuestionKinds -> Seq(Row)]
        /\ \A k \in QuestionKinds : /\ DOMAIN questions[k] \subseteq DOMAIN questions'[k]
                            /\ \A a \in DOMAIN questions[k] : questions'[k][a] = questions[k][a]
        /\ n \in DOMAIN questions'[kind]
    BY <1>1, <1>4, <1>5, OfOne
  <1>9. "customer" \in QuestionKinds /\ mixed \subseteq Customers
    BY OfOne
  <1>10. Customers \subseteq Customers'
         /\ \A id \in Customers : questions'["customer"][id] = questions["customer"][id]
    BY <1>8, <1>9 DEF Customers
  <1>11. Grows(j)
    BY <1>7, <1>8, <1>10 DEF Grows
  <1>12. x \in JobRecords /\ x \in AskJobs /\ x \notin Works
    BY <1>6 DEF JobRecords, AskJobs, Works, AnswerJobs, StatusJobs
  <1>13. JobOK(x)'
    <2>1. AskOK(x)'
      BY <1>6, <1>8 DEF AskOK
    <2>2. WorkOK(x)'
      BY <1>6 DEF WorkOK, Works, AnswerJobs, StatusJobs
    <2> QED
      BY <2>1, <2>2 DEF JobOK
  <1>14. \A id \in Customers : AnswerShown(id) => AnswerShown(id)'
    BY <1>7, <1>10 DEF AnswerShown
  <1> QED
    BY <1>7, <1>9, <1>10, <1>11, <1>12, <1>13, <1>14, OneGoesOn

\* The administrators are read, and one after the other gets the mail.
LEMMA MailsKeep ==
    ASSUME DeskInv, NEW j \in Jobs,
           GetReceivedEmailList(j) \/ \E a \in Receivers : MailAdmin(j, a)
    PROVE  DeskInv'
  <1>1. PICK c : c = job[j]
    OBVIOUS
  <1>2. c \in AskJobs /\ AskOK(c) /\ mixed \subseteq Customers
    BY <1>1, OfOne DEF GetReceivedEmailList, MailAdmin, At, JobOK
  <1>3. c.id \in DOMAIN questions[c.kind] /\ c.kind \in QuestionKinds
    BY <1>2 DEF AskOK, AskJobs
  <1>4. /\ UNCHANGED <<questions, saved, mixed, told>> /\ mails \subseteq mails'
    BY DEF GetReceivedEmailList, MailAdmin
  <1>5. \E x \in AskJobs : /\ job' = [job EXCEPT ![j] = x] /\ AskOK(x)'
                           /\ \A m \in mails' \ mails :
                                 /\ m.kind \in QuestionKinds /\ m.id \in DOMAIN questions'[m.kind]
                                 /\ m.text = None
    <2>1. CASE GetReceivedEmailList(j)
      <3>1. PICK x : x = [c EXCEPT !.left = Receivers, !.phase = "mail"]
        OBVIOUS
      <3>2. /\ x \in AskJobs /\ x.left = Receivers /\ x.kind = c.kind /\ x.id = c.id
            /\ job' = [job EXCEPT ![j] = x] /\ mails' = mails
        BY <1>1, <1>2, <2>1, <3>1 DEF GetReceivedEmailList, AskJobs
      <3>3. AskOK(x)'
        BY <1>3, <1>4, <3>2 DEF AskOK, Receivers
      <3> QED
        BY <3>2, <3>3
    <2>2. ASSUME NEW a \in Receivers, MailAdmin(j, a)
          PROVE  \E x \in AskJobs : /\ job' = [job EXCEPT ![j] = x] /\ AskOK(x)'
                                    /\ \A m \in mails' \ mails :
                                          /\ m.kind \in QuestionKinds /\ m.id \in DOMAIN questions'[m.kind]
                                          /\ m.text = None
      <3>1. PICK x : x = [c EXCEPT !.left = @ \ {a}]
        OBVIOUS
      <3>2. PICK m : m = [to |-> a, kind |-> c.kind, id |-> c.id, text |-> None]
        OBVIOUS
      <3>3. /\ x \in AskJobs /\ x.left = c.left \ {a} /\ x.kind = c.kind /\ x.id = c.id
            /\ x.phase = "mail" /\ c.phase = "mail"
            /\ job' = [job EXCEPT ![j] = x] /\ mails' = mails \cup {m}
        BY <1>1, <1>2, <2>2, <3>1, <3>2 DEF MailAdmin, AskMail, At, AskJobs
      <3>4. \A b \in Receivers \ x.left :
               [to |-> b, kind |-> x.kind, id |-> x.id, text |-> None] \in mails'
        BY <1>2, <3>2, <3>3 DEF AskOK
      <3>5. AskOK(x)'
        BY <1>3, <1>4, <3>3, <3>4 DEF AskOK, Receivers
      <3>6. m.kind \in QuestionKinds /\ m.id \in DOMAIN questions'[m.kind] /\ m.text = None
        BY <1>3, <1>4, <3>2
      <3> QED
        BY <3>3, <3>5, <3>6
    <2> QED
      BY <2>1, <2>2
  <1>6. PICK x \in AskJobs : /\ job' = [job EXCEPT ![j] = x] /\ AskOK(x)'
                             /\ \A m \in mails' \ mails :
                                   /\ m.kind \in QuestionKinds /\ m.id \in DOMAIN questions'[m.kind]
                                   /\ m.text = None
    BY <1>5
  <1>7. x \in JobRecords /\ x \notin Works
    BY DEF JobRecords, AskJobs, Works, AnswerJobs, StatusJobs
  <1>8. WorkOK(x)'
    BY DEF WorkOK, AskJobs, Works, AnswerJobs, StatusJobs
  <1>9. Grows(j) /\ \A id : AnswerShown(id) => AnswerShown(id)'
    BY <1>4, QuestionsStay
  <1>10. mixed' \subseteq Customers'
    BY <1>2, <1>4 DEF Customers
  <1>11. JobOK(x)'
    BY <1>6, <1>8 DEF JobOK
  <1> QED
    BY <1>4, <1>6, <1>7, <1>9, <1>10, <1>11, OneGoesOn

\* Whoever asked is told when every administrator has the mail.
LEMMA AskedKeeps ==
    ASSUME DeskInv, NEW j \in Jobs, Asked(j)
    PROVE  DeskInv'
  <1>1. PICK c : c = job[j]
    OBVIOUS
  <1>2. c \in AskJobs /\ AskOK(c) /\ mixed \subseteq Customers /\ c.phase = "mail" /\ c.left = {}
    BY <1>1, OfOne DEF Asked, AllMailed, At, JobOK
  <1>3. \A a \in Receivers : [to |-> a, kind |-> c.kind, id |-> c.id, text |-> None] \in mails
    BY <1>2 DEF AskOK
  <1>4. /\ UNCHANGED <<questions, mails, saved, mixed>> /\ job' = [job EXCEPT ![j] = NoJob]
        /\ told' = told \cup {[op |-> "ask", kind |-> c.kind, id |-> c.id]}
    BY <1>1 DEF Asked
  <1>5. \A t \in told' \ told :
           \A a \in Receivers : [to |-> a, kind |-> t.kind, id |-> t.id, text |-> None] \in mails'
    BY <1>3, <1>4
  <1>6. Grows(j) /\ \A id : AnswerShown(id) => AnswerShown(id)'
    BY <1>4, QuestionsStay
  <1>7. mixed' \subseteq Customers' /\ mails' \ mails = {}
    BY <1>2, <1>4 DEF Customers
  <1>8. NoJob \in JobRecords /\ NoJob \notin Works /\ JobOK(NoJob)'
    BY IdleIsFine
  <1> QED
    BY <1>4, <1>5, <1>6, <1>7, <1>8, OneGoesOn

\* An administrator reads a question, to answer it or to change its status.
LEMMA ReadsKeep ==
    ASSUME DeskInv, NEW j \in Jobs, NEW id \in Customers,
           \/ \E text \in Texts : StartAnswer(j, id, text)
           \/ \E kind \in QuestionKinds, status \in Statuses : StartStatus(j, kind, id, status)
    PROVE  DeskInv'
  <1>1. /\ questions \in [QuestionKinds -> Seq(Row)] /\ "customer" \in QuestionKinds
        /\ Customers = 1 .. Len(questions["customer"]) /\ Len(questions["customer"]) \in Nat
        /\ mixed \subseteq Customers /\ job \in [Jobs -> JobRecords]
    BY OfOne DEF Customers, DeskInv
  <1>2. PICK copy \in Row : copy = questions["customer"][id]
    <2>1. PICK s \in Seq(Row) : s = questions["customer"]
      BY <1>1
    <2> QED
      BY <1>1, <2>1, ElementOfSeq
  <1>3. id \in Nat
    BY <1>1
  <1>4. /\ UNCHANGED <<questions, mails, saved, told>> /\ mixed' = mixed \cup Mixes(id)
    BY DEF StartAnswer, StartStatus
  <1>5. \E x \in Works : /\ job' = [job EXCEPT ![j] = x]
                         /\ x.id = id /\ x.phase = "save" /\ x.copy = copy
    <2>1. ASSUME NEW text \in Texts, StartAnswer(j, id, text)
          PROVE  \E x \in Works : /\ job' = [job EXCEPT ![j] = x]
                                  /\ x.id = id /\ x.phase = "save" /\ x.copy = copy
      <3>1. PICK x : x = [op |-> "answer", phase |-> "save", id |-> id, text |-> text,
                          copy |-> copy]
        OBVIOUS
      <3>2. x \in Works
        BY <1>3, <3>1 DEF Works, AnswerJobs
      <3>3. job' = [job EXCEPT ![j] = x]
        BY <1>2, <2>1, <3>1 DEF StartAnswer, Open
      <3> QED
        BY <3>1, <3>2, <3>3
    <2>2. ASSUME NEW kind \in QuestionKinds, NEW status \in Statuses, StartStatus(j, kind, id, status)
          PROVE  \E x \in Works : /\ job' = [job EXCEPT ![j] = x]
                                  /\ x.id = id /\ x.phase = "save" /\ x.copy = copy
      <3>1. PICK x : x = [op |-> "status", phase |-> "save", about |-> kind, id |-> id,
                          status |-> status, copy |-> copy]
        OBVIOUS
      <3>2. x \in Works
        BY <1>3, <3>1 DEF Works, StatusJobs
      <3>3. job' = [job EXCEPT ![j] = x]
        BY <1>2, <2>2, <3>1 DEF StartStatus, Open
      <3> QED
        BY <3>1, <3>2, <3>3
    <2> QED
      BY <2>1, <2>2
  <1>6. PICK x \in Works : /\ job' = [job EXCEPT ![j] = x]
                           /\ x.id = id /\ x.phase = "save" /\ x.copy = copy
    BY <1>5
  <1>7. x \in JobRecords
    BY DEF JobRecords
  <1>8. \A i \in Jobs \ {j} : job[i] \in Works /\ job[i].id = id => id \in mixed'
    <2>1. \A i \in Jobs : job[i] \in Works => job[i].op \in {"answer", "status"}
      BY DEF Works, AnswerJobs, StatusJobs
    <2> QED
      BY <1>4, <2>1 DEF Mixes
  <1>9. Grows(j) /\ \A k : AnswerShown(k) => AnswerShown(k)'
    BY <1>4, QuestionsStay
  <1>10. mixed' \subseteq Customers' /\ mails' \ mails = {} /\ Customers' = Customers
    BY <1>1, <1>4 DEF Customers, Mixes
  <1>11. JobOK(x)'
    <2>1. WorkOK(x)'
      BY <1>2, <1>4, <1>6, <1>10 DEF WorkOK
    <2>2. AskOK(x)'
      BY DEF AskOK, AskJobs, Works, AnswerJobs, StatusJobs
    <2> QED
      BY <2>1, <2>2 DEF JobOK
  <1> QED
    BY <1>4, <1>6, <1>7, <1>8, <1>9, <1>10, <1>11, OneGoesOn

\* A row is saved as it was read, with its answer or its status.
LEMMA SaveGrows ==
    ASSUME DeskInv, NEW j \in Jobs, NEW c \in Works, c = job[j], c.phase = "save",
           NEW w \in Row, w.response = c.copy.response \/ w.response # None,
           questions' = [questions EXCEPT !["customer"][c.id] = w],
           UNCHANGED <<mails, mixed>>, saved \subseteq saved'
    PROVE  /\ Grows(j) /\ c.id \in Customers /\ c.id \in Customers'
           /\ questions'["customer"][c.id] = w /\ mixed' \subseteq Customers'
           /\ \A id \in Customers : AnswerShown(id) => AnswerShown(id)'
  <1>1. /\ questions \in [QuestionKinds -> Seq(Row)] /\ "customer" \in QuestionKinds
        /\ Customers = 1 .. Len(questions["customer"]) /\ Len(questions["customer"]) \in Nat
        /\ mixed \subseteq Customers
        /\ c.id \in Customers /\ (c.id \in mixed \/ c.copy = questions["customer"][c.id])
    BY OfOne DEF Customers, JobOK, WorkOK
  <1>2. PICK s \in Seq(Row) : s = questions["customer"]
    BY <1>1
  <1>3. PICK t : t = [s EXCEPT ![c.id] = w]
    OBVIOUS
  <1>4. t \in Seq(Row) /\ DOMAIN t = DOMAIN s /\ t[c.id] = w
        /\ \A k \in DOMAIN s \ {c.id} : t[k] = s[k]
    BY <1>1, <1>2, <1>3, ExceptSeq DEF Customers
  <1>5. questions' = [questions EXCEPT !["customer"] = t]
    BY <1>2, <1>3
  <1>6. questions' \in [QuestionKinds -> Seq(Row)] /\ questions'["customer"] = t
        /\ \A k \in QuestionKinds : DOMAIN questions[k] \subseteq DOMAIN questions'[k]
    BY <1>1, <1>2, <1>4, <1>5
  <1>7. Customers' = Customers /\ Customers = DOMAIN s
    BY <1>2, <1>4, <1>6 DEF Customers
  <1>8. Grows(j)
    BY <1>2, <1>4, <1>6, <1>7 DEF Grows
  <1>9. ASSUME NEW id \in Customers, AnswerShown(id)
        PROVE  AnswerShown(id)'
    <2>1. CASE id = c.id
      BY <1>1, <1>4, <1>6, <1>9, <2>1 DEF AnswerShown
    <2>2. CASE id # c.id
      BY <1>2, <1>4, <1>6, <1>7, <1>9, <2>2 DEF AnswerShown
    <2> QED
      BY <2>1, <2>2
  <1> QED
    BY <1>1, <1>4, <1>6, <1>7, <1>8, <1>9

\* An answer or a status is stored.
LEMMA SavesKeep ==
    ASSUME DeskInv, NEW j \in Jobs, SaveAnswer(j) \/ SaveStatus(j)
    PROVE  DeskInv'
  <1>1. PICK c : c = job[j]
    OBVIOUS
  <1>2. c \in Works /\ c.phase = "save" /\ JobOK(c) /\ job \in [Jobs -> JobRecords] /\ Apart
    BY <1>1, OfOne DEF SaveAnswer, SaveStatus, At, DeskInv
  <1>3. CASE SaveAnswer(j)
    <2>1. c \in AnswerJobs
      BY <1>1, <1>3, OfOne DEF SaveAnswer, At
    <2>2. c.copy \in Row /\ c.text \in Texts /\ c.text # None
      BY <2>1, DeskAssumption DEF AnswerJobs
    <2>3. PICK w \in Row : w = Answered(c.copy, c.text) /\ w.response = c.text
      <3>1. PICK w : w = [c.copy EXCEPT !.response = c.text, !.status = "CONFIRMED"]
        OBVIOUS
      <3>2. w \in Row /\ w.response = c.text
        BY <2>2, <3>1 DEF Row, Statuses
      <3> QED
        BY <3>1, <3>2 DEF Answered
    <2>4. PICK x : x = [c EXCEPT !.phase = "mail"]
      OBVIOUS
    <2>5. /\ questions' = [questions EXCEPT !["customer"][c.id] = w]
          /\ UNCHANGED <<mails, mixed, told>> /\ saved' = saved \cup {<<c.id, c.text>>}
          /\ job' = [job EXCEPT ![j] = x]
      BY <1>1, <1>3, <2>3, <2>4 DEF SaveAnswer
    <2>6. x \in AnswerJobs /\ x.phase = "mail" /\ x.id = c.id /\ x.text = c.text
      BY <2>1, <2>4 DEF AnswerJobs
    <2>7. /\ Grows(j) /\ c.id \in Customers' /\ questions'["customer"][c.id] = w
          /\ mixed' \subseteq Customers'
          /\ \A id \in Customers : AnswerShown(id) => AnswerShown(id)'
      <3>1. c \in Works /\ c = job[j] /\ c.phase = "save" /\ w.response # None
        BY <1>1, <1>2, <2>2, <2>3
      <3>2. UNCHANGED <<mails, mixed>> /\ saved \subseteq saved'
        BY <2>5
      <3>3. questions' = [questions EXCEPT !["customer"][c.id] = w]
        BY <2>5
      <3> QED
        BY <3>1, <3>2, <3>3, SaveGrows
    <2>8. JobOK(x)'
      <3>1. WorkOK(x)'
        BY <2>2, <2>3, <2>5, <2>6, <2>7 DEF WorkOK, AnswerShown
      <3>2. AskOK(x)'
        BY <2>6 DEF AskOK, AskJobs, AnswerJobs
      <3> QED
        BY <3>1, <3>2 DEF JobOK
    <2>9. x \in JobRecords /\ x \in Works
      BY <2>6 DEF JobRecords, Works
    <2>10. \A i \in Jobs \ {j} : job[i] \in Works /\ job[i].id = x.id => x.id \in mixed'
      BY <1>1, <1>2, <2>5, <2>6 DEF Apart
    <2>11. mails' \ mails = {} /\ told' \ told = {}
      BY <2>5
    <2> QED
      BY <2>5, <2>7, <2>8, <2>9, <2>10, <2>11, OneGoesOn
  <1>4. CASE SaveStatus(j)
    <2>1. c \in StatusJobs
      BY <1>1, <1>4, OfOne DEF SaveStatus, At
    <2>2. c.copy \in Row /\ c.status \in Statuses
      BY <2>1 DEF StatusJobs
    <2>3. PICK w \in Row : w = Restated(c.copy, c.status) /\ w.response = c.copy.response
      <3>1. PICK w : w = [c.copy EXCEPT !.status = c.status]
        OBVIOUS
      <3>2. w \in Row /\ w.response = c.copy.response
        BY <2>2, <3>1 DEF Row
      <3> QED
        BY <3>1, <3>2 DEF Restated
    <2>4. /\ questions' = [questions EXCEPT !["customer"][c.id] = w]
          /\ UNCHANGED <<mails, mixed, saved>> /\ job' = [job EXCEPT ![j] = NoJob]
          /\ \A t \in told' \ told : t.op = "status"
      BY <1>1, <1>4, <2>3 DEF SaveStatus
    <2>5. /\ Grows(j) /\ mixed' \subseteq Customers'
          /\ \A id \in Customers : AnswerShown(id) => AnswerShown(id)'
      BY <1>1, <1>2, <2>3, <2>4, SaveGrows
    <2>6. NoJob \in JobRecords /\ NoJob \notin Works /\ JobOK(NoJob)'
      BY IdleIsFine
    <2>7. mails' \ mails = {}
      BY <2>4
    <2> QED
      BY <2>4, <2>5, <2>6, <2>7, OneGoesOn
  <1> QED
    BY <1>3, <1>4

\* The answer is mailed, or the request ends where it is.
LEMMA EndsKeep ==
    ASSUME DeskInv, NEW j \in Jobs, MailCustomer(j) \/ Fail(j)
    PROVE  DeskInv'
  <1>1. PICK c : c = job[j]
    OBVIOUS
  <1>2. /\ UNCHANGED <<questions, saved, mixed, told>> /\ job' = [job EXCEPT ![j] = NoJob]
        /\ mails \subseteq mails'
    BY DEF MailCustomer, Fail
  <1>3. Grows(j) /\ \A id : AnswerShown(id) => AnswerShown(id)'
    BY <1>2, QuestionsStay
  <1>4. mixed' \subseteq Customers' /\ Customers' = Customers
    BY <1>2, OfOne DEF Customers
  <1>5. NoJob \in JobRecords /\ NoJob \notin Works /\ JobOK(NoJob)'
    BY IdleIsFine
  <1>6. \A m \in mails' \ mails :
           /\ m.kind \in QuestionKinds /\ m.id \in DOMAIN questions'[m.kind]
           /\ m.text # None => /\ m.kind = "customer" /\ <<m.id, m.text>> \in saved'
                               /\ AnswerShown(m.id)'
    <2>1. CASE MailCustomer(j)
      <3>1. /\ c \in AnswerJobs /\ c \in Works /\ c.phase = "mail" /\ WorkOK(c)
            /\ "customer" \in QuestionKinds
        BY <1>1, <2>1, OfOne DEF MailCustomer, At, JobOK
      <3>2. c.id \in Customers /\ <<c.id, c.text>> \in saved /\ AnswerShown(c.id)
        BY <3>1 DEF WorkOK
      <3>3. mails' = mails \cup {[to |-> "asker", kind |-> "customer", id |-> c.id,
                                  text |-> c.text]}
        BY <1>1, <2>1 DEF MailCustomer
      <3>4. c.id \in DOMAIN questions'["customer"]
        BY <1>2, <3>2 DEF Customers
      <3> QED
        BY <1>2, <1>3, <3>1, <3>2, <3>3, <3>4
    <2>2. CASE Fail(j)
      BY <2>2 DEF Fail
    <2> QED
      BY <2>1, <2>2
  <1>7. told' \ told = {}
    BY <1>2
  <1> QED
    BY <1>2, <1>3, <1>4, <1>5, <1>6, <1>7, OneGoesOn

\* Every step keeps the invariant.
LEMMA DeskGoesOn == DeskInv /\ [DeskNext]_deskVars => DeskInv'
  <1> SUFFICES ASSUME DeskInv, [DeskNext]_deskVars PROVE DeskInv'
    OBVIOUS
  <1>1. CASE UNCHANGED deskVars
    <2>1. UNCHANGED <<questions, job, mails, saved, mixed, told>>
      BY <1>1 DEF deskVars
    <2>2. DeskTypeOK' /\ MailOK' /\ MailIsTrue'
      BY <2>1 DEF DeskInv, DeskTypeOK, MailOK, MailIsTrue, SuccessIsMailed, MailedIsAnswered,
                  Customers, Receivers
    <2>3. (job \in [Jobs -> JobRecords])' /\ Apart'
      BY <2>1 DEF DeskInv, Apart, JobRecords, Works, AskJobs, AnswerJobs, StatusJobs, Row,
                  Receivers
    <2>4. ASSUME NEW j \in Jobs
          PROVE  JobOK(job[j])'
      BY <2>1 DEF DeskInv, JobOK, AskOK, WorkOK, AnswerShown, Customers, Receivers, Works,
                  AskJobs, AnswerJobs, StatusJobs, Row
    <2> QED
      BY <2>2, <2>3, <2>4 DEF DeskInv
  <1>2. ASSUME NEW j \in Jobs, NEW kind \in QuestionKinds, Ask(j, kind)
        PROVE  DeskInv'
    BY <1>2, AskKeeps
  <1>3. ASSUME NEW j \in Jobs, GetReceivedEmailList(j) \/ \E a \in Receivers : MailAdmin(j, a)
        PROVE  DeskInv'
    BY <1>3, MailsKeep
  <1>4. ASSUME NEW j \in Jobs, Asked(j)
        PROVE  DeskInv'
    BY <1>4, AskedKeeps
  <1>5. ASSUME NEW j \in Jobs, NEW id \in Customers,
               \/ \E text \in Texts : StartAnswer(j, id, text)
               \/ \E kind \in QuestionKinds, status \in Statuses : StartStatus(j, kind, id, status)
        PROVE  DeskInv'
    BY <1>5, ReadsKeep
  <1>6. ASSUME NEW j \in Jobs, SaveAnswer(j) \/ SaveStatus(j)
        PROVE  DeskInv'
    BY <1>6, SavesKeep
  <1>7. ASSUME NEW j \in Jobs, MailCustomer(j) \/ Fail(j)
        PROVE  DeskInv'
    BY <1>7, EndsKeep
  <1> QED
    BY <1>1, <1>2, <1>3, <1>4, <1>5, <1>6, <1>7 DEF DeskNext

-----------------------------------------------------------------------------
(* The theorems                                                             *)

\* The tables of questions hold a status and an answer each, and whatever was
\* mailed is about a question that is stored: a mail is only sent once its question
\* or answer was saved, and no question is ever removed (createCustomerSupport,
\* createBussinessSupport, createResponseCustomerSupport).
THEOREM DeskTypeCorrect == DeskSpec => []DeskTypeOK
  <1>1. DeskInv => DeskTypeOK
    BY DEF DeskInv
  <1> QED
    BY <1>1, DeskBegins, DeskGoesOn, PTL DEF DeskSpec

\* Who was told of success has reached every administrator, and an answer that
\* was mailed is stored and shown unless two requests worked on the question at
\* once (createCustomerSupport, createBussinessSupport,
\* createResponseCustomerSupport), however requests interleave and fail.
THEOREM DeskTellsTheTruth == DeskSpec => []MailIsTrue
  <1>1. DeskInv => MailIsTrue
    BY DEF DeskInv
  <1> QED
    BY <1>1, DeskBegins, DeskGoesOn, PTL DEF DeskSpec

=============================================================================
