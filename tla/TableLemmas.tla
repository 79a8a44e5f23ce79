---------------------------- MODULE TableLemmas ----------------------------
(***************************************************************************)
(* What an insert, an update or a reset of rows does to a table: to the    *)
(* total of a column, SumOver, when the rows are a function, and to the    *)
(* rows themselves when they are a sequence.  The proofs about ledgers,    *)
(* books and registers cite these facts and never the definition of        *)
(* SumOver.                                                                *)
(***************************************************************************)
EXTENDS Sums, FiniteSetTheorems, SequenceTheorems, TLAPS

\* The units of one row are as many as its value says.
LEMMA RowUnits ==
    ASSUME NEW x, NEW n \in Nat
    PROVE  /\ IsFiniteSet({x} \X (1..n))
           /\ Cardinality({x} \X (1..n)) = n
  <1>1. IsFiniteSet({x}) /\ Cardinality({x}) = 1
    BY FS_Singleton
  <1>2. IsFiniteSet(1..n) /\ Cardinality(1..n) = n
    BY FS_Interval
  <1>3. /\ IsFiniteSet({x} \X (1..n))
        /\ Cardinality({x} \X (1..n)) = Cardinality({x}) * Cardinality(1..n)
    BY <1>1, <1>2, FS_Product
  <1> QED
    BY <1>1, <1>2, <1>3

\* A finite table holds finitely many units.
LEMMA UnitsFinite ==
    ASSUME NEW S, IsFiniteSet(S), NEW f, \A x \in S : f[x] \in Nat
    PROVE  IsFiniteSet(Units(S, f))
  <1> DEFINE R == {{x} \X (1..f[x]) : x \in S}
             row == [x \in S |-> {x} \X (1..f[x])]
  <1>1. row \in Surjection(S, R)
    BY DEF Surjection
  <1>2. IsFiniteSet(R)
    BY <1>1, FS_Surjection
  <1>3. ASSUME NEW T \in R
        PROVE  IsFiniteSet(T)
    <2>1. PICK x \in S : T = {x} \X (1..f[x])
      OBVIOUS
    <2>2. IsFiniteSet({x} \X (1..f[x]))
      BY RowUnits
    <2> QED
      BY <2>1, <2>2
  <1> HIDE DEF R
  <1>4. IsFiniteSet(UNION R)
    BY <1>2, <1>3, FS_UNION
  <1> QED
    BY <1>4 DEF Units, R

\* A total is a natural number.
LEMMA SumNat ==
    ASSUME NEW S, IsFiniteSet(S), NEW f, \A x \in S : f[x] \in Nat
    PROVE  SumOver(S, f) \in Nat
  BY UnitsFinite, FS_CardinalityType DEF SumOver

\* The total depends on the rows of S alone.
LEMMA SumSame ==
    ASSUME NEW S, NEW f, NEW g, \A x \in S : f[x] = g[x]
    PROVE  SumOver(S, f) = SumOver(S, g)
  <1>1. Units(S, f) = Units(S, g)
    BY DEF Units
  <1> QED
    BY <1>1 DEF SumOver

\* The total of an empty table is zero.
LEMMA SumEmpty ==
    ASSUME NEW f
    PROVE  SumOver({}, f) = 0
  <1>1. Units({}, f) = {}
    BY DEF Units
  <1> QED
    BY <1>1, FS_EmptySet DEF SumOver

\* One row can be taken out of the total.
LEMMA SumSplit ==
    ASSUME NEW S, IsFiniteSet(S), NEW f, \A x \in S : f[x] \in Nat,
           NEW r \in S
    PROVE  SumOver(S, f) = SumOver(S \ {r}, f) + f[r]
  <1> DEFINE A == Units(S \ {r}, f)
             B == {r} \X (1..f[r])
  <1>1. IsFiniteSet(S \ {r})
    BY FS_RemoveElement
  <1>2. IsFiniteSet(A) /\ Cardinality(A) \in Nat
    BY <1>1, UnitsFinite, FS_CardinalityType
  <1>3. IsFiniteSet(B) /\ Cardinality(B) = f[r]
    BY RowUnits
  <1>4. Units(S, f) = A \cup B
    BY DEF Units
  <1>5. A \cap B = {}
    BY DEF Units
  <1> HIDE DEF A, B
  <1>6. Cardinality(A \cup B)
          = Cardinality(A) + Cardinality(B) - Cardinality(A \cap B)
    BY <1>2, <1>3, FS_Union
  <1>7. Cardinality(A \cap B) = 0
    BY <1>5, FS_EmptySet
  <1>8. Cardinality(A \cup B) = Cardinality(A) + f[r]
    BY <1>2, <1>3, <1>6, <1>7
  <1> QED
    BY <1>4, <1>8 DEF SumOver, A

\* Rows that agree everywhere but on r give totals that differ by r's change.
LEMMA SumChange ==
    ASSUME NEW S, IsFiniteSet(S), NEW r \in S,
           NEW f, \A x \in S : f[x] \in Nat,
           NEW g, \A x \in S : g[x] \in Nat,
           \A x \in S \ {r} : g[x] = f[x]
    PROVE  SumOver(S, g) = SumOver(S, f) - f[r] + g[r]
  <1>1. SumOver(S \ {r}, g) = SumOver(S \ {r}, f)
    BY SumSame
  <1>2. SumOver(S, f) = SumOver(S \ {r}, f) + f[r]
    BY SumSplit
  <1>3. SumOver(S, g) = SumOver(S \ {r}, g) + g[r]
    BY SumSplit
  <1>4. SumOver(S \ {r}, f) \in Nat
    BY FS_RemoveElement, SumNat
  <1> QED
    BY <1>1, <1>2, <1>3, <1>4

\* Rows of zeros have total zero.
LEMMA SumZero ==
    ASSUME NEW S, NEW f, \A x \in S : f[x] = 0
    PROVE  SumOver(S, f) = 0
  <1>1. Units(S, f) = {}
    BY DEF Units
  <1> QED
    BY <1>1, FS_EmptySet DEF SumOver

\* Of some subsets of a finite set one is the smallest: without any of its
\* elements it is not among them.  What holds of the empty set, and of a set
\* whenever it holds without one of its elements, so holds of all.
LEMMA SmallestSubset ==
    ASSUME NEW S, IsFiniteSet(S), NEW C \in SUBSET SUBSET S, C # {}
    PROVE  \E T \in C : \A x \in T : T \ {x} \notin C
  <1>1. C \subseteq FiniteSubsetsOf(S)
    BY FS_Subset DEF FiniteSubsetsOf
  <1>2. IsWellFoundedOn(StrictSubsetOrdering(S), FiniteSubsetsOf(S))
    BY FS_StrictSubsetOrderingWellFounded
  <1>3. PICK T \in C : \A y \in C : ~(<<y, T>> \in StrictSubsetOrdering(S))
    BY <1>1, <1>2, WFMin
  <1>4. ASSUME NEW x \in T, T \ {x} \in C
        PROVE  FALSE
    <2> DEFINE y == T \ {x}
    <2>1. y \in SUBSET S /\ T \in SUBSET S /\ y \subseteq T /\ y # T
      OBVIOUS
    <2> HIDE DEF y
    <2>2. <<y, T>> \in StrictSubsetOrdering(S)
      BY <2>1, Zenon DEF StrictSubsetOrdering
    <2> QED
      BY <1>3, <1>4, <2>2 DEF y
  <1> QED
    BY <1>3, <1>4

\* The total over two tables is the sum of their totals.
LEMMA SumUnion ==
    ASSUME NEW A, IsFiniteSet(A), NEW B, IsFiniteSet(B), A \cap B = {},
           NEW f, \A x \in A \cup B : f[x] \in Nat
    PROVE  SumOver(A \cup B, f) = SumOver(A, f) + SumOver(B, f)
  <1> DEFINE a == Units(A, f)
             b == Units(B, f)
  <1>1. IsFiniteSet(a) /\ IsFiniteSet(b)
    BY UnitsFinite
  <1>2. Units(A \cup B, f) = a \cup b /\ a \cap b = {}
    BY DEF Units
  <1>3. Cardinality(a) \in Nat /\ Cardinality(b) \in Nat
    BY <1>1, FS_CardinalityType
  <1> HIDE DEF a, b
  <1>4. Cardinality(a \cup b) = Cardinality(a) + Cardinality(b) - Cardinality(a \cap b)
    BY <1>1, FS_Union
  <1>5. Cardinality(a \cap b) = 0
    BY <1>2, FS_EmptySet
  <1>6. Cardinality(a \cup b) = Cardinality(a) + Cardinality(b)
    BY <1>3, <1>4, <1>5
  <1> QED
    BY <1>2, <1>6 DEF SumOver, a, b

\* A part of the rows has no more than all of them.
LEMMA SumPart ==
    ASSUME NEW S, IsFiniteSet(S), NEW A \in SUBSET S, NEW f, \A x \in S : f[x] \in Nat
    PROVE  SumOver(A, f) <= SumOver(S, f)
  <1> DEFINE B == S \ A
  <1>1. IsFiniteSet(A) /\ IsFiniteSet(B) /\ A \cup B = S /\ A \cap B = {}
    BY FS_Subset
  <1> HIDE DEF B
  <1>2. SumOver(S, f) = SumOver(A, f) + SumOver(B, f)
    BY <1>1, SumUnion
  <1>3. SumOver(A, f) \in Nat /\ SumOver(B, f) \in Nat
    BY <1>1, SumNat
  <1> QED
    BY <1>2, <1>3

\* The total of one row is its value.
LEMMA SumSingle ==
    ASSUME NEW x, NEW f, f[x] \in Nat
    PROVE  SumOver({x}, f) = f[x]
  <1>1. IsFiniteSet({x}) /\ {x} \ {x} = {}
    BY FS_Singleton
  <1>2. SumOver({x}, f) = SumOver({x} \ {x}, f) + f[x]
    BY <1>1, SumSplit
  <1> QED
    BY <1>1, <1>2, SumEmpty

\* When every value is multiplied by n, so is the total.
LEMMA SumScaled ==
    ASSUME NEW S, IsFiniteSet(S), NEW n \in Nat,
           NEW f, \A x \in S : f[x] \in Nat,
           NEW g, \A x \in S : g[x] = n * f[x]
    PROVE  SumOver(S, g) = n * SumOver(S, f)
  <1> DEFINE C == {T \in SUBSET S : SumOver(T, g) # n * SumOver(T, f)}
  <1>1. SUFFICES ASSUME C # {}
                 PROVE  FALSE
    OBVIOUS
  <1>2. PICK T \in C : \A x \in T : T \ {x} \notin C
    <2>1. C \in SUBSET SUBSET S
      OBVIOUS
    <2> HIDE DEF C
    <2> QED
      BY <1>1, <2>1, SmallestSubset
  <1>3. SumOver({}, g) = n * SumOver({}, f)
    BY SumEmpty
  <1>4. PICK x \in T : TRUE
    BY <1>3
  <1>5. T \in SUBSET S /\ SumOver(T, g) # n * SumOver(T, f)
    OBVIOUS
  <1>6. SumOver(T \ {x}, g) = n * SumOver(T \ {x}, f)
    BY <1>2, <1>5
  <1>7. IsFiniteSet(T) /\ IsFiniteSet(T \ {x}) /\ \A y \in T : g[y] \in Nat
    BY <1>5, FS_Subset
  <1> HIDE DEF C
  <1>8. SumOver(T, g) = SumOver(T \ {x}, g) + g[x]
    BY <1>5, <1>7, SumSplit
  <1>9. SumOver(T, f) = SumOver(T \ {x}, f) + f[x]
    BY <1>5, <1>7, SumSplit
  <1>10. SumOver(T \ {x}, f) \in Nat /\ f[x] \in Nat /\ g[x] = n * f[x]
    BY <1>5, <1>7, SumNat
  <1>11. \A a, b \in Nat : n * (a + b) = n * a + n * b
    OBVIOUS
  <1> QED
    BY <1>5, <1>6, <1>8, <1>9, <1>10, <1>11

\* Grouped by owner, the totals of the groups add up to the total.
LEMMA SumGrouped ==
    ASSUME NEW S, IsFiniteSet(S), NEW f, \A x \in S : f[x] \in Nat,
           NEW U, IsFiniteSet(U), NEW owner, \A x \in S : owner[x] \in U,
           NEW group, \A u \in U : \A x : x \in group[u] <=> x \in S /\ owner[x] = u,
           NEW g, \A u \in U : g[u] = SumOver(group[u], f)
    PROVE  SumOver(U, g) = SumOver(S, f)
  <1> DEFINE Of(V) == {x \in S : owner[x] \in V}
             C == {V \in SUBSET U : SumOver(V, g) # SumOver(Of(V), f)}
  <1>1. SUFFICES ASSUME C # {}
                 PROVE  FALSE
    <2>1. Of(U) = S
      OBVIOUS
    <2> QED
      BY <2>1
  <1>2. PICK V \in C : \A u \in V : V \ {u} \notin C
    <2>1. C \in SUBSET SUBSET U
      OBVIOUS
    <2> HIDE DEF C
    <2> QED
      BY <1>1, <2>1, SmallestSubset
  <1>3. SumOver({}, g) = SumOver(Of({}), f)
    <2>1. Of({}) = {}
      OBVIOUS
    <2> QED
      BY <2>1, SumEmpty
  <1>4. V \in SUBSET U /\ SumOver(V, g) # SumOver(Of(V), f)
    OBVIOUS
  <1>5. PICK u \in V : TRUE
    BY <1>3, <1>4
  <1>6. SumOver(V \ {u}, g) = SumOver(Of(V \ {u}), f)
    BY <1>2, <1>4
  <1> DEFINE A == Of(V \ {u})
             B == group[u]
  <1>7. /\ A \cup B = Of(V) /\ A \cap B = {} /\ A \subseteq S /\ B \subseteq S
    BY <1>4, <1>5
  <1>8. IsFiniteSet(A) /\ IsFiniteSet(B) /\ IsFiniteSet(V)
    BY <1>4, <1>7, FS_Subset
  <1>9. \A v \in V : g[v] \in Nat
    <2> TAKE v \in V
    <2> DEFINE D == group[v]
    <2>1. D \subseteq S /\ g[v] = SumOver(D, f)
      BY <1>4
    <2> HIDE DEF D
    <2>2. IsFiniteSet(D) /\ \A x \in D : f[x] \in Nat
      BY <2>1, FS_Subset
    <2>3. SumOver(D, f) \in Nat
      BY <2>2, SumNat
    <2> QED
      BY <2>1, <2>3
  <1>10. g[u] = SumOver(B, f)
    BY <1>4, <1>5
  <1> HIDE DEF A, B, C, Of
  <1>11. SumOver(V, g) = SumOver(V \ {u}, g) + g[u]
    BY <1>5, <1>8, <1>9, SumSplit
  <1>12. SumOver(A \cup B, f) = SumOver(A, f) + SumOver(B, f)
    BY <1>7, <1>8, SumUnion
  <1> QED
    BY <1>4, <1>6, <1>7, <1>10, <1>11, <1>12 DEF A

\* When the rows of one column are the sums of two others, so is its total.
LEMMA SumPlus ==
    ASSUME NEW S, IsFiniteSet(S),
           NEW f, \A x \in S : f[x] \in Nat,
           NEW g, \A x \in S : g[x] \in Nat,
           NEW h, \A x \in S : h[x] = f[x] + g[x]
    PROVE  SumOver(S, h) = SumOver(S, f) + SumOver(S, g)
  <1> DEFINE C == {T \in SUBSET S : SumOver(T, h) # SumOver(T, f) + SumOver(T, g)}
  <1>1. SUFFICES ASSUME C # {}
                 PROVE  FALSE
    OBVIOUS
  <1>2. PICK T \in C : \A x \in T : T \ {x} \notin C
    <2>1. C \in SUBSET SUBSET S
      OBVIOUS
    <2> HIDE DEF C
    <2> QED
      BY <1>1, <2>1, SmallestSubset
  <1>3. SumOver({}, h) = SumOver({}, f) + SumOver({}, g)
    BY SumEmpty
  <1>4. T \in SUBSET S /\ SumOver(T, h) # SumOver(T, f) + SumOver(T, g)
    OBVIOUS
  <1>5. PICK x \in T : TRUE
    BY <1>3, <1>4
  <1>6. SumOver(T \ {x}, h) = SumOver(T \ {x}, f) + SumOver(T \ {x}, g)
    BY <1>2, <1>4
  <1>7. IsFiniteSet(T) /\ IsFiniteSet(T \ {x})
    BY <1>4, FS_Subset
  <1> HIDE DEF C
  <1>8. \A y \in T : f[y] \in Nat /\ g[y] \in Nat /\ h[y] \in Nat /\ h[y] = f[y] + g[y]
    BY <1>4
  <1>9. /\ SumOver(T, h) = SumOver(T \ {x}, h) + h[x]
        /\ SumOver(T, f) = SumOver(T \ {x}, f) + f[x]
        /\ SumOver(T, g) = SumOver(T \ {x}, g) + g[x]
    BY <1>5, <1>7, <1>8, SumSplit
  <1>10. SumOver(T \ {x}, f) \in Nat /\ SumOver(T \ {x}, g) \in Nat
    BY <1>7, <1>8, SumNat
  <1> QED
    BY <1>4, <1>5, <1>6, <1>8, <1>9, <1>10

\* A column with rows that are nowhere greater has no greater total.
LEMMA SumLess ==
    ASSUME NEW S, IsFiniteSet(S),
           NEW f, \A x \in S : f[x] \in Nat,
           NEW g, \A x \in S : g[x] \in Nat /\ f[x] <= g[x]
    PROVE  SumOver(S, f) <= SumOver(S, g)
  <1> DEFINE d == [x \in S |-> g[x] - f[x]]
  <1>1. \A x \in S : d[x] \in Nat /\ g[x] = f[x] + d[x]
    OBVIOUS
  <1> HIDE DEF d
  <1>2. SumOver(S, g) = SumOver(S, f) + SumOver(S, d)
    BY <1>1, SumPlus
  <1>3. SumOver(S, f) \in Nat /\ SumOver(S, d) \in Nat
    BY <1>1, SumNat
  <1> QED
    BY <1>2, <1>3

\* Rows of zeros may be left out of the total.
LEMMA SumOfPart ==
    ASSUME NEW S, IsFiniteSet(S), NEW A \in SUBSET S, NEW f, \A x \in A : f[x] \in Nat,
           NEW g, \A x \in S : g[x] = IF x \in A THEN f[x] ELSE 0
    PROVE  SumOver(S, g) = SumOver(A, f)
  <1> DEFINE B == S \ A
  <1>1. IsFiniteSet(A) /\ IsFiniteSet(B) /\ A \cup B = S /\ A \cap B = {}
    BY FS_Subset
  <1>2. /\ \A x \in B : g[x] = 0
        /\ \A x \in A : g[x] = f[x]
        /\ \A x \in A \cup B : g[x] \in Nat
    OBVIOUS
  <1> HIDE DEF B
  <1>3. SumOver(S, g) = SumOver(A, g) + SumOver(B, g)
    BY <1>1, <1>2, SumUnion
  <1>4. SumOver(B, g) = 0 /\ SumOver(A, g) = SumOver(A, f)
    BY <1>2, SumZero, SumSame
  <1>5. SumOver(A, f) \in Nat
    BY <1>1, SumNat
  <1> QED
    BY <1>3, <1>4, <1>5

\* Rows that are listed under other names have the same total.
LEMMA SumRenamed ==
    ASSUME NEW S, IsFiniteSet(S), NEW T, NEW to \in [S -> T],
           \A x, y \in S : to[x] = to[y] => x = y,
           \A t \in T : \E x \in S : to[x] = t,
           NEW f, \A x \in S : f[x] \in Nat,
           NEW g, \A x \in S : g[to[x]] = f[x]
    PROVE  SumOver(T, g) = SumOver(S, f)
  <1> DEFINE group == [t \in T |-> {x \in S : to[x] = t}]
  <1>1. to \in Surjection(S, T)
    BY DEF Surjection
  <1>2. IsFiniteSet(T)
    BY <1>1, FS_Surjection
  <1>3. ASSUME NEW t \in T
        PROVE  g[t] = SumOver(group[t], f)
    <2>1. PICK x \in S : to[x] = t
      OBVIOUS
    <2>2. group[t] = {x} /\ g[t] = f[x] /\ f[x] \in Nat
      BY <2>1
    <2> QED
      BY <2>2, SumSingle
  <1>4. \A t \in T : \A x : x \in group[t] <=> x \in S /\ to[x] = t
    OBVIOUS
  <1> HIDE DEF group
  <1> QED
    BY <1>2, <1>3, <1>4, SumGrouped

----------------------------------------------------------------------------
(* Tables whose rows are a sequence                                         *)

\* One element of a sequence is replaced.
LEMMA Replaced ==
    ASSUME NEW T, NEW s \in Seq(T), NEW i \in DOMAIN s, NEW x \in T,
           NEW t, t = [s EXCEPT ![i] = x]
    PROVE  /\ t \in Seq(T) /\ DOMAIN t = DOMAIN s
           /\ t[i] = x /\ \A j \in DOMAIN s \ {i} : t[j] = s[j]
  <1>1. DOMAIN s = 1 .. Len(s)
    BY LenProperties
  <1>2. t \in Seq(T)
    BY <1>1, ExceptSeq
  <1> QED
    BY <1>2

\* One element is appended.
LEMMA Appended ==
    ASSUME NEW T, NEW s \in Seq(T), NEW x \in T, NEW t, t = Append(s, x)
    PROVE  /\ t \in Seq(T) /\ Len(s) + 1 \notin DOMAIN s
           /\ DOMAIN t = DOMAIN s \cup {Len(s) + 1}
           /\ t[Len(s) + 1] = x /\ \A j \in DOMAIN s : t[j] = s[j]
           /\ Len(s) + 1 \in Nat /\ DOMAIN s \subseteq Nat
  <1>1. Len(s) \in Nat /\ DOMAIN s = 1 .. Len(s)
    BY LenProperties
  <1>2. /\ t \in Seq(T) /\ Len(t) = Len(s) + 1 /\ t[Len(s) + 1] = x
        /\ \A j \in 1 .. Len(s) : t[j] = s[j]
    BY AppendProperties
  <1>3. DOMAIN t = 1 .. Len(s) + 1
    BY <1>2, LenProperties
  <1> QED
    BY <1>1, <1>2, <1>3

\* Elements are replaced in place.
LEMMA Mapped ==
    ASSUME NEW T, NEW s \in Seq(T), NEW t, DOMAIN t = DOMAIN s, t = [i \in DOMAIN t |-> t[i]],
           \A i \in DOMAIN s : t[i] \in T
    PROVE  t \in Seq(T)
  <1>1. Len(s) \in Nat /\ DOMAIN s = 1 .. Len(s)
    BY LenProperties
  <1>2. t \in [1 .. Len(s) -> T]
    BY <1>1
  <1> QED
    BY <1>1, <1>2, SeqDef

\* Of some ids one is the lowest.
LEMMA LowestId ==
    ASSUME NEW ids \in SUBSET Nat, ids # {}
    PROVE  \E i \in ids : \A j \in ids : i <= j
  <1> DEFINE T == {0..i : i \in ids}
  <1>1. T # {} /\ T \subseteq FiniteSubsetsOf(Nat)
    <2>1. \A i \in Nat : IsFiniteSet(0..i) /\ 0..i \subseteq Nat
      BY FS_Interval
    <2> QED
      BY <2>1 DEF FiniteSubsetsOf
  <1>2. IsWellFoundedOn(StrictSubsetOrdering(Nat), FiniteSubsetsOf(Nat))
    BY FS_StrictSubsetOrderingWellFounded
  <1> HIDE DEF T
  <1>3. PICK t \in T : \A y \in T : ~(<<y, t>> \in StrictSubsetOrdering(Nat))
    BY <1>1, <1>2, WFMin
  <1>4. PICK i \in ids : t = 0..i
    BY DEF T
  <1>5. ASSUME NEW j \in ids
        PROVE  i <= j
    <2>1. 0..j \in T
      BY DEF T
    <2>2. 0..j \subseteq 0..i => 0..j = 0..i
      <3> DEFINE A == 0..j
                 B == 0..i
      <3>1. A \in SUBSET Nat /\ B \in SUBSET Nat /\ A \in T /\ t = B
        BY <1>4, <2>1
      <3> HIDE DEF A, B
      <3>2. A \subseteq B /\ A # B => <<A, B>> \in StrictSubsetOrdering(Nat)
        BY <3>1, Zenon DEF StrictSubsetOrdering
      <3>3. ~(<<A, B>> \in StrictSubsetOrdering(Nat))
        BY <1>3, <3>1
      <3> QED
        BY <3>2, <3>3 DEF A, B
    <2>3. i \in Nat /\ j \in Nat
      OBVIOUS
    <2>4. j < i => 0..j \subseteq 0..i /\ i \in 0..i /\ i \notin 0..j
      BY <2>3
    <2> QED
      BY <2>2, <2>3, <2>4
  <1> QED
    BY <1>5

\* Of some ids up to n one is the highest.
LEMMA HighestId ==
    ASSUME NEW n \in Nat, NEW ids \in SUBSET (0 .. n), ids # {}
    PROVE  \E i \in ids : \A j \in ids : j <= i
  <1> DEFINE T == {n - i : i \in ids}
  <1>1. T \in SUBSET Nat /\ T # {}
    <2>1. \A i \in ids : n - i \in Nat
      OBVIOUS
    <2>2. PICK i \in ids : TRUE
      OBVIOUS
    <2>3. n - i \in T
      BY <2>2
    <2> QED
      BY <2>1, <2>3
  <1>2. \A j \in ids : n - j \in T
    OBVIOUS
  <1>3. \A t \in T : \E i \in ids : t = n - i
    OBVIOUS
  <1> HIDE DEF T
  <1>4. PICK t \in T : \A y \in T : t <= y
    BY <1>1, LowestId
  <1>5. PICK i \in ids : t = n - i
    BY <1>3
  <1>6. \A j \in ids : n - i <= n - j /\ i \in Nat /\ j \in Nat
    BY <1>2, <1>4, <1>5
  <1> QED
    BY <1>6

\* What holds of 0, and of n + 1 whenever it holds of n, holds up to any n.
LEMMA CountingUp ==
    ASSUME NEW n \in Nat, NEW P, 0 \in P, \A k \in 0 .. n - 1 : k \in P => k + 1 \in P
    PROVE  \A k \in 0 .. n : k \in P
  <1> DEFINE ids == {k \in 0 .. n : k \notin P}
  <1>1. SUFFICES ASSUME ids # {} PROVE FALSE
    OBVIOUS
  <1>2. ids \in SUBSET Nat
    OBVIOUS
  <1> HIDE DEF ids
  <1>3. PICK i \in ids : \A j \in ids : i <= j
    BY <1>1, <1>2, LowestId
  <1>4. i \in 0 .. n /\ i \notin P /\ i # 0
    BY DEF ids
  <1>5. i - 1 \in 0 .. n - 1 /\ i - 1 + 1 = i /\ i - 1 \in 0 .. n /\ ~(i <= i - 1)
    BY <1>4
  <1>6. i - 1 \in P
    BY <1>3, <1>5 DEF ids
  <1> QED
    BY <1>4, <1>5, <1>6

\* Ids up to n are finitely many.
LEMMA IdsAreFinite ==
    ASSUME NEW n \in Nat, NEW ids \in SUBSET (1 .. n)
    PROVE  IsFiniteSet(ids) /\ Cardinality(ids) \in Nat
  <1>1. IsFiniteSet(1 .. n)
    BY FS_Interval
  <1>2. IsFiniteSet(ids)
    BY <1>1, FS_Subset
  <1> QED
    BY <1>2, FS_CardinalityType

\* Some ids up to n can be listed in their order.
LEMMA ListedInOrder ==
    ASSUME NEW n \in Nat, NEW ids \in SUBSET (1 .. n)
    PROVE  /\ IsFiniteSet(ids) /\ Cardinality(ids) \in Nat
           /\ \E s \in [1 .. Cardinality(ids) -> ids] :
                 \A a, b \in 1 .. Cardinality(ids) : a < b => s[a] < s[b]
  <1> DEFINE Lists(T) == {s \in [1 .. Cardinality(T) -> T] :
                             \A a, b \in 1 .. Cardinality(T) : a < b => s[a] < s[b]}
             C == {T \in SUBSET ids : Lists(T) = {}}
  <1>1. IsFiniteSet(ids) /\ Cardinality(ids) \in Nat
    BY IdsAreFinite
  <1>2. SUFFICES ASSUME C # {} PROVE FALSE
    BY <1>1
  <1>3. PICK T \in C : \A x \in T : T \ {x} \notin C
    <2>1. C \in SUBSET SUBSET ids
      OBVIOUS
    <2> HIDE DEF C
    <2> QED
      BY <1>1, <1>2, <2>1, SmallestSubset
  <1>4. T \in SUBSET ids /\ Lists(T) = {} /\ T \in SUBSET (0 .. n) /\ IsFiniteSet(T)
    <2>1. T \in SUBSET ids /\ Lists(T) = {}
      OBVIOUS
    <2> HIDE DEF C, Lists
    <2>2. T \in SUBSET (0 .. n)
      BY <2>1
    <2> QED
      BY <1>1, <2>1, <2>2, FS_Subset
  <1>5. T # {}
    <2>1. ASSUME T = {} PROVE FALSE
      <3>1. Cardinality(T) = 0
        BY <2>1, FS_EmptySet
      <3>2. [a \in 1 .. 0 |-> 0] \in Lists(T)
        BY <2>1, <3>1
      <3> QED
        BY <1>4, <3>2
    <2> QED
      BY <2>1
  <1>6. PICK m \in T : \A j \in T : j <= m
    BY <1>4, <1>5, HighestId
  <1>7. PICK k : k = Cardinality(T)
    OBVIOUS
  <1>8. k \in Nat \ {0} /\ Cardinality(T \ {m}) = k - 1
    <2>1. Cardinality(T \ {m}) = Cardinality(T) - 1 /\ Cardinality(T) \in Nat
          /\ Cardinality(T \ {m}) \in Nat
      BY <1>4, FS_RemoveElement, FS_CardinalityType
    <2> QED
      BY <1>7, <2>1
  <1>9. PICK s \in Lists(T \ {m}) : TRUE
    <2>1. T \ {m} \in SUBSET ids /\ T \ {m} \notin C
      BY <1>3, <1>4
    <2> QED
      BY <2>1
  <1>10. /\ s \in [1 .. k - 1 -> T \ {m}]
         /\ \A a, b \in 1 .. k - 1 : a < b => s[a] < s[b]
    BY <1>8, <1>9
  <1> HIDE DEF C, Lists
  <1>11. PICK t : t = [a \in 1 .. k |-> IF a = k THEN m ELSE s[a]]
    OBVIOUS
  <1>12. /\ t \in [1 .. k -> T] /\ t[k] = m
         /\ \A a \in 1 .. k : a # k => a \in 1 .. k - 1 /\ t[a] = s[a] /\ s[a] \in T \ {m}
    BY <1>8, <1>10, <1>11
  <1>13. ASSUME NEW a \in 1 .. k, NEW b \in 1 .. k, a < b
         PROVE  t[a] < t[b]
    <2>1. a # k /\ a \in 1 .. k - 1 /\ t[a] = s[a] /\ s[a] \in T \ {m}
      BY <1>8, <1>12, <1>13
    <2>2. CASE b = k
      <3>1. PICK x \in T : x = s[a] /\ x # m
        BY <2>1
      <3>2. x \in Nat /\ m \in Nat
        BY <1>4
      <3>3. x < m
        BY <1>6, <3>1, <3>2
      <3> QED
        BY <1>12, <2>1, <2>2, <3>1, <3>3
    <2>3. CASE b # k
      BY <1>10, <1>12, <1>13, <2>1, <2>3
    <2> QED
      BY <2>2, <2>3
  <1>14. t \in Lists(T)
    BY <1>7, <1>12, <1>13 DEF Lists
  <1> QED
    BY <1>4, <1>14

\* A list of all of them in their order has each of them once.
LEMMA EachIsListedOnce ==
    ASSUME NEW n \in Nat, NEW ids \in SUBSET (1 .. n), NEW s \in [1 .. Cardinality(ids) -> ids],
           \A a, b \in 1 .. Cardinality(ids) : a < b => s[a] < s[b]
    PROVE  /\ \A a, b \in 1 .. Cardinality(ids) : s[a] = s[b] => a = b
           /\ \A i \in ids : \E a \in 1 .. Cardinality(ids) : s[a] = i
  <1>1. IsFiniteSet(ids) /\ Cardinality(ids) \in Nat
    BY IdsAreFinite
  <1>2. PICK k \in Nat : k = Cardinality(ids)
    BY <1>1
  <1>3. \A a, b \in 1 .. k : s[a] = s[b] => a = b
    <2> TAKE a, b \in 1 .. k
    <2>1. PICK x \in ids, y \in ids : x = s[a] /\ y = s[b]
      BY <1>2
    <2> x \in Nat /\ y \in Nat
      OBVIOUS
    <2>2. a < b => s[a] < s[b]
      BY <1>2
    <2>3. b < a => s[b] < s[a]
      BY <1>2
    <2> QED
      BY <2>1, <2>2, <2>3
  <1>4. s \in Injection(1 .. k, ids)
    BY <1>2, <1>3 DEF Injection, IsInjective
  <1>5. s \in Surjection(1 .. k, ids)
    <2>1. Cardinality(1 .. k) = Cardinality(ids) /\ IsFiniteSet(1 .. k)
      BY <1>2, FS_Interval
    <2> QED
      BY <1>1, <1>4, <2>1, FS_Injection
  <1> QED
    BY <1>2, <1>3, <1>5 DEF Surjection

=============================================================================
