--------------------------- MODULE OrderBookProofs ---------------------------
(* Facts about the order book for every set of orders and every price range. *)
EXTENDS OrderBook, MinimumLemmas, SequenceTheorems

\* A nonempty set of prices has a greatest element, dually to MinOfNaturals.
LEMMA MaxOfPrices ==
    ASSUME NEW S \in SUBSET Price, S # {}
    PROVE  \E x \in S : \A y \in S : y <= x
<1> DEFINE D == {n \in Nat : \E p \in S : n = MaxPrice - p}
<1>1. D \in SUBSET Nat /\ D # {}
    <2>1. PICK p \in S : TRUE
        OBVIOUS
    <2>2. MaxPrice - p \in Nat
        BY PriceAssumption DEF Price
    <2>3. MaxPrice - p \in D
        BY <2>2
    <2> QED  BY <2>3
<1>2. Min(D) \in D /\ \A n \in D : Min(D) <= n
    <2> HIDE DEF D
    <2> QED  BY <1>1, MinOfNaturals
<1>3. PICK m \in D : \A n \in D : m <= n
    <2> HIDE DEF D
    <2> QED  BY <1>2
<1>4. PICK x \in S : m = MaxPrice - x
    BY <1>3
<1>5. \A y \in S : m <= MaxPrice - y
    BY <1>3, PriceAssumption DEF Price
<1> QED  BY <1>4, <1>5, PriceAssumption DEF Price

\* An order rests on its own side and at its own price, which is where the
\* index looks for it.
WellPlaced(b) ==
    \A s \in Side, p \in Price : \A i \in DOMAIN b[s][p] :
        b[s][p][i].side = s /\ b[s][p][i].price = p

\* An incoming order with a counterparty has a best price.
LEMMA BestPriceMatchable ==
    ASSUME NEW b, NEW o \in Orders, MatchablePrices(b, o) # {}
    PROVE  /\ BestPrice(b, o) \in MatchablePrices(b, o)
           /\ \A q \in MatchablePrices(b, o) \ {BestPrice(b, o)} :
                BetterPrice(o, BestPrice(b, o), q)
<1> DEFINE P == MatchablePrices(b, o)
<1>1. P \in SUBSET Price /\ P # {}
    BY DEF MatchablePrices
<1> HIDE DEF P
<1>2. P \in SUBSET Nat
    BY <1>1, PriceAssumption DEF Price
<1>3. \E x \in P : \A y \in P \ {x} : BetterPrice(o, x, y)
    <2>1. CASE o.side = "BUY"
        <3>1. Min(P) \in P /\ \A y \in P : Min(P) <= y
            BY <1>1, <1>2, MinOfNaturals
        <3>2. \A x, y \in Nat : x <= y /\ x # y => BetterPrice(o, x, y)
            BY <2>1 DEF BetterPrice
        <3> QED  BY <3>1, <3>2, <1>2
    <2>2. CASE o.side # "BUY"
        <3>1. \E x \in P : \A y \in P : y <= x
            BY <1>1, MaxOfPrices
        <3>2. \A x, y \in Nat : y <= x /\ x # y => BetterPrice(o, x, y)
            BY <2>2 DEF BetterPrice
        <3> QED  BY <3>1, <3>2, <1>2
    <2> QED  BY <2>1, <2>2
<1>4. BestPrice(b, o) = CHOOSE p \in P : \A q \in P \ {p} : BetterPrice(o, p, q)
    BY DEF BestPrice, P
<1> QED  BY <1>3, <1>4, Zenon DEF P

\* The counterparty rests in the book opposite to the incoming order, at the
\* best price, and is not the same user's.
LEMMA BestMatchRests ==
    ASSUME NEW b \in Book, WellPlaced(b), NEW o \in Orders,
           MatchablePrices(b, o) # {}
    PROVE  /\ BestPrice(b, o) \in Price
           /\ WithinLimit(o, BestPrice(b, o))
           /\ BestMatch(b, o) \in Orders
           /\ BestMatch(b, o).side = Opposite(o.side)
           /\ BestMatch(b, o).price = BestPrice(b, o)
           /\ ~isSelfTrade(o, BestMatch(b, o))
           /\ InBook(b, BestMatch(b, o))
<1> DEFINE p == BestPrice(b, o)
           level == OppositeLevel(b, o, p)
           I == NonSelfIndexes(level, o)
           s == Opposite(o.side)
<1>1. p \in Price /\ WithinLimit(o, p) /\ I # {}
    BY BestPriceMatchable DEF MatchablePrices
<1>2. s \in Side
    BY DEF Opposite, Side
<1>3. level = b[s][p] /\ level \in Seq(Orders)
    BY <1>1, <1>2 DEF OppositeLevel, Book
<1> HIDE DEF p, level, s
<1>4. I \in SUBSET Nat /\ I \subseteq DOMAIN level
    BY <1>3, LenProperties DEF NonSelfIndexes
<1>5. Min(I) \in I
    <2> HIDE DEF I
    <2> QED  BY <1>1, <1>4, MinOfNaturals
<1>6. BestMatch(b, o) = level[Min(I)]
    BY DEF BestMatch, firstNonSelfOrderIndex, p, level
<1>7. ~isSelfTrade(o, level[Min(I)])
    BY <1>5 DEF NonSelfIndexes
<1>8. Min(I) \in DOMAIN level /\ level[Min(I)] \in Orders
    <2> HIDE DEF I
    <2> QED  BY <1>3, <1>4, <1>5, ElementOfSeq, LenProperties
<1>9. level[Min(I)].side = s /\ level[Min(I)].price = p
    <2> HIDE DEF I
    <2> QED  BY <1>1, <1>2, <1>3, <1>8 DEF WellPlaced
<1>10. InBook(b, level[Min(I)])
    <2> HIDE DEF I
    <2> QED  BY <1>3, <1>8, <1>9 DEF InBook, IndexesOf
<1> QED
    <2> HIDE DEF I
    <2> QED  BY <1>1, <1>6, <1>7, <1>8, <1>9, <1>10 DEF p, s

\* Dropping an element of a level leaves a level of the same orders.
LEMMA WithoutIndexType ==
    ASSUME NEW level \in Seq(Orders), NEW i \in 1 .. Len(level)
    PROVE  /\ WithoutIndex(level, i) \in Seq(Orders)
           /\ \A j \in DOMAIN WithoutIndex(level, i) :
                \E k \in DOMAIN level : WithoutIndex(level, i)[j] = level[k]
<1> DEFINE rest == WithoutIndex(level, i)
           n == Len(level)
<1>1. n \in Nat /\ n - 1 \in Nat /\ DOMAIN level = 1 .. n /\ level \in [1 .. n -> Orders]
    BY LenProperties
<1>2. rest = [j \in 1 .. n - 1 |-> level[IF j < i THEN j ELSE j + 1]]
    BY DEF WithoutIndex
<1> HIDE DEF n, rest
<1>3. \A j \in 1 .. n - 1 : (IF j < i THEN j ELSE j + 1) \in 1 .. n
    BY <1>1 DEF n
<1>4. rest \in [1 .. n - 1 -> Orders]
    BY <1>1, <1>2, <1>3
<1>5. rest \in Seq(Orders)
    BY <1>1, <1>4, SeqDef
<1>6. \A j \in 1 .. n - 1 : \E k \in 1 .. n : rest[j] = level[k]
    BY <1>2, <1>3
<1>7. DOMAIN rest = 1 .. n - 1
    BY <1>4
<1> QED  BY <1>1, <1>5, <1>6, <1>7 DEF rest

\* Removing a resting order leaves a book, with every order in its place.
LEMMA RemoveOrderType ==
    ASSUME NEW b \in Book, WellPlaced(b), NEW o \in Orders, InBook(b, o)
    PROVE  RemoveOrder(b, o) \in Book /\ WellPlaced(RemoveOrder(b, o))
<1> DEFINE level == b[o.side][o.price]
           i == Min(IndexesOf(b, o))
           rest == WithoutIndex(level, i)
<1>1. o.side \in Side /\ o.price \in Price
    BY OrdersAssumption DEF OrderRecord
<1>2. level \in Seq(Orders)
    BY <1>1 DEF Book
<1>3. i \in 1 .. Len(level)
    <2>1. IndexesOf(b, o) \in SUBSET Nat /\ IndexesOf(b, o) \subseteq 1 .. Len(level)
        BY <1>2, LenProperties DEF IndexesOf
    <2> QED  BY <2>1, MinOfNaturals DEF InBook
<1>4. /\ rest \in Seq(Orders)
      /\ \A j \in DOMAIN rest : \E k \in DOMAIN level : rest[j] = level[k]
    BY <1>2, <1>3, WithoutIndexType
<1>5. RemoveOrder(b, o) = [b EXCEPT ![o.side] = [b[o.side] EXCEPT ![o.price] = rest]]
    BY <1>1 DEF RemoveOrder, Book
<1>6. \A j \in DOMAIN level : level[j].side = o.side /\ level[j].price = o.price
    BY <1>1 DEF WellPlaced
<1>7. \A j \in DOMAIN rest : rest[j].side = o.side /\ rest[j].price = o.price
    BY <1>4, <1>6
<1> HIDE DEF rest
<1> QED  BY <1>1, <1>4, <1>5, <1>7 DEF Book, WellPlaced

\* The order appended to its level is in its place.
LEMMA AddOrderType ==
    ASSUME NEW b \in Book, WellPlaced(b), NEW o \in Orders
    PROVE  AddOrder(b, o) \in Book /\ WellPlaced(AddOrder(b, o))
<1> DEFINE level == b[o.side][o.price]
           longer == Append(level, o)
<1>1. o.side \in Side /\ o.price \in Price
    BY OrdersAssumption DEF OrderRecord
<1>2. level \in Seq(Orders)
    BY <1>1 DEF Book
<1>3. /\ longer \in Seq(Orders) /\ Len(longer) = Len(level) + 1
      /\ \A j \in 1 .. Len(level) : longer[j] = level[j]
      /\ longer[Len(level) + 1] = o
    BY <1>2, AppendProperties
<1>4. /\ DOMAIN level = 1 .. Len(level) /\ Len(level) \in Nat
      /\ DOMAIN longer = 1 .. Len(longer)
    <2> HIDE DEF longer
    <2> QED  BY <1>2, <1>3, LenProperties
<1>5. AddOrder(b, o) = [b EXCEPT ![o.side] = [b[o.side] EXCEPT ![o.price] = longer]]
    BY <1>1 DEF AddOrder, Book
<1>6. \A j \in DOMAIN level : level[j].side = o.side /\ level[j].price = o.price
    BY <1>1 DEF WellPlaced
<1> HIDE DEF longer, level
<1>7. \A j \in DOMAIN longer : longer[j].side = o.side /\ longer[j].price = o.price
    BY <1>3, <1>4, <1>6
<1> QED  BY <1>1, <1>3, <1>5, <1>7 DEF Book, WellPlaced
==============================================================================
