------------------------------ MODULE OrderBook ------------------------------
(***************************************************************************)
(* The limit order book of one symbol and the choice of a counterparty:    *)
(* src/internal/matching/orderbook.go and the best* helpers of engine.go.  *)
(*                                                                         *)
(* A book maps a side and a price to the FIFO of the orders resting there. *)
(* The empty sequence stands for a price level that is not in the B-tree:  *)
(* the code deletes a level as soon as its deque is empty.                 *)
(*                                                                         *)
(* An order is the record its owner submitted; the quantities that change  *)
(* while it is matched are kept apart, in the variable ord of the engine.  *)
(* Quantities are whole multiples of the smallest unit the decimals carry. *)
(***************************************************************************)
EXTENDS Integers, Sequences, FiniteSetsExt

CONSTANTS
    Orders,    \* the orders that may be submitted
    MaxPrice   \* the highest price

\* Prices are whole multiples of the tick.
Price == 1 .. MaxPrice

Side == {"BUY", "SELL"}
OrderType == {"LIMIT", "MARKET"}

\* A market buy carries a quote budget, every other order a base amount.
\* User 0 is an order without an owner. A market order carries a price that
\* nothing looks at.
OrderRecord == [id: Nat, user: Nat, side: Side, type: OrderType,
                price: Price, amount: Nat, quote: Nat]

ASSUME PriceAssumption == MaxPrice \in Nat
ASSUME OrdersAssumption == Orders \subseteq OrderRecord

Opposite(side) == IF side = "BUY" THEN "SELL" ELSE "BUY"
IsMarketBuy(o) == o.type = "MARKET" /\ o.side = "BUY"

Book == [Side -> [Price -> Seq(Orders)]]

NewOrderBook == [s \in Side |-> [p \in Price |-> << >>]]

-----------------------------------------------------------------------------
(* Adding and removing a resting order.                                    *)

\* Mutant: the order goes to the front of its level.
AddOrderInFront(b, o) == [b EXCEPT ![o.side][o.price] = << o >> \o @]

AddOrder(b, o) == [b EXCEPT ![o.side][o.price] = Append(@, o)]

\* The level without its i-th order.
WithoutIndex(level, i) ==
    [j \in 1 .. Len(level) - 1 |-> level[IF j < i THEN j ELSE j + 1]]

IndexesOf(b, o) ==
    {i \in DOMAIN b[o.side][o.price] : b[o.side][o.price][i] = o}

InBook(b, o) == IndexesOf(b, o) # {}

\* Mutant: the order's index entry goes, the order itself stays in its level.
RemoveNothing(b, o) == b

\* Removes the oldest occurrence; only used when there is one.
RemoveOrder(b, o) ==
    [b EXCEPT ![o.side][o.price] = WithoutIndex(@, Min(IndexesOf(b, o)))]

-----------------------------------------------------------------------------
(* The counterparty of an incoming order.                                  *)

isSelfTrade(incoming, resting) ==
    incoming.user # 0 /\ resting.user # 0 /\ incoming.user = resting.user

NonSelfIndexes(level, incoming) ==
    {i \in DOMAIN level : ~isSelfTrade(incoming, level[i])}

firstNonSelfOrderIndex(level, incoming) == Min(NonSelfIndexes(level, incoming))

\* Mutant: a limit sell takes any bid.
WithinBuyLimit(incoming, p) ==
    \/ incoming.type = "MARKET" \/ incoming.side = "SELL"
    \/ p <= incoming.price

\* Mutant: a limit buy does not take a level exactly at its limit.
StrictlyWithinLimit(incoming, p) ==
    \/ incoming.type = "MARKET"
    \/ incoming.side = "BUY" /\ p < incoming.price
    \/ incoming.side = "SELL" /\ p >= incoming.price

\* The incoming order may trade at price p.
WithinLimit(incoming, p) ==
    \/ incoming.type = "MARKET"
    \/ incoming.side = "BUY" /\ p <= incoming.price
    \/ incoming.side = "SELL" /\ p >= incoming.price

\* p is a strictly better price than q for the incoming order.
BetterPrice(incoming, p, q) == IF incoming.side = "BUY" THEN p < q ELSE p > q

OppositeLevel(b, incoming, p) == b[Opposite(incoming.side)][p]

\* The prices at which the incoming order finds a counterparty.
MatchablePrices(b, incoming) ==
    {p \in Price : /\ WithinLimit(incoming, p)
                   /\ NonSelfIndexes(OppositeLevel(b, incoming, p), incoming) # {}}

BestPrice(b, incoming) ==
    CHOOSE p \in MatchablePrices(b, incoming) :
        \A q \in MatchablePrices(b, incoming) \ {p} : BetterPrice(incoming, p, q)

\* The order the incoming one trades with next: at the best price, the oldest
\* that is not its own user's.
BestMatch(b, incoming) ==
    LET level == OppositeLevel(b, incoming, BestPrice(b, incoming))
    IN  level[firstNonSelfOrderIndex(level, incoming)]
=============================================================================
