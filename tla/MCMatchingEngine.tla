--------------------------- MODULE MCMatchingEngine ---------------------------
(* Small instances of MatchingEngine. *)
EXTENDS MatchingEngine

LimitOrder(id, user, side, price, amount) ==
    [id |-> id, user |-> user, side |-> side, type |-> "LIMIT",
     price |-> price, amount |-> amount, quote |-> 0]
MarketBuy(id, user, quote) ==
    [id |-> id, user |-> user, side |-> "BUY", type |-> "MARKET",
     price |-> 1, amount |-> 0, quote |-> quote]
MarketSell(id, user, amount) ==
    [id |-> id, user |-> user, side |-> "SELL", type |-> "MARKET",
     price |-> 1, amount |-> amount, quote |-> 0]
Cancel(id, o) == [id |-> id, order |-> o]

NoCommands == {}

\* Two sells for a buy that sweeps both in two slices. The second sell, which
\* rests between the slices, is cancelled by two calls.
SellLow == LimitOrder(1, 1, "SELL", 1, 1)
SellHigh == LimitOrder(2, 2, "SELL", 2, 1)
SweepingBuy == LimitOrder(3, 3, "BUY", 2, 3)
CancelOrders == {SellLow, SellHigh, SweepingBuy}
RepeatedCancels == {Cancel(1, SellHigh), Cancel(2, SellHigh)}

\* Two sells at one price, a buy of the first seller at it and one below, and
\* both kinds of market order: FIFO, self-trades, the truncated quotient, and
\* the MarketOrderDone of a full slice.
MatchingOrders ==
    { LimitOrder(1, 1, "SELL", 2, 1),
      LimitOrder(2, 2, "SELL", 2, 2),
      LimitOrder(3, 1, "BUY", 2, 2),
      LimitOrder(4, 3, "BUY", 1, 1),
      MarketBuy(5, 5, 5),
      MarketSell(6, 4, 2) }

\* A market buy that takes two slices to sweep two sells.
TwoSliceBuy == MarketBuy(3, 3, 3)
MarketOrders == {SellLow, SellHigh, TwoSliceBuy}
CancelCommands == {Cancel(1, SellLow), Cancel(2, SellHigh)}

\* The same and an order that finds the channel backpressured after them.
LateSell == LimitOrder(4, 4, "SELL", 2, 1)
LivenessOrders == MarketOrders \cup {LateSell}
===============================================================================
