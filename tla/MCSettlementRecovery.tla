------------------------ MODULE MCSettlementRecovery ------------------------
(* Small instances of SettlementRecovery.                                  *)
EXTENDS SettlementRecovery

Order(id, side, type, amount) == [id |-> id, side |-> side, type |-> type, amount |-> amount]

MarketBuy == Order(1, "BUY", "MARKET", 2)
RestingSell == Order(2, "SELL", "LIMIT", 2)
RestingBuy == Order(3, "BUY", "LIMIT", 1)

\* A market buy of two lots, a resting sell of two and a resting buy of one.
MixedOrders == {MarketBuy, RestingSell, RestingBuy}

\* The market buy against the resting sell: two trades and a completion.
SweepOrders == {MarketBuy, RestingSell}

\* The resting orders: two cancellations, whose records are in one table.
LimitOrders == {RestingBuy, RestingSell}

Plan(n, faults, open) == [crashes |-> n, faults |-> faults, open |-> open]

\* One crash with every fault, or two crashes, also during the boot, with the
\* faults that leave no failure record behind.
AllPlans == {Plan(1, Fault, SweepOrders), Plan(2, {"mark"}, SweepOrders),
             Plan(1, {"settle", "terminal", "flush"}, LimitOrders)}
SweepPlan == {Plan(1, {"settle"}, SweepOrders)}
LimitPlan == {Plan(1, {"settle"}, LimitOrders)}
=============================================================================
