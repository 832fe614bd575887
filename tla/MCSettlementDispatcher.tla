----------------------- MODULE MCSettlementDispatcher -----------------------
(* Small instances of SettlementDispatcher.                                *)
EXTENDS SettlementDispatcher

Trade(buy, sell) == [kind |-> "TRADE", orders |-> {buy, sell}]
Cancel(order) == [kind |-> "CANCEL", orders |-> {order}]
Done(order) == [kind |-> "DONE", orders |-> {order}]

\* A market order (1) sweeps two resting orders and is done; one of the two
\* trades again and is then cancelled.
SweepEvents == <<Trade(1, 2), Trade(1, 3), Trade(4, 3), Done(1), Cancel(3)>>

\* Two resting orders trade with different takers and are both cancelled.
CancelEvents == <<Trade(1, 2), Trade(3, 4), Cancel(1), Cancel(3)>>
=============================================================================
