--------------------------- MODULE MatchingEngine ---------------------------
(***************************************************************************)
(* The matching engine of one shard: src/internal/matching/engine.go.      *)
(*                                                                         *)
(* One goroutine (the engine loop, runTurn) owns the order book. It takes  *)
(* orders from OrderCh and cancels from CancelCh and writes Trade,         *)
(* MarketOrderDone and OrderCancelled events to the bounded ExecutionCh,   *)
(* from which the shard's forwarder (ShardedEngine.Start) takes them. The  *)
(* loop works in turns: cancel phase, ticker phase, one slice of the       *)
(* active sweep, stop latch, admission, and then either park, drain, block *)
(* in the idle select, or start over. The variable pc says which of these  *)
(* is next; each action is the loop's next step up to the next point at    *)
(* which another goroutine can be observed.                                *)
(*                                                                         *)
(* The model is of one symbol. TradeCh and SnapshotCh are lossy            *)
(* notification channels nothing depends on, and are left out.             *)
(***************************************************************************)
EXTENDS OrderBook

CONSTANTS
    Commands,                 \* the calls of CancelOrder
    None,                     \* a nil pointer
    OrderCap,                 \* cap(OrderCh)
    CancelCap,                \* cap(CancelCh)
    ExecutionCap,             \* cap(ExecutionCh)
    MaxMatchesPerTurn,        \* trades of one slice
    MaxConsecutiveCancels,    \* cancels between two progress points
    Ticking                   \* whether the snapshot ticker ever fires

\* What Start refuses to run without.
validateExecutionCapacity ==
    /\ ExecutionCap >= 2
    /\ MaxConsecutiveCancels <= ExecutionCap - 2
    /\ MaxMatchesPerTurn <= ExecutionCap - 1 - MaxConsecutiveCancels

ASSUME QuantumAssumption ==
    /\ MaxMatchesPerTurn \in Nat \ {0}
    /\ MaxConsecutiveCancels \in Nat \ {0}
    /\ ExecutionCap \in Nat
    /\ validateExecutionCapacity
ASSUME ChannelAssumption == OrderCap \in Nat \ {0} /\ CancelCap \in Nat \ {0}
ASSUME CommandsAssumption == Commands \subseteq [id: Nat, order: Orders]
ASSUME TickingAssumption == Ticking \in BOOLEAN
ASSUME NoneAssumption == None \notin Orders \cup Commands

VARIABLES
    orderCh, cancelCh, executionCh,     \* buffered channels
    capacityCh, tickerC, stopCh,        \* signal pending, tick pending, closed
    book,                               \* the order book
    ord,                                \* quantities of each order
    tradeSeq,                           \* number of engine event ids issued
    activeSweep, pendingOrder, pendingCancel, tickerDue,
    shuttingDown, cancelsSinceProgress, \* scheduler fields
    reservationRemaining,               \* emissions left in the reservation
    panicked,                           \* sendExecution panicked
    dirty, snapshot,                    \* snapshot due, snapshot cache
    pc,                                 \* next step of the engine loop
    hadActive, rejectBudget,            \* locals of runTurn and cancelPhase
    trades,                             \* local of the slice being run
    answer,                             \* the answer processCancel is about to give
    takesOrders,                        \* OrderCh is in the idle select
    call, response,                     \* CancelOrder calls
    fwd,                                \* the event the forwarder has in hand
    rejected,                           \* orders whose TrySubmitOrder timed out
    accepted, admitted,                 \* history: OrderCh sends, admissions
    forwarded,                          \* history: events handed downstream
    progress                            \* history: progress points of the turn

channels == << orderCh, cancelCh, executionCh, capacityCh, tickerC >>
bookVars == << book, ord, tradeSeq >>
emitVars == << reservationRemaining, panicked >>
snapVars == << dirty, snapshot >>
turnVars == << hadActive, rejectBudget, trades, takesOrders, progress >>
latched == << pendingOrder, tickerDue >>
\* Written by the engine loop only.
engineVars == << bookVars, emitVars, snapVars, pc, turnVars, latched, pendingCancel,
                 activeSweep, shuttingDown, cancelsSinceProgress, answer, response,
                 admitted >>
\* Never written by the engine loop.
clientVars == << stopCh, call, rejected, accepted, fwd, forwarded >>
vars == << channels, engineVars, clientVars >>

-----------------------------------------------------------------------------
(* Events, capacity and the reservation.                                   *)

TradeEvent(price, qty, buy, sell) ==
    [kind |-> "trade", seq |-> tradeSeq + 1, price |-> price, qty |-> qty,
     buy |-> buy, sell |-> sell]
DoneEvent(o) == [kind |-> "done", order |-> o, quantities |-> ord[o]]
CancelledEvent(c) ==
    [kind |-> "cancelled", seq |-> tradeSeq + 1, order |-> c.order, command |-> c]

free == ExecutionCap - Len(executionCh)

\* Mutant: the slice wants more room than an empty channel of least size has.
hasSliceCapacityStrict == free - 1 - MaxConsecutiveCancels > MaxMatchesPerTurn

hasSliceCapacity == free - 1 - MaxConsecutiveCancels >= MaxMatchesPerTurn

sliceBlockedNow == activeSweep # None /\ ~hasSliceCapacity

\* int(0.75 * cap)
emitBackpressured == Len(executionCh) >= (3 * ExecutionCap) \div 4

\* A send inside a reservation of which remaining emissions are left. It does
\* not block: without a budget, or without a free slot, the engine panics.
sendExecution(event, remaining) ==
    LET ready == remaining > 0 /\ free > 0
    IN  /\ executionCh' = IF ready THEN Append(executionCh, event) ELSE executionCh
        /\ panicked' = ~ready

-----------------------------------------------------------------------------
(* The snapshot cache.                                                     *)

LevelQuantity(level) ==
    MapThenSumSet(LAMBDA i : ord[level[i]].Amount, DOMAIN level)

\* Total quantity per price level. Every level fits in the snapshot's depth.
BookSnapshot ==
    [s \in Side |-> [p \in Price |-> LevelQuantity(book[s][p])]]

flushSnapshots ==
    /\ snapshot' = IF dirty THEN BookSnapshot ELSE snapshot
    /\ dirty' = FALSE

-----------------------------------------------------------------------------
Init ==
    /\ orderCh = << >> /\ cancelCh = << >> /\ executionCh = << >>
    /\ capacityCh = FALSE /\ tickerC = FALSE /\ stopCh = FALSE
    /\ book = NewOrderBook
    /\ ord = [o \in Orders |-> [Amount |-> o.amount, QuoteAmount |-> o.quote,
                                FilledAmount |-> 0, FilledQuoteAmount |-> 0]]
    /\ tradeSeq = 0
    /\ activeSweep = None /\ pendingOrder = None /\ pendingCancel = None
    /\ tickerDue = FALSE /\ shuttingDown = FALSE /\ cancelsSinceProgress = 0
    /\ reservationRemaining = 0 /\ panicked = FALSE
    /\ dirty = FALSE
    /\ snapshot = [s \in Side |-> [p \in Price |-> 0]]
    /\ pc = "start" /\ hadActive = FALSE /\ rejectBudget = 0
    /\ trades = 0 /\ takesOrders = FALSE /\ answer = None
    /\ call = [c \in Commands |-> "idle"]
    /\ response = [c \in Commands |-> "none"]
    /\ fwd = None
    /\ rejected = {} /\ accepted = << >> /\ admitted = << >>
    /\ forwarded = << >> /\ progress = 0

-----------------------------------------------------------------------------
(* Goroutines that submit orders and call CancelOrder. Stop is called only *)
(* after they are gone (cmd/main.go shuts HTTP, the hold coordinator and   *)
(* the cancel worker down first).                                          *)

Unsubmitted(o) == o \notin rejected /\ \A i \in DOMAIN accepted : accepted[i] # o

SubmitOrder(o) ==
    /\ ~stopCh /\ Unsubmitted(o) /\ Len(orderCh) < OrderCap
    /\ orderCh' = Append(orderCh, o)
    /\ accepted' = Append(accepted, o)
    /\ UNCHANGED << engineVars, cancelCh, executionCh, capacityCh, tickerC, stopCh,
                    call, rejected, fwd, forwarded >>

\* TrySubmitOrder gives up while OrderCh stays full.
TrySubmitOrderTimeout(o) ==
    /\ ~stopCh /\ Unsubmitted(o) /\ Len(orderCh) = OrderCap
    /\ rejected' = rejected \cup {o}
    /\ UNCHANGED << engineVars, channels, stopCh, call, accepted, fwd, forwarded >>

\* CancelOrder sends the command on CancelCh and waits for the answer in a
\* response channel of its own.
CancelOrderSend(c) ==
    /\ ~stopCh /\ call[c] = "idle" /\ Len(cancelCh) < CancelCap
    /\ cancelCh' = Append(cancelCh, c)
    /\ call' = [call EXCEPT ![c] = "waiting"]
    /\ UNCHANGED << engineVars, orderCh, executionCh, capacityCh, tickerC, stopCh,
                    rejected, accepted, fwd, forwarded >>

CancelOrderSendTimeout(c) ==
    /\ ~stopCh /\ call[c] = "idle" /\ Len(cancelCh) = CancelCap
    /\ call' = [call EXCEPT ![c] = "TimedOut"]
    /\ UNCHANGED << engineVars, channels, stopCh, rejected, accepted, fwd, forwarded >>

CancelOrderReturn(c) ==
    /\ call[c] = "waiting" /\ response[c] # "none"
    /\ call' = [call EXCEPT ![c] = response[c]]
    /\ UNCHANGED << engineVars, channels, stopCh, rejected, accepted, fwd, forwarded >>

\* The second after which CancelOrder stops waiting may end at any moment.
CancelOrderWaitTimeout(c) ==
    /\ call[c] = "waiting"
    /\ call' = [call EXCEPT ![c] = "TimedOut"]
    /\ UNCHANGED << engineVars, channels, stopCh, rejected, accepted, fwd, forwarded >>

Stop ==
    /\ ~stopCh /\ \A c \in Commands : call[c] # "waiting"
    /\ stopCh' = TRUE
    /\ UNCHANGED << engineVars, channels, call, rejected, accepted, fwd, forwarded >>

\* The ticker's channel holds one tick; further ticks are dropped.
Tick ==
    /\ Ticking /\ ~tickerC /\ pc # "exited"
    /\ tickerC' = TRUE
    /\ UNCHANGED << engineVars, orderCh, cancelCh, executionCh, capacityCh, clientVars >>

-----------------------------------------------------------------------------
(* The forwarder of the shard receives an event, signals capacity and      *)
(* sends the event to the merged channel. When that channel is full it     *)
(* blocks; here it then just does not receive the next event.              *)

ForwarderReceive ==
    /\ fwd = None /\ executionCh # << >>
    /\ executionCh' = Tail(executionCh)
    /\ fwd' = Head(executionCh)
    /\ UNCHANGED << engineVars, orderCh, cancelCh, capacityCh, tickerC, stopCh, call,
                    rejected, accepted, forwarded >>

ForwarderSignal ==
    /\ fwd # None
    /\ capacityCh' = TRUE
    /\ forwarded' = Append(forwarded, fwd)
    /\ fwd' = None
    /\ UNCHANGED << engineVars, orderCh, cancelCh, executionCh, tickerC, stopCh, call,
                    rejected, accepted >>

-----------------------------------------------------------------------------
(* The engine loop, phase by phase.                                        *)

\* The loop is about to do p; a panic has ended it for good.
At(p) == pc = p /\ ~panicked

\* 0. What the turn remembers of its start.
TurnStart ==
    /\ At("start")
    /\ hadActive' = (activeSweep # None)
    /\ rejectBudget' = Len(cancelCh) + (IF pendingCancel # None THEN 1 ELSE 0)
    /\ progress' = 0
    /\ pc' = "cancel"
    /\ UNCHANGED << clientVars, channels, bookVars, emitVars, snapVars, latched, trades,
                    takesOrders, pendingCancel, activeSweep, shuttingDown,
                    cancelsSinceProgress, answer, response, admitted >>

\* 1. The cancel phase, one iteration at a time. Whether the next command is
\* processed, rejected or left in the channel is decided before taking it.

\* Mutant: one cancel more than the quota.
quotaLeftInclusive == cancelsSinceProgress <= MaxConsecutiveCancels

quotaLeft == cancelsSinceProgress < MaxConsecutiveCancels
ProcessesCancels == quotaLeft /\ free >= 1
RejectsCancels == ~ProcessesCancels /\ (free = 0 \/ (sliceBlockedNow /\ ~quotaLeft))

CancelAvailable == pendingCancel # None \/ cancelCh # << >>
NextCancel == IF pendingCancel # None THEN pendingCancel ELSE Head(cancelCh)

takeCancel ==
    /\ CancelAvailable
    /\ pendingCancel' = None
    /\ cancelCh' = IF pendingCancel # None THEN cancelCh ELSE Tail(cancelCh)

\* Mutant: the answer ignores whether the order was in the book.
CancelResultAlwaysRemoved(removed) == "Removed"

CancelResult(removed) == IF removed THEN "Removed" ELSE "NotFound"

\* Remove from the book and emit; the answer follows.
processCancel ==
    LET c == NextCancel
        removed == InBook(book, c.order)
    IN  /\ At("cancel") /\ ProcessesCancels /\ takeCancel
        /\ cancelsSinceProgress' = cancelsSinceProgress + 1
        /\ \/ /\ removed
              /\ book' = RemoveOrder(book, c.order)
              /\ dirty' = TRUE
              /\ sendExecution(CancelledEvent(c), 1)
              /\ tradeSeq' = tradeSeq + 1
           \/ /\ ~removed
              /\ UNCHANGED << book, dirty, executionCh, panicked, tradeSeq >>
        /\ answer' = [command |-> c, result |-> CancelResult(removed)]
        /\ pc' = "answer"
        /\ UNCHANGED << clientVars, turnVars, latched, orderCh, capacityCh, tickerC, ord,
                        reservationRemaining, snapshot, activeSweep, shuttingDown,
                        response, admitted >>

answerCancel ==
    /\ At("answer")
    /\ response' = [response EXCEPT ![answer.command] = answer.result]
    /\ answer' = None
    /\ pc' = "cancel"
    /\ UNCHANGED << clientVars, channels, bookVars, emitVars, snapVars, turnVars, latched,
                    pendingCancel, activeSweep, shuttingDown, cancelsSinceProgress,
                    admitted >>

rejectCancel ==
    /\ At("cancel") /\ RejectsCancels /\ rejectBudget > 0 /\ takeCancel
    /\ response' = [response EXCEPT ![NextCancel] = "Backpressured"]
    /\ rejectBudget' = rejectBudget - 1
    /\ UNCHANGED << clientVars, bookVars, emitVars, snapVars, latched, orderCh, executionCh,
                    capacityCh, tickerC, pc, hadActive, trades, takesOrders, progress,
                    activeSweep, shuttingDown, cancelsSinceProgress, answer, admitted >>

CancelPhaseOver ==
    \/ ~ProcessesCancels /\ ~RejectsCancels
    \/ RejectsCancels /\ rejectBudget = 0
    \/ ~CancelAvailable

\* 2. A latched tick is used first; only without one is the ticker polled.
TickerPhase ==
    /\ At("cancel") /\ CancelPhaseOver
    /\ rejectBudget' = 0
    /\ tickerDue' = FALSE
    /\ tickerC' = (tickerDue /\ tickerC)
    /\ IF tickerDue \/ tickerC THEN flushSnapshots ELSE UNCHANGED snapVars
    /\ pc' = "slice"
    /\ UNCHANGED << clientVars, bookVars, emitVars, orderCh, cancelCh, executionCh,
                    capacityCh, hadActive, trades, takesOrders, progress, activeSweep,
                    pendingOrder, pendingCancel, shuttingDown, cancelsSinceProgress,
                    answer, response, admitted >>

\* Mutant: no room is reserved for the MarketOrderDone of the last slice.
sliceBudgetTradesOnly == MaxMatchesPerTurn

\* What a slice may emit: its trades and one MarketOrderDone.
sliceBudget == MaxMatchesPerTurn + 1

\* 3. One slice of the active sweep, if ExecutionCh has room for all of it.
SliceBegin ==
    /\ At("slice") /\ activeSweep # None /\ hasSliceCapacity
    /\ reservationRemaining' = sliceBudget
    /\ trades' = 0
    /\ pc' = "match"
    /\ UNCHANGED << clientVars, channels, bookVars, snapVars, latched, panicked, hadActive,
                    rejectBudget, takesOrders, progress, activeSweep, pendingCancel,
                    shuttingDown, cancelsSinceProgress, answer, response, admitted >>

SliceSkip ==
    /\ At("slice") /\ (activeSweep = None \/ ~hasSliceCapacity)
    /\ pc' = "admit"
    /\ UNCHANGED << clientVars, channels, bookVars, emitVars, snapVars, turnVars, latched,
                    pendingCancel, activeSweep, shuttingDown, cancelsSinceProgress,
                    answer, response, admitted >>

\* The condition of the four match loops.
Unfilled(o) == IF IsMarketBuy(o) THEN ord[o].QuoteAmount > 0 ELSE ord[o].Amount > 0

\* What the incoming order would trade with the resting one at price p. The
\* quotient of a market buy is truncated.
TradeQty(o, resting, p) ==
    LET wanted == IF IsMarketBuy(o) THEN ord[o].QuoteAmount \div p ELSE ord[o].Amount
    IN  IF wanted <= ord[resting].Amount THEN wanted ELSE ord[resting].Amount

\* A counterparty exists and the quantity is not truncated to zero.
CanTrade(o) ==
    /\ MatchablePrices(book, o) # {}
    /\ TradeQty(o, BestMatch(book, o), BestPrice(book, o)) > 0

\* The quantities of the incoming order after a trade of qty at price p.
FilledIncoming(o, qty, p) ==
    LET base == IF IsMarketBuy(o) THEN 0 ELSE qty
        quote == IF IsMarketBuy(o) THEN p * qty ELSE 0
        filledQuote == IF o.type = "MARKET" THEN p * qty ELSE 0
    IN  [Amount |-> ord[o].Amount - base,
         QuoteAmount |-> ord[o].QuoteAmount - quote,
         FilledAmount |-> ord[o].FilledAmount + qty,
         FilledQuoteAmount |-> ord[o].FilledQuoteAmount + filledQuote]

\* Mutant: the fill of the resting order is not recorded.
FilledRestingUncounted(r, qty) == [ord[r] EXCEPT !.Amount = @ - qty]

FilledResting(r, qty) ==
    [Amount |-> ord[r].Amount - qty,
     QuoteAmount |-> ord[r].QuoteAmount,
     FilledAmount |-> ord[r].FilledAmount + qty,
     FilledQuoteAmount |-> ord[r].FilledQuoteAmount]

MatchTrade ==
    LET o == activeSweep
        p == BestPrice(book, o)
        r == BestMatch(book, o)
        qty == TradeQty(o, r, p)
    IN  /\ At("match") /\ Unfilled(o) /\ trades < MaxMatchesPerTurn /\ CanTrade(o)
        /\ ord' = [ord EXCEPT ![o] = FilledIncoming(o, qty, p),
                              ![r] = FilledResting(r, qty)]
        /\ book' = IF ord[r].Amount = qty THEN RemoveOrder(book, r) ELSE book
        /\ sendExecution(IF o.side = "BUY" THEN TradeEvent(p, qty, o, r)
                                           ELSE TradeEvent(p, qty, r, o),
                         reservationRemaining)
        /\ reservationRemaining' = reservationRemaining - 1
        /\ tradeSeq' = tradeSeq + 1
        /\ trades' = trades + 1
        /\ UNCHANGED << clientVars, snapVars, latched, orderCh, cancelCh, capacityCh,
                        tickerC, pc, hadActive, rejectBudget, takesOrders, progress,
                        activeSweep, pendingCancel, shuttingDown, cancelsSinceProgress,
                        answer, response, admitted >>

\* Progress point P-a: a slice has run.
SliceProgress ==
    /\ reservationRemaining' = 0
    /\ trades' = 0
    /\ cancelsSinceProgress' = 0
    /\ progress' = progress + 1
    /\ pc' = "admit"

SliceYield ==
    /\ At("match") /\ Unfilled(activeSweep) /\ trades >= MaxMatchesPerTurn
    /\ SliceProgress
    /\ dirty' = TRUE
    /\ UNCHANGED << clientVars, channels, bookVars, latched, panicked, snapshot, hadActive,
                    rejectBudget, takesOrders, activeSweep, pendingCancel, shuttingDown,
                    answer, response, admitted >>

\* Mutant: a limit order that traded at all does not rest.
RestsOnlyUntouched(o) == o.type = "LIMIT" /\ ord[o].Amount = o.amount

Rests(o) == o.type = "LIMIT" /\ ord[o].Amount > 0

\* Mutant: only a change of the resting side is marked.
DirtyAfterResting(rests) == dirty \/ rests

DirtyAfterSlice(rests) == dirty \/ trades >= 1 \/ rests

\* The last slice: a market order is reported done, what is left of a limit
\* order rests in the book (finishOrder), and the slot is freed.
SliceFinish ==
    LET o == activeSweep
    IN  /\ At("match")
        /\ Unfilled(o) => trades < MaxMatchesPerTurn /\ ~CanTrade(o)
        /\ IF o.type = "MARKET"
             THEN sendExecution(DoneEvent(o), reservationRemaining)
             ELSE UNCHANGED << executionCh, panicked >>
        /\ book' = IF Rests(o) THEN AddOrder(book, o) ELSE book
        /\ dirty' = DirtyAfterSlice(Rests(o))
        /\ activeSweep' = None
        /\ SliceProgress
        /\ UNCHANGED << clientVars, latched, orderCh, cancelCh, capacityCh, tickerC, ord,
                        tradeSeq, snapshot, hadActive, rejectBudget, takesOrders,
                        pendingCancel, shuttingDown, answer, response, admitted >>

orderIsAdmissible(o) == IsMarketBuy(o) \/ ord[o].Amount > 0

admitOrder(o) ==
    /\ activeSweep' = IF orderIsAdmissible(o) THEN o ELSE activeSweep
    /\ admitted' = Append(admitted, o)

\* Mutant: deliberate intake suppression (P-d) is not a progress point.
AfterAdmissionUnlessSuppressed ==
    IF pendingOrder = None /\ emitBackpressured THEN cancelsSinceProgress ELSE 0

\* The cancel counter after the admission phase.
AfterAdmission == 0

\* Mutant: OrderCh is looked at before the latch.
AdmitsLatchedUnlessQueued == pendingOrder # None /\ orderCh = << >>

AdmitsLatched == pendingOrder # None

\* Every way through admission is a progress point (P-b, P-c, P-d).
admitPhase ==
    /\ \/ /\ AdmitsLatched
          /\ admitOrder(pendingOrder)
          /\ pendingOrder' = None
          /\ UNCHANGED orderCh
       \/ /\ ~AdmitsLatched /\ orderCh # << >>
          /\ shuttingDown' \/ ~emitBackpressured
          /\ admitOrder(Head(orderCh))
          /\ orderCh' = Tail(orderCh)
          /\ UNCHANGED pendingOrder
       \/ /\ ~AdmitsLatched
          /\ orderCh = << >> \/ (~shuttingDown' /\ emitBackpressured)
          /\ UNCHANGED << activeSweep, admitted, pendingOrder, orderCh >>
    /\ cancelsSinceProgress' = AfterAdmission
    /\ progress' = progress + 1

\* Mutant: the turn looks at the sweep it has left, not at the one it had.
AdmitsThisTurnReread == activeSweep = None

AdmitsThisTurn == ~hadActive

\* 4. and 5. Look at stopCh without blocking, then admit an order unless the
\* turn began with an active sweep.
StopLatchAndAdmit ==
    /\ At("admit")
    /\ shuttingDown' = (shuttingDown \/ stopCh)
    /\ \/ AdmitsThisTurn /\ admitPhase
       \/ /\ ~AdmitsThisTurn
          /\ UNCHANGED << activeSweep, admitted, pendingOrder, orderCh,
                          cancelsSinceProgress, progress >>
    /\ hadActive' = FALSE
    /\ pc' = "park"
    /\ UNCHANGED << clientVars, bookVars, emitVars, snapVars, cancelCh, executionCh,
                    capacityCh, tickerC, rejectBudget, trades, takesOrders,
                    pendingCancel, tickerDue, answer, response >>

ParksNow == sliceBlockedNow /\ pendingCancel = None

\* Work is at hand, and the next turn begins at once.
more == \/ activeSweep # None \/ tickerDue
        \/ pendingCancel # None \/ pendingOrder # None

\* Mutant: the loop blocks in the idle select during shutdown.
AfterTurnIdle == IF ParksNow THEN "parked" ELSE IF more THEN "start" ELSE "idle"

\* 6. to 8. Where the turn ends: parked, in a further turn, in the shutdown
\* drain, or in the idle select.
AfterTurn == CASE ParksNow -> "parked"
               [] ~ParksNow /\ more -> "start"
               [] ~ParksNow /\ ~more /\ shuttingDown -> "drain"
               [] OTHER -> "idle"

\* OrderCh is left out of the idle select when the execution channel is
\* backpressured at this moment.
TurnEnd ==
    /\ At("park")
    /\ pc' = AfterTurn
    /\ takesOrders' = (AfterTurn = "idle" /\ ~emitBackpressured)
    /\ UNCHANGED << clientVars, channels, bookVars, emitVars, snapVars, latched, hadActive,
                    rejectBudget, trades, progress, activeSweep, pendingCancel,
                    shuttingDown, cancelsSinceProgress, answer, response, admitted >>

-----------------------------------------------------------------------------
(* The two blocking selects (parkSelect and step 8) and the shutdown drain *)
(* execute nothing: they latch one piece of work and begin the next turn.  *)

Latch ==
    /\ pc' = "start"
    /\ takesOrders' = FALSE
    /\ UNCHANGED << clientVars, bookVars, emitVars, snapVars, executionCh, hadActive,
                    rejectBudget, trades, progress, activeSweep, cancelsSinceProgress,
                    answer, response, admitted >>

SelectCapacity ==
    /\ At("parked") /\ capacityCh
    /\ capacityCh' = FALSE
    /\ Latch
    /\ UNCHANGED << orderCh, cancelCh, tickerC, pendingOrder, pendingCancel, tickerDue,
                    shuttingDown >>

SelectCancel ==
    /\ pc \in {"parked", "idle", "drain"} /\ cancelCh # << >>
    /\ pendingCancel' = Head(cancelCh)
    /\ cancelCh' = Tail(cancelCh)
    /\ Latch
    /\ UNCHANGED << orderCh, capacityCh, tickerC, pendingOrder, tickerDue, shuttingDown >>

SelectOrder ==
    /\ orderCh # << >>
    /\ \/ At("idle") /\ takesOrders
       \/ At("drain") /\ cancelCh = << >>
    /\ pendingOrder' = Head(orderCh)
    /\ orderCh' = Tail(orderCh)
    /\ Latch
    /\ UNCHANGED << cancelCh, capacityCh, tickerC, pendingCancel, tickerDue, shuttingDown >>

\* Mutant: the idle select does not listen to the ticker.
SelectTickerParked ==
    /\ pc = "parked" /\ tickerC
    /\ tickerDue' = TRUE
    /\ tickerC' = FALSE
    /\ Latch
    /\ UNCHANGED << orderCh, cancelCh, capacityCh, pendingOrder, pendingCancel, shuttingDown >>

SelectTicker ==
    /\ pc \in {"parked", "idle"} /\ tickerC
    /\ tickerDue' = TRUE
    /\ tickerC' = FALSE
    /\ Latch
    /\ UNCHANGED << orderCh, cancelCh, capacityCh, pendingOrder, pendingCancel, shuttingDown >>

SelectStop ==
    /\ pc \in {"parked", "idle"} /\ stopCh /\ ~shuttingDown
    /\ shuttingDown' = TRUE
    /\ Latch
    /\ UNCHANGED << orderCh, cancelCh, capacityCh, tickerC, pendingOrder, pendingCancel,
                    tickerDue >>

\* Mutant: the loop exits with orders still in OrderCh.
ExitLeavingOrders ==
    /\ At("drain") /\ cancelCh = << >>
    /\ flushSnapshots
    /\ pc' = "exited"
    /\ UNCHANGED << clientVars, channels, bookVars, emitVars, turnVars, latched,
                    pendingCancel, activeSweep, shuttingDown, cancelsSinceProgress,
                    answer, response, admitted >>

\* 7. Both channels are empty: publish the last snapshot and close ExecutionCh.
Exit ==
    /\ At("drain") /\ cancelCh = << >> /\ orderCh = << >>
    /\ flushSnapshots
    /\ pc' = "exited"
    /\ UNCHANGED << clientVars, channels, bookVars, emitVars, turnVars, latched,
                    pendingCancel, activeSweep, shuttingDown, cancelsSinceProgress,
                    answer, response, admitted >>

-----------------------------------------------------------------------------
SlicePhase == SliceBegin \/ SliceSkip \/ MatchTrade \/ SliceYield \/ SliceFinish
Select == SelectCapacity \/ SelectCancel \/ SelectOrder \/ SelectTicker \/ SelectStop

\* The engine goroutine.
EngineLoop ==
    \/ TurnStart \/ processCancel \/ answerCancel \/ rejectCancel
    \/ TickerPhase \/ SlicePhase
    \/ StopLatchAndAdmit \/ TurnEnd \/ Select \/ Exit

Forwarder == ForwarderReceive \/ ForwarderSignal

Clients ==
    \/ \E o \in Orders : SubmitOrder(o) \/ TrySubmitOrderTimeout(o)
    \/ \E c \in Commands : \/ CancelOrderSend(c) \/ CancelOrderSendTimeout(c)
                            \/ CancelOrderReturn(c) \/ CancelOrderWaitTimeout(c)
    \/ Stop

\* The shard has shut down and everything it emitted is downstream.
Terminated ==
    /\ pc = "exited" /\ executionCh = << >> /\ fwd = None
    /\ UNCHANGED vars

Next == EngineLoop \/ Forwarder \/ Clients \/ Tick \/ Terminated

Spec == Init /\ [][Next]_vars

\* Fairness: the Go scheduler runs the engine goroutine and the forwarder (and
\* the outbox writer behind it keeps receiving), and the ticker ticks. The
\* clients owe nothing.
FairSpec == Spec /\ WF_vars(EngineLoop) /\ WF_vars(Forwarder) /\ WF_vars(Tick)

\* The same without anything downstream: the forwarder may stop for ever.
StalledSpec == Spec /\ WF_vars(EngineLoop)

-----------------------------------------------------------------------------
(* What was emitted, in order.                                             *)

emitted == forwarded \o (IF fwd = None THEN << >> ELSE << fwd >>) \o executionCh

IsTrade(e) == e.kind = "trade"
IsTradeOf(e, o) == e.kind = "trade" /\ (e.buy = o \/ e.sell = o)
IsTerminalOf(e, o) == e.kind \in {"done", "cancelled"} /\ e.order = o

Quantities == [Amount: Nat, QuoteAmount: Nat, FilledAmount: Nat, FilledQuoteAmount: Nat]
Event ==
    [kind: {"trade"}, seq: Nat, price: Price, qty: Nat, buy: Orders, sell: Orders]
    \cup [kind: {"done"}, order: Orders, quantities: Quantities]
    \cup [kind: {"cancelled"}, seq: Nat, order: Orders, command: Commands]

Answer == [command: Commands, result: {"Removed", "NotFound"}]

Phase == {"start", "cancel", "answer", "slice", "match", "admit", "park",
          "parked", "idle", "drain", "exited"}

FlagsTypeOK ==
    /\ capacityCh \in BOOLEAN /\ tickerC \in BOOLEAN /\ stopCh \in BOOLEAN
    /\ tickerDue \in BOOLEAN /\ shuttingDown \in BOOLEAN /\ panicked \in BOOLEAN
    /\ dirty \in BOOLEAN /\ hadActive \in BOOLEAN /\ takesOrders \in BOOLEAN

ChannelsTypeOK ==
    /\ orderCh \in Seq(Orders) /\ cancelCh \in Seq(Commands) /\ executionCh \in Seq(Event)

BookTypeOK == book \in Book /\ ord \in [Orders -> Quantities] /\ tradeSeq \in Nat

LoopTypeOK ==
    /\ activeSweep \in Orders \cup {None} /\ pendingOrder \in Orders \cup {None}
    /\ pendingCancel \in Commands \cup {None}
    /\ cancelsSinceProgress \in 0 .. MaxConsecutiveCancels
    /\ reservationRemaining \in 0 .. MaxMatchesPerTurn + 1
    /\ trades \in 0 .. MaxMatchesPerTurn
    /\ pc \in Phase /\ rejectBudget \in Nat /\ progress \in Nat
    /\ answer \in Answer \cup {None}
    /\ pc = "answer" => answer \in Answer
    /\ admitted \in Seq(Orders)

ClientsTypeOK ==
    /\ call \in [Commands -> {"idle", "waiting", "Removed", "NotFound", "Backpressured", "TimedOut"}]
    /\ response \in [Commands -> {"none", "Removed", "NotFound", "Backpressured"}]
    /\ rejected \subseteq Orders /\ accepted \in Seq(Orders)
    /\ fwd \in Event \cup {None} /\ forwarded \in Seq(Event)

\* Type invariant: among others, the cancel counter stays within its quota and
\* the trades of a slice within theirs. The snapshot cache is left to
\* SnapshotIsFresh.
TypeOK ==
    FlagsTypeOK /\ ChannelsTypeOK /\ BookTypeOK /\ LoopTypeOK /\ ClientsTypeOK

-----------------------------------------------------------------------------
(* Safety.                                                                 *)

\* sendExecution never panics: whatever the forwarder, the cancels and the
\* slices do, every emission finds both a reservation and a free slot.
NoPanic == ~panicked

\* What an order has left, what its fills add up to, and what it was submitted
\* with agree, for the fills reported in the emitted trades; nothing is filled
\* beyond its amount and no budget is overspent; and a MarketOrderDone reports
\* the final quantities. (matchBuy ... matchMarketSell, emitMarketOrderDone.)
QuantitiesConserved ==
    LET tradesOf(o) == {i \in DOMAIN emitted : IsTradeOf(emitted[i], o)}
        base(o) == MapThenSumSet(LAMBDA i : emitted[i].qty, tradesOf(o))
        quote(o) == MapThenSumSet(LAMBDA i : emitted[i].qty * emitted[i].price, tradesOf(o))
    IN  /\ \A o \in Orders :
            /\ ord[o].Amount >= 0 /\ ord[o].QuoteAmount >= 0
            /\ ord[o].FilledAmount = base(o)
            /\ ~IsMarketBuy(o) => ord[o].Amount + base(o) = o.amount
            /\ IsMarketBuy(o) => ord[o].QuoteAmount + quote(o) = o.quote
            /\ o.type = "MARKET" => ord[o].FilledQuoteAmount = quote(o)
        /\ \A i \in DOMAIN emitted :
            emitted[i].kind = "done" => emitted[i].quantities = ord[emitted[i].order]

\* No two orders rest that would have traded with each other: a resting buy at
\* or above a resting sell belongs to the same user. Cancels and new orders
\* that arrive between the slices of a sweep do not break it.
NoCrossedBook ==
    \A p, q \in Price :
        \A i \in DOMAIN book["BUY"][p], j \in DOMAIN book["SELL"][q] :
            p >= q => isSelfTrade(book["BUY"][p][i], book["SELL"][q][j])

\* Every trade is between a buy and a sell of different users, within the
\* limits of both.
TradesRespectLimits ==
    \A i \in DOMAIN emitted :
        IsTrade(emitted[i]) =>
            LET e == emitted[i]
            IN  /\ e.qty > 0
                /\ e.buy.side = "BUY" /\ e.sell.side = "SELL"
                /\ ~isSelfTrade(e.buy, e.sell)
                /\ e.buy.type = "LIMIT" => e.price <= e.buy.price
                /\ e.sell.type = "LIMIT" => e.price >= e.sell.price

\* An order has at most one MarketOrderDone or OrderCancelled, and no trade
\* after it. The settlement dispatcher takes this for granted ("one terminal
\* per order is an engine invariant", cmd/settlement_pipeline.go).
TerminalIsFinal ==
    \A i, j \in DOMAIN emitted :
        i < j => \A o \in Orders :
            IsTerminalOf(emitted[i], o) =>
                ~IsTerminalOf(emitted[j], o) /\ ~IsTradeOf(emitted[j], o)

\* Every admitted order is in exactly one place: being swept, resting, filled,
\* or reported by its terminal event.
OrdersAccountedFor ==
    \A i \in DOMAIN admitted :
        LET o == admitted[i]
            terminal == \E j \in DOMAIN emitted : IsTerminalOf(emitted[j], o)
            filled == o.type = "LIMIT" /\ ord[o].Amount = 0 /\ activeSweep # o
        IN  Cardinality({k \in 1 .. 4 : << activeSweep = o, InBook(book, o),
                                           filled, terminal >>[k]}) = 1

\* Orders are admitted in the order in which OrderCh accepted them, and none is
\* lost between the channel, the latch and the sweep.
NoOvertaking ==
    accepted = admitted
               \o (IF pendingOrder = None THEN << >> ELSE << pendingOrder >>)
               \o orderCh

\* A caller of CancelOrder told Removed finds the OrderCancelled event already
\* emitted; one told NotFound or Backpressured never has such an event.
CancelAnswersTrue ==
    \A c \in Commands :
        LET event == \E i \in DOMAIN emitted :
                        emitted[i].kind = "cancelled" /\ emitted[i].command = c
        IN  /\ response[c] = "Removed" => event
            /\ event => \/ response[c] = "Removed"
                        \/ answer = [command |-> c, result |-> "Removed"]
            /\ call[c] \notin {"idle", "waiting", "TimedOut"} => call[c] = response[c]

\* A turn makes at most one progress point: the turn in which a sweep ends does
\* not also admit ("exactly one progress per turn", runTurn step 0).
OneProgressPerTurn == progress <= 1

\* Outside a slice, a snapshot that is not marked dirty shows the book as it is.
SnapshotIsFresh == pc # "match" /\ ~dirty => snapshot = BookSnapshot

\* When the loop exits, everything accepted has been worked off.
DrainedAtExit ==
    pc = "exited" =>
        /\ orderCh = << >> /\ cancelCh = << >> /\ ~dirty
        /\ activeSweep = None /\ pendingOrder = None /\ pendingCancel = None
        /\ admitted = accepted

\* A trade is made with the best-priced counterparty, and among equals with
\* the one admitted first.
PriceTimePriority ==
    [][trades' > trades =>
        LET o == activeSweep
            e == executionCh'[Len(executionCh')]
            r == IF o.side = "BUY" THEN e.sell ELSE e.buy
            age(x) == CHOOSE i \in DOMAIN admitted : admitted[i] = x
        IN  /\ e.price = r.price
            /\ \A q \in Price : \A i \in DOMAIN OppositeLevel(book, o, q) :
                LET x == OppositeLevel(book, o, q)[i]
                IN  \/ isSelfTrade(o, x) \/ x = r
                    \/ BetterPrice(o, r.price, q)
                    \/ r.price = q /\ age(r) < age(x)]_vars

-----------------------------------------------------------------------------
(* Liveness.                                                               *)

\* Every command that reached CancelCh is answered, even when nothing downstream
\* ever takes another event (StalledSpec).
CancelsAnswered ==
    \A c \in Commands : call[c] = "waiting" ~> response[c] # "none"

\* A sweep ends, and the engine does not stay parked once the forwarder drains.
SweepsFinish == activeSweep # None ~> activeSweep = None

\* Stop leads to a complete drain and exit, with everything handed downstream.
StopDrains == stopCh ~> (pc = "exited" /\ executionCh = << >> /\ fwd = None)

\* Every accepted order is admitted: an idle select that left OrderCh out is
\* woken. (There are finitely many orders to submit.)
OrdersAdmitted == []<>(admitted = accepted)
=============================================================================
