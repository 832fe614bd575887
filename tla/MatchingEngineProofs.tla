------------------------ MODULE MatchingEngineProofs ------------------------
(***************************************************************************)
(* The engine is type-correct and never panics, for every set of orders    *)
(* and cancels and for every quantum and channel capacity that Start       *)
(* accepts. NoPanic is not inductive: it rests on the slots the reservation*)
(* of a running slice has left, which in turn rests on the loop being the  *)
(* only sender on ExecutionCh.                                             *)
(***************************************************************************)
EXTENDS MatchingEngine, OrderBookProofs

\* A slice holds a sweep, and ExecutionCh has room for all it may still emit.
Reserved ==
    /\ Len(executionCh) <= ExecutionCap
    /\ pc = "match" =>
        /\ activeSweep # None
        /\ reservationRemaining = MaxMatchesPerTurn + 1 - trades
        /\ free >= reservationRemaining

IndInv == TypeOK /\ WellPlaced(book) /\ Reserved /\ NoPanic

-----------------------------------------------------------------------------
\* A truncated quotient times its divisor does not exceed the dividend.
LEMMA QuotientBound ==
    ASSUME NEW a \in Nat, NEW p \in Nat \ {0}, NEW q \in Nat, q <= a \div p
    PROVE  p * q <= a
<1> DEFINE d == a \div p
<1>1. d \in Nat /\ p * d <= a
    OBVIOUS
<1> HIDE DEF d
<1>2. p * q <= p * d
    BY <1>1 DEF d
<1> QED  BY <1>1, <1>2

\* What a trade takes is left on both sides, so no quantity becomes negative.
LEMMA TradeQtyBounds ==
    ASSUME TypeOK, NEW o \in Orders, NEW r \in Orders, NEW p \in Price
    PROVE  /\ TradeQty(o, r, p) \in Nat
           /\ TradeQty(o, r, p) <= ord[r].Amount
           /\ ~IsMarketBuy(o) => TradeQty(o, r, p) <= ord[o].Amount
           /\ IsMarketBuy(o) => p * TradeQty(o, r, p) <= ord[o].QuoteAmount
<1>1. /\ ord[o].Amount \in Nat /\ ord[o].QuoteAmount \in Nat /\ ord[r].Amount \in Nat
    BY DEF TypeOK, BookTypeOK, Quantities
<1>2. p \in Nat \ {0}
    BY PriceAssumption DEF Price
<1>3. CASE IsMarketBuy(o)
    <2> DEFINE d == ord[o].QuoteAmount \div p
    <2>1. d \in Nat
        BY <1>1, <1>2
    <2>2. TradeQty(o, r, p) = IF d <= ord[r].Amount THEN d ELSE ord[r].Amount
        BY <1>3 DEF TradeQty
    <2>3. TradeQty(o, r, p) \in Nat /\ TradeQty(o, r, p) <= d
        <3> HIDE DEF d
        <3> QED  BY <1>1, <2>1, <2>2
    <2>4. p * TradeQty(o, r, p) <= ord[o].QuoteAmount
        BY <1>1, <1>2, <2>3, QuotientBound
    <2> HIDE DEF d
    <2> QED  BY <1>1, <1>3, <2>1, <2>2, <2>3, <2>4
<1>4. CASE ~IsMarketBuy(o)
    BY <1>1, <1>4 DEF TradeQty
<1> QED  BY <1>3, <1>4

\* The quantities of both orders after a trade are naturals.
LEMMA FilledType ==
    ASSUME TypeOK, NEW o \in Orders, NEW r \in Orders, NEW p \in Price
    PROVE  /\ FilledIncoming(o, TradeQty(o, r, p), p) \in Quantities
           /\ FilledResting(r, TradeQty(o, r, p)) \in Quantities
<1> DEFINE qty == TradeQty(o, r, p)
           cost == p * qty
<1>2. /\ qty \in Nat /\ qty <= ord[r].Amount
      /\ ~IsMarketBuy(o) => qty <= ord[o].Amount
      /\ IsMarketBuy(o) => cost <= ord[o].QuoteAmount
    BY TradeQtyBounds
<1>3. p \in Nat
    BY PriceAssumption DEF Price
<1> HIDE DEF qty
<1>4. cost \in Nat
    BY <1>2, <1>3
<1>5. \A x \in Orders : /\ ord[x].Amount \in Nat /\ ord[x].QuoteAmount \in Nat
                        /\ ord[x].FilledAmount \in Nat /\ ord[x].FilledQuoteAmount \in Nat
    BY DEF TypeOK, BookTypeOK, Quantities
<1>6. FilledIncoming(o, qty, p) =
        [Amount |-> ord[o].Amount - (IF IsMarketBuy(o) THEN 0 ELSE qty),
         QuoteAmount |-> ord[o].QuoteAmount - (IF IsMarketBuy(o) THEN cost ELSE 0),
         FilledAmount |-> ord[o].FilledAmount + qty,
         FilledQuoteAmount |->
            ord[o].FilledQuoteAmount + (IF o.type = "MARKET" THEN cost ELSE 0)]
    BY Zenon DEF FilledIncoming
<1> HIDE DEF cost
<1>7. FilledIncoming(o, qty, p) \in Quantities
    BY <1>2, <1>4, <1>5, <1>6 DEF Quantities
<1>8. FilledResting(r, qty) \in Quantities
    BY <1>2, <1>5 DEF FilledResting, Quantities
<1> QED  BY <1>7, <1>8 DEF qty

\* An event that finds a free slot fits.
LEMMA SendFits ==
    ASSUME NEW ch \in Seq(Event), NEW e \in Event, Len(ch) < ExecutionCap
    PROVE  /\ Append(ch, e) \in Seq(Event) /\ Len(Append(ch, e)) = Len(ch) + 1
           /\ Len(Append(ch, e)) <= ExecutionCap
BY AppendProperties, LenProperties, QuantumAssumption

\* The engine starts in IndInv: empty channels and book, no reservation.
THEOREM InitIndInv == Init => IndInv
<1> SUFFICES ASSUME Init PROVE IndInv
    OBVIOUS
<1> USE QuantumAssumption, ChannelAssumption
<1>1. book \in Book /\ WellPlaced(book)
    BY DEF Init, NewOrderBook, Book, WellPlaced
<1>2. ord \in [Orders -> Quantities]
    BY OrdersAssumption DEF Init, Quantities, OrderRecord
<1>3. TypeOK
    <2>1. FlagsTypeOK
        BY Zenon DEF Init, FlagsTypeOK
    <2>2. ChannelsTypeOK
        BY DEF Init, ChannelsTypeOK
    <2>3. LoopTypeOK
        BY DEF Init, LoopTypeOK, Phase
    <2>4. ClientsTypeOK
        BY DEF Init, ClientsTypeOK
    <2>5. tradeSeq \in Nat
        BY DEF Init
    <2> QED  BY <1>1, <1>2, <2>1, <2>2, <2>3, <2>4, <2>5 DEF TypeOK, BookTypeOK
<1>4. Reserved
    BY DEF Init, Reserved, free, validateExecutionCapacity
<1> QED  BY <1>1, <1>3, <1>4 DEF Init, IndInv, NoPanic

\* Every step of the engine, its clients and the forwarder leaves the flags Boolean.
LEMMA FlagsStep == TypeOK /\ [Next]_vars => FlagsTypeOK'
<1> SUFFICES ASSUME TypeOK, [Next]_vars PROVE FlagsTypeOK'
    OBVIOUS
<1> USE DEF TypeOK, FlagsTypeOK, vars, channels, engineVars, clientVars, bookVars,
        emitVars, snapVars, turnVars, latched
<1>1. ASSUME NEW o \in Orders, SubmitOrder(o) PROVE FlagsTypeOK'
    BY <1>1, Zenon DEF SubmitOrder
<1>2. ASSUME NEW o \in Orders, TrySubmitOrderTimeout(o) PROVE FlagsTypeOK'
    BY <1>2, Zenon DEF TrySubmitOrderTimeout
<1>3. ASSUME NEW c \in Commands, CancelOrderSend(c) PROVE FlagsTypeOK'
    BY <1>3, Zenon DEF CancelOrderSend
<1>4. ASSUME NEW c \in Commands, CancelOrderSendTimeout(c) PROVE FlagsTypeOK'
    BY <1>4, Zenon DEF CancelOrderSendTimeout
<1>5. ASSUME NEW c \in Commands, CancelOrderReturn(c) PROVE FlagsTypeOK'
    BY <1>5, Zenon DEF CancelOrderReturn
<1>6. ASSUME NEW c \in Commands, CancelOrderWaitTimeout(c) PROVE FlagsTypeOK'
    BY <1>6, Zenon DEF CancelOrderWaitTimeout
<1>7. CASE Stop
    BY <1>7, Zenon DEF Stop
<1>8. CASE Tick
    BY <1>8, Zenon DEF Tick
<1>9. CASE ForwarderReceive
    BY <1>9, Zenon DEF ForwarderReceive
<1>10. CASE ForwarderSignal
    BY <1>10, Zenon DEF ForwarderSignal
<1>11. CASE TurnStart
    BY <1>11, Zenon DEF TurnStart
<1>12. CASE processCancel
    BY <1>12, Zenon DEF processCancel, takeCancel, sendExecution
<1>13. CASE answerCancel
    BY <1>13, Zenon DEF answerCancel
<1>14. CASE rejectCancel
    BY <1>14, Zenon DEF rejectCancel, takeCancel
<1>15. CASE TickerPhase
    BY <1>15, Zenon DEF TickerPhase, flushSnapshots
<1>16. CASE SliceBegin
    BY <1>16, Zenon DEF SliceBegin
<1>17. CASE SliceSkip
    BY <1>17, Zenon DEF SliceSkip
<1>18. CASE MatchTrade
    BY <1>18, Zenon DEF MatchTrade, sendExecution
<1>19. CASE SliceYield
    BY <1>19, Zenon DEF SliceYield, SliceProgress
<1>20. CASE SliceFinish
    BY <1>20, Zenon DEF SliceFinish, SliceProgress, sendExecution, DirtyAfterSlice
<1>21. CASE StopLatchAndAdmit
    BY <1>21, Zenon DEF StopLatchAndAdmit, admitPhase, admitOrder
<1>22. CASE TurnEnd
    BY <1>22, Zenon DEF TurnEnd
<1>23. CASE SelectCapacity
    BY <1>23, Zenon DEF SelectCapacity, Latch
<1>24. CASE SelectCancel
    BY <1>24, Zenon DEF SelectCancel, Latch
<1>25. CASE SelectOrder
    BY <1>25, Zenon DEF SelectOrder, Latch
<1>26. CASE SelectTicker
    BY <1>26, Zenon DEF SelectTicker, Latch
<1>27. CASE SelectStop
    BY <1>27, Zenon DEF SelectStop, Latch
<1>28. CASE Exit
    BY <1>28, Zenon DEF Exit, flushSnapshots
<1>29. CASE UNCHANGED vars
    BY <1>29, Zenon
<1> QED
    BY <1>1, <1>2, <1>3, <1>4, <1>5, <1>6, <1>7, <1>8, <1>9, <1>10, <1>11, <1>12,
       <1>13, <1>14, <1>15, <1>16, <1>17, <1>18, <1>19, <1>20, <1>21, <1>22,
       <1>23, <1>24, <1>25, <1>26, <1>27, <1>28, <1>29
    DEF Next, EngineLoop, SlicePhase, Select, Forwarder, Clients, Terminated

\* What IndInv says besides the flags.
CoreInv ==
    /\ ChannelsTypeOK /\ BookTypeOK /\ LoopTypeOK /\ ClientsTypeOK
    /\ WellPlaced(book) /\ Reserved /\ NoPanic

\* Every step preserves the rest of IndInv. The steps that matter are the ones
\* that send on ExecutionCh: processCancel, MatchTrade and SliceFinish.
LEMMA CoreStep == IndInv /\ [Next]_vars => CoreInv'
<1> SUFFICES ASSUME IndInv, [Next]_vars PROVE CoreInv'
    OBVIOUS
<1>0. CoreInv
    BY DEF IndInv, TypeOK, CoreInv
<1> USE QuantumAssumption, <1>0
    DEF CoreInv, ChannelsTypeOK, BookTypeOK, LoopTypeOK, ClientsTypeOK, Reserved, NoPanic,
        free, validateExecutionCapacity, Phase, At, vars, channels, engineVars, clientVars,
        bookVars, emitVars, snapVars, turnVars, latched
<1>1. ASSUME NEW o \in Orders, SubmitOrder(o) PROVE CoreInv'
    BY <1>1, SMT DEF SubmitOrder
<1>2. ASSUME NEW o \in Orders, TrySubmitOrderTimeout(o) PROVE CoreInv'
    BY <1>2, SMT DEF TrySubmitOrderTimeout
<1>3. ASSUME NEW c \in Commands, CancelOrderSend(c) PROVE CoreInv'
    BY <1>3, SMT DEF CancelOrderSend
<1>4. ASSUME NEW c \in Commands, CancelOrderSendTimeout(c) PROVE CoreInv'
    BY <1>4, SMT DEF CancelOrderSendTimeout
<1>5. ASSUME NEW c \in Commands, CancelOrderReturn(c) PROVE CoreInv'
    BY <1>5, SMT DEF CancelOrderReturn
<1>6. ASSUME NEW c \in Commands, CancelOrderWaitTimeout(c) PROVE CoreInv'
    BY <1>6, SMT DEF CancelOrderWaitTimeout
<1>7. CASE Stop
    BY <1>7, SMT DEF Stop
<1>8. CASE Tick
    BY <1>8, SMT DEF Tick
<1>9. CASE ForwarderReceive
    BY <1>9, SMT DEF ForwarderReceive
<1>10. CASE ForwarderSignal
    BY <1>10, SMT DEF ForwarderSignal
<1>11. CASE TurnStart
    BY <1>11, SMT DEF TurnStart
<1>12. CASE processCancel
    <2> DEFINE c == NextCancel
    <2> USE <1>12 DEF processCancel
    <2>1. c \in Commands /\ c.order \in Orders
        BY CommandsAssumption DEF takeCancel, CancelAvailable, NextCancel
    <2>2. cancelCh' \in Seq(Commands) /\ pendingCancel' \in Commands \cup {None}
        BY DEF takeCancel, CancelAvailable
    <2>3. free >= 1 /\ cancelsSinceProgress < MaxConsecutiveCancels
        BY DEF ProcessesCancels, quotaLeft
    <2>4. /\ book' \in Book /\ WellPlaced(book')
          /\ executionCh' \in Seq(Event) /\ Len(executionCh') <= ExecutionCap
          /\ panicked' = FALSE /\ tradeSeq' \in Nat
        <3>1. CASE ~InBook(book, c.order)
            BY <3>1
        <3>2. CASE InBook(book, c.order)
            <4>1. book' \in Book /\ WellPlaced(book')
                BY <2>1, <3>2, RemoveOrderType
            <4>2. CancelledEvent(c) \in Event
                BY <2>1 DEF CancelledEvent, Event
            <4>3. sendExecution(CancelledEvent(c), 1) /\ free > 0 /\ 1 > 0
                BY <3>2, <2>3
            <4>4. executionCh' = Append(executionCh, CancelledEvent(c)) /\ panicked' = FALSE
                BY ONLY <4>3 DEF sendExecution
            <4>5. executionCh' \in Seq(Event) /\ Len(executionCh') <= ExecutionCap
                BY <4>2, <4>4, <2>3, SendFits
            <4>6. tradeSeq' \in Nat
                BY <3>2
            <4> QED  BY <4>1, <4>4, <4>5, <4>6
        <3> QED  BY <3>1, <3>2
    <2>5. answer' \in Answer
        BY <2>1 DEF Answer, CancelResult
    <2> QED  BY <2>2, <2>3, <2>4, <2>5
<1>13. CASE answerCancel
    <2>1. answer \in Answer
        BY <1>13 DEF answerCancel
    <2>2. answer.command \in Commands /\ answer.result \in {"Removed", "NotFound"}
        BY <2>1 DEF Answer
    <2>3. response' \in [Commands -> {"none", "Removed", "NotFound", "Backpressured"}]
        BY <1>13, <2>2 DEF answerCancel
    <2> QED  BY <1>13, <2>3 DEF answerCancel
<1>14. CASE rejectCancel
    BY <1>14, SMT DEF rejectCancel, takeCancel, CancelAvailable, NextCancel
<1>15. CASE TickerPhase
    BY <1>15, SMT DEF TickerPhase, flushSnapshots
<1>16. CASE SliceBegin
    BY <1>16, SMT DEF SliceBegin, sliceBudget, hasSliceCapacity
<1>17. CASE SliceSkip
    BY <1>17, SMT DEF SliceSkip
<1>18. CASE MatchTrade
    <2> DEFINE o == activeSweep
               p == BestPrice(book, o)
               r == BestMatch(book, o)
               qty == TradeQty(o, r, p)
               e == IF o.side = "BUY" THEN TradeEvent(p, qty, o, r)
                                      ELSE TradeEvent(p, qty, r, o)
    <2>1. /\ pc = "match" /\ trades < MaxMatchesPerTurn /\ MatchablePrices(book, o) # {}
          /\ ord' = [ord EXCEPT ![o] = FilledIncoming(o, qty, p),
                                ![r] = FilledResting(r, qty)]
          /\ book' = IF ord[r].Amount = qty THEN RemoveOrder(book, r) ELSE book
          /\ sendExecution(e, reservationRemaining)
          /\ reservationRemaining' = reservationRemaining - 1
          /\ tradeSeq' = tradeSeq + 1 /\ trades' = trades + 1
        BY <1>18 DEF MatchTrade, CanTrade
    <2>2. o \in Orders
        BY <2>1
    <2>3. p \in Price /\ r \in Orders /\ InBook(book, r)
        BY <2>1, <2>2, BestMatchRests
    <2>4. qty \in Nat
        BY <2>2, <2>3, TradeQtyBounds DEF IndInv
    <2>5. FilledIncoming(o, qty, p) \in Quantities /\ FilledResting(r, qty) \in Quantities
        BY <2>2, <2>3, FilledType DEF IndInv
    <2> HIDE DEF o, p, r, qty
    <2>6. ord' \in [Orders -> Quantities]
        BY <2>1, <2>5
    <2>7. book' \in Book /\ WellPlaced(book')
        BY <2>1, <2>3, RemoveOrderType
    <2>8. e \in Event
        BY <2>2, <2>3, <2>4 DEF TradeEvent, Event
    <2>9. /\ reservationRemaining = MaxMatchesPerTurn + 1 - trades
          /\ reservationRemaining > 0 /\ free >= reservationRemaining
        BY <2>1
    <2> HIDE DEF e
    <2>10. executionCh' = Append(executionCh, e) /\ panicked' = FALSE
        <3>1. sendExecution(e, reservationRemaining) /\ reservationRemaining > 0 /\ free > 0
            BY <2>1, <2>9 DEF e
        <3> QED  BY ONLY <3>1 DEF sendExecution
    <2>11. /\ executionCh' \in Seq(Event) /\ Len(executionCh') = Len(executionCh) + 1
           /\ Len(executionCh') <= ExecutionCap
        BY <2>8, <2>9, <2>10, SendFits
    <2>12. UNCHANGED << orderCh, cancelCh, pc, rejectBudget, progress, activeSweep, pendingOrder,
                        pendingCancel, cancelsSinceProgress, answer, response, admitted,
                        clientVars >>
        BY <1>18 DEF MatchTrade
    <2>13. ChannelsTypeOK' /\ BookTypeOK' /\ ClientsTypeOK'
        <3>1. tradeSeq' = tradeSeq + 1
            BY <2>1
        <3> QED  BY <2>6, <2>7, <2>11, <2>12, <3>1
    <2>14. LoopTypeOK'
        BY <2>1, <2>9, <2>12
    <2>15. Reserved'
        BY <2>1, <2>9, <2>11, <2>12
    <2> QED  BY <2>7, <2>10, <2>13, <2>14, <2>15
<1>19. CASE SliceYield
    BY <1>19, SMT DEF SliceYield, SliceProgress
<1>20. CASE SliceFinish
    <2> DEFINE o == activeSweep
    <2>1. /\ pc = "match" /\ SliceProgress /\ activeSweep' = None
          /\ IF o.type = "MARKET"
               THEN sendExecution(DoneEvent(o), reservationRemaining)
               ELSE UNCHANGED << executionCh, panicked >>
          /\ book' = IF Rests(o) THEN AddOrder(book, o) ELSE book
        BY <1>20 DEF SliceFinish
    <2>2. o \in Orders
        BY <2>1
    <2>3. book' \in Book /\ WellPlaced(book')
        BY <2>1, <2>2, AddOrderType
    <2>4. reservationRemaining > 0 /\ free >= reservationRemaining
        BY <2>1
    <2>5. executionCh' \in Seq(Event) /\ Len(executionCh') <= ExecutionCap /\ panicked' = FALSE
        <3>1. CASE o.type = "MARKET"
            <4>1. DoneEvent(o) \in Event
                BY <2>2 DEF DoneEvent, Event
            <4>2. executionCh' = Append(executionCh, DoneEvent(o)) /\ panicked' = FALSE
                <5>1. /\ sendExecution(DoneEvent(o), reservationRemaining)
                      /\ reservationRemaining > 0 /\ free > 0
                    BY <2>1, <2>4, <3>1
                <5> QED  BY ONLY <5>1 DEF sendExecution
            <4> QED  BY <2>4, <4>1, <4>2, SendFits
        <3>2. CASE o.type # "MARKET"
            BY <2>1, <3>2
        <3> QED  BY <3>1, <3>2
    <2> QED  BY <1>20, <2>1, <2>3, <2>5 DEF SliceFinish, SliceProgress
<1>21. CASE StopLatchAndAdmit
    <2> USE <1>21 DEF StopLatchAndAdmit
    <2>1. /\ orderCh' \in Seq(Orders) /\ admitted' \in Seq(Orders)
          /\ activeSweep' \in Orders \cup {None} /\ pendingOrder' \in Orders \cup {None}
        <3>1. CASE ~AdmitsThisTurn
            BY <3>1
        <3>2. CASE AdmitsThisTurn /\ AdmitsLatched
            <4>1. admitOrder(pendingOrder) /\ pendingOrder' = None /\ orderCh' = orderCh
                BY <3>2 DEF admitPhase
            <4>2. pendingOrder \in Orders
                BY <3>2 DEF AdmitsLatched
            <4> QED  BY <4>1, <4>2, AppendProperties DEF admitOrder
        <3>3. CASE AdmitsThisTurn /\ ~AdmitsLatched
            <4>1. \/ UNCHANGED << activeSweep, admitted, pendingOrder, orderCh >>
                  \/ /\ orderCh # << >> /\ admitOrder(Head(orderCh))
                     /\ orderCh' = Tail(orderCh) /\ pendingOrder' = pendingOrder
                BY <3>3 DEF admitPhase
            <4>2. orderCh # << >> => Head(orderCh) \in Orders /\ Tail(orderCh) \in Seq(Orders)
                BY HeadTailProperties
            <4>3. CASE UNCHANGED << activeSweep, admitted, pendingOrder, orderCh >>
                BY <4>3
            <4>4. CASE /\ orderCh # << >> /\ admitOrder(Head(orderCh))
                       /\ orderCh' = Tail(orderCh) /\ pendingOrder' = pendingOrder
                BY <4>2, <4>4, AppendProperties DEF admitOrder
            <4> QED  BY <4>1, <4>3, <4>4
        <3> QED  BY <3>1, <3>2, <3>3
    <2>2. cancelsSinceProgress' \in 0 .. MaxConsecutiveCancels /\ progress' \in Nat
        BY DEF admitPhase, AfterAdmission
    <2> QED  BY <2>1, <2>2
<1>22. CASE TurnEnd
    <2>1. pc' \in {"parked", "start", "drain", "idle"}
        BY <1>22 DEF TurnEnd, AfterTurn
    <2> QED  BY <1>22, <2>1 DEF TurnEnd
<1>23. CASE SelectCapacity
    BY <1>23, SMT DEF SelectCapacity, Latch
<1>24. CASE SelectCancel
    BY <1>24, SMT DEF SelectCancel, Latch
<1>25. CASE SelectOrder
    BY <1>25, SMT DEF SelectOrder, Latch
<1>26. CASE SelectTicker
    BY <1>26, SMT DEF SelectTicker, Latch
<1>27. CASE SelectStop
    BY <1>27, SMT DEF SelectStop, Latch
<1>28. CASE Exit
    BY <1>28, SMT DEF Exit, flushSnapshots
<1>29. CASE UNCHANGED vars
    BY <1>29
<1> QED
    BY <1>1, <1>2, <1>3, <1>4, <1>5, <1>6, <1>7, <1>8, <1>9, <1>10, <1>11, <1>12,
       <1>13, <1>14, <1>15, <1>16, <1>17, <1>18, <1>19, <1>20, <1>21, <1>22,
       <1>23, <1>24, <1>25, <1>26, <1>27, <1>28, <1>29
    DEF Next, EngineLoop, SlicePhase, Select, Forwarder, Clients, Terminated

\* IndInv is an inductive invariant of the engine.
THEOREM EngineInvariant == Spec => []IndInv
<1>1. IndInv /\ [Next]_vars => IndInv'
    BY CoreStep, FlagsStep DEF IndInv, TypeOK, CoreInv
<1> QED  BY InitIndInv, <1>1, PTL DEF Spec

\* Type correctness: the cancel counter never exceeds its quota, a slice its
\* trades, and no quantity becomes negative (cancelPhase, runSlice, match*).
THEOREM TypeCorrect == Spec => []TypeOK
<1>1. IndInv => TypeOK
    BY DEF IndInv
<1> QED  BY EngineInvariant, <1>1, PTL

\* sendExecution never panics: validateExecutionCapacity is enough for every
\* emission to find a reservation and a free slot.
THEOREM EngineNeverPanics == Spec => []NoPanic
<1>1. IndInv => NoPanic
    BY DEF IndInv
<1> QED  BY EngineInvariant, <1>1, PTL

-----------------------------------------------------------------------------
(* One progress point per turn.                                            *)

\* What the turn remembers of its start is right until its slice has run, and
\* only a turn that began with a sweep makes progress before admission.
TurnInv ==
    /\ progress \in {0, 1}
    /\ pc \in {"cancel", "answer", "slice", "match"} => progress = 0
    /\ pc \in {"cancel", "answer", "slice"} => (hadActive <=> activeSweep # None)
    /\ pc = "match" => hadActive
    /\ pc = "admit" => progress = 0 \/ hadActive

\* TurnInv is preserved by every step.
LEMMA TurnStep == TurnInv /\ [Next]_vars => TurnInv'
<1> SUFFICES ASSUME TurnInv, [Next]_vars PROVE TurnInv'
    OBVIOUS
<1> USE DEF TurnInv, At, vars, channels, engineVars, clientVars, bookVars,
        emitVars, snapVars, turnVars, latched
<1>1. ASSUME NEW o \in Orders, SubmitOrder(o) PROVE TurnInv'
    BY <1>1 DEF SubmitOrder
<1>2. ASSUME NEW o \in Orders, TrySubmitOrderTimeout(o) PROVE TurnInv'
    BY <1>2 DEF TrySubmitOrderTimeout
<1>3. ASSUME NEW c \in Commands, CancelOrderSend(c) PROVE TurnInv'
    BY <1>3 DEF CancelOrderSend
<1>4. ASSUME NEW c \in Commands, CancelOrderSendTimeout(c) PROVE TurnInv'
    BY <1>4 DEF CancelOrderSendTimeout
<1>5. ASSUME NEW c \in Commands, CancelOrderReturn(c) PROVE TurnInv'
    BY <1>5 DEF CancelOrderReturn
<1>6. ASSUME NEW c \in Commands, CancelOrderWaitTimeout(c) PROVE TurnInv'
    BY <1>6 DEF CancelOrderWaitTimeout
<1>7. CASE Stop
    BY <1>7 DEF Stop
<1>8. CASE Tick
    BY <1>8 DEF Tick
<1>9. CASE ForwarderReceive
    BY <1>9 DEF ForwarderReceive
<1>10. CASE ForwarderSignal
    BY <1>10 DEF ForwarderSignal
<1>11. CASE TurnStart
    BY <1>11 DEF TurnStart
<1>12. CASE processCancel
    BY <1>12 DEF processCancel, takeCancel
<1>13. CASE answerCancel
    BY <1>13 DEF answerCancel
<1>14. CASE rejectCancel
    BY <1>14 DEF rejectCancel, takeCancel
<1>15. CASE TickerPhase
    BY <1>15 DEF TickerPhase
<1>16. CASE SliceBegin
    BY <1>16 DEF SliceBegin
<1>17. CASE SliceSkip
    BY <1>17 DEF SliceSkip
<1>18. CASE MatchTrade
    BY <1>18 DEF MatchTrade
<1>19. CASE SliceYield
    BY <1>19 DEF SliceYield, SliceProgress
<1>20. CASE SliceFinish
    BY <1>20 DEF SliceFinish, SliceProgress
<1>21. CASE StopLatchAndAdmit
    BY <1>21 DEF StopLatchAndAdmit, admitPhase, admitOrder, AdmitsLatched, AdmitsThisTurn
<1>22. CASE TurnEnd
    BY <1>22 DEF TurnEnd, AfterTurn, ParksNow, more
<1>23. CASE SelectCapacity
    BY <1>23 DEF SelectCapacity, Latch
<1>24. CASE SelectCancel
    BY <1>24 DEF SelectCancel, Latch
<1>25. CASE SelectOrder
    BY <1>25 DEF SelectOrder, Latch
<1>26. CASE SelectTicker
    BY <1>26 DEF SelectTicker, Latch
<1>27. CASE SelectStop
    BY <1>27 DEF SelectStop, Latch
<1>28. CASE Exit
    BY <1>28 DEF Exit, flushSnapshots
<1>29. CASE UNCHANGED vars
    BY <1>29
<1> QED
    BY <1>1, <1>2, <1>3, <1>4, <1>5, <1>6, <1>7, <1>8, <1>9, <1>10, <1>11, <1>12,
       <1>13, <1>14, <1>15, <1>16, <1>17, <1>18, <1>19, <1>20, <1>21, <1>22,
       <1>23, <1>24, <1>25, <1>26, <1>27, <1>28, <1>29
    DEF Next, EngineLoop, SlicePhase, Select, Forwarder, Clients, Terminated

\* A turn makes at most one progress point (runTurn step 0): it does not both
\* run a slice and admit an order.
THEOREM TurnProgressesOnce == Spec => []OneProgressPerTurn
<1>1. Init => TurnInv
    BY DEF Init, TurnInv
<1>2. TurnInv => OneProgressPerTurn
    BY DEF TurnInv, OneProgressPerTurn
<1> QED  BY <1>1, <1>2, TurnStep, PTL DEF Spec

-----------------------------------------------------------------------------
(* Shutdown.                                                               *)

\* The loop blocks, drains and exits only without work in hand; it drains only
\* after Stop, when nobody submits any more.
DrainInv ==
    /\ pc \in {"idle", "drain", "exited"} =>
        activeSweep = None /\ pendingOrder = None /\ pendingCancel = None
    /\ pc = "parked" => pendingCancel = None
    /\ pc \in {"drain", "exited"} => shuttingDown
    /\ shuttingDown => stopCh
    /\ pc = "exited" => orderCh = << >> /\ cancelCh = << >> /\ ~dirty

\* DrainInv is preserved by every step.
LEMMA DrainStep == DrainInv /\ [Next]_vars => DrainInv'
<1> SUFFICES ASSUME DrainInv, [Next]_vars PROVE DrainInv'
    OBVIOUS
<1> USE DEF DrainInv, At, vars, channels, engineVars, clientVars, bookVars,
        emitVars, snapVars, turnVars, latched
<1>1. ASSUME NEW o \in Orders, SubmitOrder(o) PROVE DrainInv'
    BY <1>1 DEF SubmitOrder
<1>2. ASSUME NEW o \in Orders, TrySubmitOrderTimeout(o) PROVE DrainInv'
    BY <1>2 DEF TrySubmitOrderTimeout
<1>3. ASSUME NEW c \in Commands, CancelOrderSend(c) PROVE DrainInv'
    BY <1>3 DEF CancelOrderSend
<1>4. ASSUME NEW c \in Commands, CancelOrderSendTimeout(c) PROVE DrainInv'
    BY <1>4 DEF CancelOrderSendTimeout
<1>5. ASSUME NEW c \in Commands, CancelOrderReturn(c) PROVE DrainInv'
    BY <1>5 DEF CancelOrderReturn
<1>6. ASSUME NEW c \in Commands, CancelOrderWaitTimeout(c) PROVE DrainInv'
    BY <1>6 DEF CancelOrderWaitTimeout
<1>7. CASE Stop
    BY <1>7 DEF Stop
<1>8. CASE Tick
    BY <1>8 DEF Tick
<1>9. CASE ForwarderReceive
    BY <1>9 DEF ForwarderReceive
<1>10. CASE ForwarderSignal
    BY <1>10 DEF ForwarderSignal
<1>11. CASE TurnStart
    BY <1>11 DEF TurnStart
<1>12. CASE processCancel
    BY <1>12 DEF processCancel, takeCancel
<1>13. CASE answerCancel
    BY <1>13 DEF answerCancel
<1>14. CASE rejectCancel
    BY <1>14 DEF rejectCancel, takeCancel
<1>15. CASE TickerPhase
    BY <1>15 DEF TickerPhase
<1>16. CASE SliceBegin
    BY <1>16 DEF SliceBegin
<1>17. CASE SliceSkip
    BY <1>17 DEF SliceSkip
<1>18. CASE MatchTrade
    BY <1>18 DEF MatchTrade
<1>19. CASE SliceYield
    BY <1>19 DEF SliceYield, SliceProgress
<1>20. CASE SliceFinish
    BY <1>20 DEF SliceFinish, SliceProgress
<1>21. CASE StopLatchAndAdmit
    BY <1>21 DEF StopLatchAndAdmit, admitPhase, admitOrder, AdmitsLatched, AdmitsThisTurn
<1>22. CASE TurnEnd
    BY <1>22 DEF TurnEnd, AfterTurn, ParksNow, more
<1>23. CASE SelectCapacity
    BY <1>23 DEF SelectCapacity, Latch
<1>24. CASE SelectCancel
    BY <1>24 DEF SelectCancel, Latch
<1>25. CASE SelectOrder
    BY <1>25 DEF SelectOrder, Latch
<1>26. CASE SelectTicker
    BY <1>26 DEF SelectTicker, Latch
<1>27. CASE SelectStop
    BY <1>27 DEF SelectStop, Latch
<1>28. CASE Exit
    BY <1>28 DEF Exit, flushSnapshots
<1>29. CASE UNCHANGED vars
    BY <1>29
<1> QED
    BY <1>1, <1>2, <1>3, <1>4, <1>5, <1>6, <1>7, <1>8, <1>9, <1>10, <1>11, <1>12,
       <1>13, <1>14, <1>15, <1>16, <1>17, <1>18, <1>19, <1>20, <1>21, <1>22,
       <1>23, <1>24, <1>25, <1>26, <1>27, <1>28, <1>29
    DEF Next, EngineLoop, SlicePhase, Select, Forwarder, Clients, Terminated

-----------------------------------------------------------------------------
(* The order of admission.                                                 *)

\* Appending to the second of two sequences appends to their concatenation.
LEMMA AppendAfterConcat ==
    ASSUME NEW S, NEW s \in Seq(S), NEW t \in Seq(S), NEW e \in S
    PROVE  s \o Append(t, e) = Append(s \o t, e)
<1>1. << e >> \in Seq(S) /\ s \o t \in Seq(S)
    BY ConcatProperties
<1>2. Append(t, e) = t \o << e >> /\ Append(s \o t, e) = (s \o t) \o << e >>
    BY <1>1, AppendIsConcat
<1> QED  BY <1>1, <1>2, ConcatAssociative

\* Moving the head of the second of two sequences to the end of the first one
\* does not change their concatenation.
LEMMA MoveHead ==
    ASSUME NEW S, NEW s \in Seq(S), NEW t \in Seq(S), t # << >>
    PROVE  s \o t = Append(s, Head(t)) \o Tail(t)
<1>1. Head(t) \in S /\ Tail(t) \in Seq(S) /\ << Head(t) >> \in Seq(S)
    BY HeadTailProperties
<1>2. t = << Head(t) >> \o Tail(t)
    OBVIOUS
<1>3. Append(s, Head(t)) = s \o << Head(t) >>
    BY <1>1, AppendIsConcat
<1>4. (s \o << Head(t) >>) \o Tail(t) = s \o (<< Head(t) >> \o Tail(t))
    BY <1>1, ConcatAssociative
<1> QED  BY <1>2, <1>3, <1>4

\* The latched order as a sequence.
Latched == IF pendingOrder = None THEN << >> ELSE << pendingOrder >>

\* Admission order is preserved by every step: submitting appends at the end,
\* the idle select moves the head into an empty latch, admission takes the front.
LEMMA OvertakingStep == IndInv /\ DrainInv /\ NoOvertaking /\ [Next]_vars => NoOvertaking'
<1> SUFFICES ASSUME IndInv, DrainInv, NoOvertaking, [Next]_vars PROVE NoOvertaking'
    OBVIOUS
<1>a. /\ admitted \in Seq(Orders) /\ orderCh \in Seq(Orders) /\ Latched \in Seq(Orders)
      /\ accepted \in Seq(Orders)
    BY DEF IndInv, TypeOK, LoopTypeOK, ChannelsTypeOK, ClientsTypeOK, Latched
<1>b. accepted = (admitted \o Latched) \o orderCh
    BY DEF NoOvertaking, Latched
<1>c. UNCHANGED << accepted, admitted, pendingOrder, orderCh >> => NoOvertaking'
    BY DEF NoOvertaking
<1> USE DEF vars, channels, engineVars, clientVars, bookVars,
        emitVars, snapVars, turnVars, latched
<1>1. ASSUME NEW o \in Orders, SubmitOrder(o) PROVE NoOvertaking'
    <2>1. orderCh' = Append(orderCh, o) /\ accepted' = Append(accepted, o)
        BY <1>1 DEF SubmitOrder
    <2>2. UNCHANGED << admitted, pendingOrder >>
        BY <1>1 DEF SubmitOrder
    <2>3. admitted \o Latched \in Seq(Orders)
        BY <1>a, ConcatProperties
    <2>4. (admitted \o Latched) \o Append(orderCh, o)
            = Append((admitted \o Latched) \o orderCh, o)
        BY <1>a, <2>3, AppendAfterConcat
    <2> QED  BY <1>b, <2>1, <2>2, <2>4 DEF NoOvertaking, Latched
<1>2. ASSUME NEW o \in Orders, TrySubmitOrderTimeout(o) PROVE NoOvertaking'
    BY <1>2, <1>c, Zenon DEF TrySubmitOrderTimeout
<1>3. ASSUME NEW c \in Commands, CancelOrderSend(c) PROVE NoOvertaking'
    BY <1>3, <1>c, Zenon DEF CancelOrderSend
<1>4. ASSUME NEW c \in Commands, CancelOrderSendTimeout(c) PROVE NoOvertaking'
    BY <1>4, <1>c, Zenon DEF CancelOrderSendTimeout
<1>5. ASSUME NEW c \in Commands, CancelOrderReturn(c) PROVE NoOvertaking'
    BY <1>5, <1>c, Zenon DEF CancelOrderReturn
<1>6. ASSUME NEW c \in Commands, CancelOrderWaitTimeout(c) PROVE NoOvertaking'
    BY <1>6, <1>c, Zenon DEF CancelOrderWaitTimeout
<1>7. CASE Stop
    BY <1>7, <1>c, Zenon DEF Stop
<1>8. CASE Tick
    BY <1>8, <1>c, Zenon DEF Tick
<1>9. CASE ForwarderReceive
    BY <1>9, <1>c, Zenon DEF ForwarderReceive
<1>10. CASE ForwarderSignal
    BY <1>10, <1>c, Zenon DEF ForwarderSignal
<1>11. CASE TurnStart
    BY <1>11, <1>c, Zenon DEF TurnStart
<1>12. CASE processCancel
    BY <1>12, <1>c, Zenon DEF processCancel
<1>13. CASE answerCancel
    BY <1>13, <1>c, Zenon DEF answerCancel
<1>14. CASE rejectCancel
    BY <1>14, <1>c, Zenon DEF rejectCancel
<1>15. CASE TickerPhase
    BY <1>15, <1>c, Zenon DEF TickerPhase
<1>16. CASE SliceBegin
    BY <1>16, <1>c, Zenon DEF SliceBegin
<1>17. CASE SliceSkip
    BY <1>17, <1>c, Zenon DEF SliceSkip
<1>18. CASE MatchTrade
    BY <1>18, <1>c, Zenon DEF MatchTrade
<1>19. CASE SliceYield
    BY <1>19, <1>c, Zenon DEF SliceYield
<1>20. CASE SliceFinish
    BY <1>20, <1>c, Zenon DEF SliceFinish
<1>21. CASE StopLatchAndAdmit
    <2>1. accepted' = accepted
        BY <1>21 DEF StopLatchAndAdmit
    <2>2. CASE UNCHANGED << admitted, pendingOrder, orderCh >>
        BY <1>b, <2>1, <2>2 DEF NoOvertaking
    <2>3. CASE /\ pendingOrder # None /\ admitted' = Append(admitted, pendingOrder)
               /\ pendingOrder' = None /\ orderCh' = orderCh
        <3>1. pendingOrder \in Orders
            BY <2>3 DEF IndInv, TypeOK, LoopTypeOK
        <3>2. Append(admitted, pendingOrder) = admitted \o << pendingOrder >>
            BY <1>a, <3>1, AppendIsConcat
        <3>3. Append(admitted, pendingOrder) \o << >> = Append(admitted, pendingOrder)
            BY <1>a, <3>1, AppendProperties, ConcatEmptySeq
        <3> QED  BY <2>1, <2>3, <3>2, <3>3 DEF NoOvertaking
    <2>4. CASE /\ pendingOrder = None /\ orderCh # << >>
               /\ admitted' = Append(admitted, Head(orderCh))
               /\ orderCh' = Tail(orderCh) /\ pendingOrder' = pendingOrder
        <3>1. /\ admitted \o << >> = admitted
              /\ Append(admitted, Head(orderCh)) \o << >> = Append(admitted, Head(orderCh))
            BY <1>a, <2>4, AppendProperties, HeadTailProperties, ConcatEmptySeq
        <3>2. admitted \o orderCh = Append(admitted, Head(orderCh)) \o Tail(orderCh)
            BY <1>a, <2>4, MoveHead
        <3> QED  BY <2>1, <2>4, <3>1, <3>2 DEF NoOvertaking
    <2> QED  BY <1>21, <2>2, <2>3, <2>4, Zenon
             DEF StopLatchAndAdmit, admitPhase, admitOrder, AdmitsLatched
<1>22. CASE TurnEnd
    BY <1>22, <1>c, Zenon DEF TurnEnd
<1>23. CASE SelectCapacity
    BY <1>23, <1>c, Zenon DEF SelectCapacity, Latch
<1>24. CASE SelectCancel
    BY <1>24, <1>c, Zenon DEF SelectCancel, Latch
<1>25. CASE SelectOrder
    <2>1. /\ orderCh # << >> /\ pendingOrder = None
          /\ pendingOrder' = Head(orderCh) /\ orderCh' = Tail(orderCh)
        BY <1>25 DEF SelectOrder, At, DrainInv
    <2>2. UNCHANGED << accepted, admitted >>
        BY <1>25 DEF SelectOrder, Latch
    <2>3. Head(orderCh) \in Orders
        BY <1>a, <2>1, HeadTailProperties
    <2>4. Head(orderCh) # None
        BY <2>3, NoneAssumption
    <2>5. admitted \o << >> = admitted
        BY <1>a, ConcatEmptySeq
    <2>6. admitted \o orderCh = (admitted \o << Head(orderCh) >>) \o Tail(orderCh)
        <3>1. admitted \o orderCh = Append(admitted, Head(orderCh)) \o Tail(orderCh)
            BY <1>a, <2>1, MoveHead
        <3>2. Append(admitted, Head(orderCh)) = admitted \o << Head(orderCh) >>
            BY <1>a, <2>3, AppendIsConcat
        <3> QED  BY <3>1, <3>2
    <2> QED  BY <2>1, <2>2, <2>4, <2>5, <2>6 DEF NoOvertaking
<1>26. CASE SelectTicker
    BY <1>26, <1>c, Zenon DEF SelectTicker, Latch
<1>27. CASE SelectStop
    BY <1>27, <1>c, Zenon DEF SelectStop, Latch
<1>28. CASE Exit
    BY <1>28, <1>c, Zenon DEF Exit
<1>29. CASE UNCHANGED vars
    BY <1>29, <1>c, Zenon
<1> QED
    BY <1>1, <1>2, <1>3, <1>4, <1>5, <1>6, <1>7, <1>8, <1>9, <1>10, <1>11, <1>12,
       <1>13, <1>14, <1>15, <1>16, <1>17, <1>18, <1>19, <1>20, <1>21, <1>22,
       <1>23, <1>24, <1>25, <1>26, <1>27, <1>28, <1>29
    DEF Next, EngineLoop, SlicePhase, Select, Forwarder, Clients, Terminated

\* The order in which OrderCh accepts orders is the order in which they are
\* admitted, and none is lost or duplicated between channel, latch and sweep.
THEOREM AdmissionIsFIFO == Spec => []NoOvertaking
<1>1. Init => DrainInv /\ NoOvertaking
    BY ConcatEmptySeq DEF Init, DrainInv, NoOvertaking
<1> QED  BY <1>1, InitIndInv, EngineInvariant, DrainStep, OvertakingStep, PTL DEF Spec

\* When the loop has exited, everything accepted has been worked off (runTurn
\* step 7): channels and latches are empty, every accepted order was admitted,
\* and the last snapshot is published.
THEOREM ExitIsDrained == Spec => []DrainedAtExit
<1>1. Init => DrainInv
    BY DEF Init, DrainInv
<1>2. IndInv /\ DrainInv /\ NoOvertaking => DrainedAtExit
    <2> SUFFICES ASSUME IndInv, DrainInv, NoOvertaking, pc = "exited" PROVE admitted = accepted
        BY DEF DrainInv, DrainedAtExit
    <2>1. admitted \in Seq(Orders)
        BY DEF IndInv, TypeOK, LoopTypeOK
    <2>2. admitted \o << >> = admitted
        BY <2>1, ConcatEmptySeq
    <2> QED  BY <2>2 DEF DrainInv, NoOvertaking
<1> QED  BY <1>1, <1>2, EngineInvariant, AdmissionIsFIFO, DrainStep, PTL DEF Spec
=============================================================================
