------------------------- MODULE SettlementRecovery -------------------------
(***************************************************************************)
(* What settlement leaves in the database across failures and restarts:    *)
(* the write-ahead outbox, SettleTrade, ProcessOrderCancellation and       *)
(* CompleteMarketOrder, the failure records and their retry worker, and    *)
(* the boot sequence replay, finalizer, bootstrap (src/cmd/main.go and     *)
(* src/internal/service).                                                  *)
(*                                                                         *)
(* Amounts are counted in lots and a trade is of one lot. The hold of an   *)
(* order starts as its whole amount; settling a trade consumes one lot of  *)
(* it and a terminal event releases the rest. The engine is reduced to     *)
(* what it emits: trades between orders with lots left, and one terminal   *)
(* event per order. The live pipeline is reduced to its per-order fence,   *)
(* which SettlementDispatcher is about.                                    *)
(***************************************************************************)
EXTENDS SequencesExt

CONSTANTS
    Orders,        \* records [id, side, type, amount]
    MaxRetryCount, \* the attempts after which a record is left to the operator
    ScanLimit,     \* the open records of one table the retry worker looks at
    Plans          \* records [crashes, faults, open]: what may go wrong in one
                   \* behaviour, and the orders that are open when it begins

\* "settle": settling a trade; "terminal": executing a terminal event;
\* "record": recording one of these failures; "mark": marking a processed row;
\* "resolve": closing a failure record after its retry succeeded; "flush": the
\* answer to the outbox commit is lost.
Fault == {"settle", "terminal", "record", "mark", "resolve", "flush"}

ASSUME PlansAssumption ==
    \A p \in Plans : p.crashes \in Nat /\ p.faults \subseteq Fault /\ p.open \subseteq Orders
ASSUME RetryAssumption == MaxRetryCount \in Nat \ {0} /\ ScanLimit \in Nat \ {0}
ASSUME OrdersAssumption ==
    /\ IsFiniteSet(Orders)
    /\ \A o \in Orders : /\ o.side \in {"BUY", "SELL"} /\ o.type \in {"LIMIT", "MARKET"}
                         /\ o.amount \in Nat \ {0}
    /\ \A o, p \in Orders : o.id = p.id => o = p

VARIABLES
    \* In the database.
    outbox,             \* trade_outbox_events, in id order
    settled,            \* the trades table: outbox ids of the settled trades
    filled,             \* orders.filled_amount
    orderStatus,        \* orders.status; "OPEN" is PENDING or PARTIAL
    hold,               \* the locked balance of each order
    failedSettlements,  \* per outbox id of a trade: status, retry_count, category,
                        \* and its place in the order of occurred_at
    failedTerminals,    \* per order: its completion or cancellation record
    \* In memory.
    phase,              \* where the boot sequence is
    crashes,
    replayed,           \* the last row the replayer has looked at
    finalized,          \* the market orders the finalizer has looked at
    book,               \* the lots each order still has in the engine
    sweeping,           \* the market orders the engine has not finished
    execution,          \* events emitted and not yet committed
    writerStuck,        \* the outbox writer repeats an insert that cannot succeed
    pipeline,           \* rows forwarded and not yet processed
    unsafeOrders,       \* the quarantine of the dispatcher
    plan,               \* never changes
    \* History.
    openAtBoot          \* the orders with an open failure record when a replay ended

dbVars == <<outbox, settled, filled, orderStatus, hold, failedSettlements, failedTerminals>>
engineVars == <<book, sweeping, execution, writerStuck>>
bootVars == <<phase, crashes, replayed, finalized, plan, openAtBoot>>
vars == <<dbVars, bootVars, engineVars, pipeline, unsafeOrders>>

MaxCrashes == plan.crashes
Faults == plan.faults

Rows == DOMAIN outbox
IsTrade(i) == outbox[i].kind = "TRADE"
OrdersOf(i) == outbox[i].orders
Owner(i) == CHOOSE o \in OrdersOf(i) : TRUE

NoRecord == [status |-> "NONE", retries |-> 0, transient |-> FALSE, at |-> 0]

Trades(o) == {i \in Rows : IsTrade(i) /\ o \in OrdersOf(i)}
Limits == {o \in Orders : o.type = "LIMIT"}
Markets == {o \in Orders : o.type = "MARKET"}

-----------------------------------------------------------------------------
(* The engine and the outbox writer.                                       *)

EngineRuns == phase = "live"

Emit(event) == execution' = Append(execution, event)

\* A trade between two orders with lots left.
MatchOrders(b, s) ==
    /\ EngineRuns
    /\ b.side = "BUY" /\ s.side = "SELL"
    /\ book[b] > 0 /\ book[s] > 0
    /\ book' = [book EXCEPT ![b] = @ - 1, ![s] = @ - 1]
    /\ Emit([kind |-> "TRADE", orders |-> {b, s}, filled |-> 0])
    /\ UNCHANGED <<sweeping, writerStuck, dbVars, bootVars, pipeline, unsafeOrders>>

\* A market order is filled or finds no more counterparties; what is left of it
\* is dropped.
FinishMarketOrder(o) ==
    /\ EngineRuns
    /\ o \in sweeping
    /\ sweeping' = sweeping \ {o}
    /\ book' = [book EXCEPT ![o] = 0]
    /\ Emit([kind |-> "DONE", orders |-> {o}, filled |-> o.amount - book[o]])
    /\ UNCHANGED <<writerStuck, dbVars, bootVars, pipeline, unsafeOrders>>

\* A resting order is removed from the book.
CancelRestingOrder(o) ==
    /\ EngineRuns
    /\ o \in Limits
    /\ book[o] > 0
    /\ book' = [book EXCEPT ![o] = 0]
    /\ Emit([kind |-> "CANCEL", orders |-> {o}, filled |-> 0])
    /\ UNCHANGED <<sweeping, writerStuck, dbVars, bootVars, pipeline, unsafeOrders>>

\* The writer commits what it has collected in one transaction and forwards it.
\* When the commit takes effect and its answer is lost, it inserts the same rows
\* again, with the ids they were given, and fails on the primary key for ever:
\* they are in the table, are not forwarded, and nothing is committed after them.
FlushAndForward ==
    /\ execution # << >>
    /\ ~writerStuck
    /\ LET row(event) == [kind |-> event.kind, orders |-> event.orders,
                          filled |-> event.filled, status |-> "PENDING"]
           rows == [n \in DOMAIN execution |-> row(execution[n])]
       IN  outbox' = outbox \o rows
    /\ \/ /\ pipeline' = pipeline \cup (Len(outbox) + 1 .. Len(outbox) + Len(execution))
          /\ UNCHANGED writerStuck
       \/ "flush" \in Faults /\ writerStuck' = TRUE /\ UNCHANGED pipeline
    /\ failedSettlements' =
           failedSettlements \o [n \in DOMAIN execution |-> NoRecord]
    /\ execution' = << >>
    /\ UNCHANGED <<settled, filled, orderStatus, hold, failedTerminals, bootVars,
                   book, sweeping, unsafeOrders>>

-----------------------------------------------------------------------------
(* The transactions.                                                       *)

accountVars == <<settled, filled, orderStatus, hold>>

\* Mutant: neither the status nor the amount of an order is looked at.
SettleableAlways(i) == OrdersOf(i) # {}

\* SettleTrade finds both orders open with room for the trade.
Settleable(i) == \A o \in OrdersOf(i) : orderStatus[o] = "OPEN" /\ filled[o] < o.amount

\* Mutant: no look at the trades table first.
SettleAgain(i) ==
    /\ Settleable(i)
    /\ settled' = settled \cup {i}
    /\ filled' = [o \in Orders |-> IF o \in OrdersOf(i) THEN filled[o] + 1 ELSE filled[o]]
    /\ hold' = [o \in Orders |-> IF o \in OrdersOf(i) THEN hold[o] - 1 ELSE hold[o]]
    /\ orderStatus' = [o \in Orders |->
           IF o \in OrdersOf(i) /\ filled[o] + 1 = o.amount THEN "FILLED" ELSE orderStatus[o]]

\* SettleTrade commits; a trade that is settled already changes nothing.
SettleTrade(i) ==
    \/ i \in settled /\ UNCHANGED accountVars
    \/ /\ i \notin settled
       /\ Settleable(i)
       /\ settled' = settled \cup {i}
       /\ filled' = [o \in Orders |-> IF o \in OrdersOf(i) THEN filled[o] + 1 ELSE filled[o]]
       /\ hold' = [o \in Orders |-> IF o \in OrdersOf(i) THEN hold[o] - 1 ELSE hold[o]]
       /\ orderStatus' = [o \in Orders |->
              IF o \in OrdersOf(i) /\ filled[o] + 1 = o.amount THEN "FILLED" ELSE orderStatus[o]]

\* Whether the error a settlement may return has one of the SQLSTATEs that
\* ClassifyFailedSettlement holds for transient. A fault may be of either kind (a
\* lost connection has no SQLSTATE); an order with no room is none of them.
SettleErrors(i) ==
    {transient \in BOOLEAN :
        "settle" \in Faults \/ (~transient /\ i \notin settled /\ ~Settleable(i))}

SettleFails(i) == SettleErrors(i) # {}

\* ProcessOrderCancellation or CompleteMarketOrder commits: nothing happens to
\* an order that is closed already, and a market order's completion needs the
\* fills the engine reported.
Completable(o, reported) == orderStatus[o] # "OPEN" \/ filled[o] >= reported

CompleteOrder(o, reported) ==
    /\ Completable(o, reported)
    /\ IF orderStatus[o] = "OPEN"
       THEN /\ hold' = [hold EXCEPT ![o] = 0]
            /\ orderStatus' = [orderStatus EXCEPT ![o] = "CANCELLED"]
       ELSE UNCHANGED <<hold, orderStatus>>
    /\ UNCHANGED <<settled, filled>>

CompleteFails(o, reported) == "terminal" \in Faults \/ ~Completable(o, reported)

HasOpenFailureForOrder(o) == \E i \in Trades(o) : failedSettlements[i].status = "OPEN"

\* retry_count, which matters only up to the limit.
Attempts(n) == Min({n, MaxRetryCount})

\* The records there are, and with that occurred_at of the next one.
Recorded == {i \in Rows : failedSettlements[i].status # "NONE"}
RecordedTerminals == {o \in Orders : failedTerminals[o].status # "NONE"}

\* RecordFailure inserts a record or opens the existing one again, with the
\* message of the latest error and its first occurred_at.
RecordFailure(i) ==
    \E error \in SettleErrors(i) :
        failedSettlements' = [failedSettlements EXCEPT ![i] =
            [status |-> "OPEN", retries |-> Attempts(@.retries + 1), transient |-> error,
             at |-> IF @.status = "NONE" THEN Cardinality(Recorded) ELSE @.at]]

\* EnsureDeferred inserts a record unless there is one.
EnsureDeferred(o, reported) ==
    failedTerminals' = [failedTerminals EXCEPT ![o] =
        IF @.status = "NONE"
        THEN [status |-> "OPEN", retries |-> 0, filled |-> reported,
              at |-> Cardinality(RecordedTerminals)]
        ELSE @]

\* The same for a terminal event.
RecordTerminalFailure(o, reported) ==
    failedTerminals' = [failedTerminals EXCEPT ![o] =
        [status |-> "OPEN", retries |-> Attempts(@.retries + 1),
         filled |-> IF @.status = "NONE" THEN reported ELSE @.filled,
         at |-> IF @.status = "NONE" THEN Cardinality(RecordedTerminals) ELSE @.at]]

Marked(i) == [outbox EXCEPT ![i].status = "PROCESSED"]

\* MarkProcessed, a transaction of its own: when it fails the row stays PENDING.
MarkProcessed(i) ==
    \/ outbox' = Marked(i)
    \/ "mark" \in Faults /\ UNCHANGED outbox

-----------------------------------------------------------------------------
(* What becomes of one row; the same code runs live and in the replay.     *)

\* A trade is settled.
RowSettled(i) ==
    /\ IsTrade(i)
    /\ SettleTrade(i)
    /\ UNCHANGED <<failedSettlements, failedTerminals>>

\* A trade cannot be settled, which is recorded.
RowFailed(i) ==
    /\ IsTrade(i)
    /\ RecordFailure(i)
    /\ UNCHANGED <<accountVars, failedTerminals>>

\* A terminal event is executed.
RowExecuted(i) ==
    /\ ~IsTrade(i)
    /\ ~HasOpenFailureForOrder(Owner(i))
    /\ CompleteOrder(Owner(i), outbox[i].filled)
    /\ UNCHANGED <<failedSettlements, failedTerminals>>

\* A terminal event is put off because a trade of its order has failed, or
\* because asking for one failed.
RowDeferred(i) ==
    /\ ~IsTrade(i)
    /\ HasOpenFailureForOrder(Owner(i)) \/ "terminal" \in Faults
    /\ EnsureDeferred(Owner(i), outbox[i].filled)
    /\ UNCHANGED <<accountVars, failedSettlements>>

\* A terminal event is tried and fails, which is recorded.
RowPutOff(i) ==
    /\ ~IsTrade(i)
    /\ ~HasOpenFailureForOrder(Owner(i))
    /\ CompleteFails(Owner(i), outbox[i].filled)
    /\ RecordTerminalFailure(Owner(i), outbox[i].filled)
    /\ UNCHANGED <<accountVars, failedSettlements>>

\* Neither the event nor its failure reaches the database.
RowCanBeLost(i) ==
    /\ "record" \in Faults
    /\ IF IsTrade(i) THEN SettleFails(i)
       ELSE \/ HasOpenFailureForOrder(Owner(i))
            \/ CompleteFails(Owner(i), outbox[i].filled)

-----------------------------------------------------------------------------
(* The live pipeline.                                                      *)

\* The dispatcher hands a terminal to a worker when no batch of its order is
\* outstanding.
Fence(i) ==
    IsTrade(i) \/ \A j \in pipeline : j < i => OrdersOf(i) \cap OrdersOf(j) = {}

Leaves(i) == pipeline' = pipeline \ {i}

\* A settled trade's row is marked in the settling transaction, every other row
\* after it.
ProcessRow(i) ==
    /\ i \in pipeline
    /\ Fence(i)
    /\ OrdersOf(i) \cap unsafeOrders = {} \/ IsTrade(i)
    /\ \/ RowSettled(i) /\ outbox' = Marked(i)
       \/ (RowFailed(i) \/ RowExecuted(i) \/ RowDeferred(i) \/ RowPutOff(i)) /\ MarkProcessed(i)
    /\ Leaves(i)
    /\ UNCHANGED <<bootVars, engineVars, unsafeOrders>>

\* The row stays PENDING for the next boot; an unrecorded trade bars its
\* orders' terminals.
LoseRow(i) ==
    /\ i \in pipeline
    /\ Fence(i)
    /\ OrdersOf(i) \cap unsafeOrders = {} \/ IsTrade(i)
    /\ RowCanBeLost(i)
    /\ Leaves(i)
    /\ unsafeOrders' = IF IsTrade(i) THEN unsafeOrders \cup OrdersOf(i) ELSE unsafeOrders
    /\ UNCHANGED <<dbVars, bootVars, engineVars>>

\* The dispatcher drops a terminal of a quarantined order.
DropRow(i) ==
    /\ i \in pipeline
    /\ ~IsTrade(i)
    /\ Fence(i)
    /\ Owner(i) \in unsafeOrders
    /\ Leaves(i)
    /\ unsafeOrders' = unsafeOrders \ {Owner(i)}
    /\ UNCHANGED <<dbVars, bootVars, engineVars>>

-----------------------------------------------------------------------------
(* The retry worker, started before the bootstrap.                         *)

RetryWorkerRuns == phase \in {"bootstrap", "live"}

\* The open records of the same table that ListOpenFailures puts before a
\* record: failed_settlements is one table, and the completions of market orders
\* and the cancellations of limit orders have one each.
SettlementsBefore(i) ==
    {j \in Rows : /\ failedSettlements[j].status = "OPEN"
                  /\ failedSettlements[j].at < failedSettlements[i].at}
TerminalsBefore(o) ==
    {p \in Orders : /\ p.type = o.type
                    /\ failedTerminals[p].status = "OPEN"
                    /\ failedTerminals[p].at < failedTerminals[o].at}

\* ListOpenFailures returns the first open records of the table, and those among
\* them that have attempts left are retried.
Retried(record, before) ==
    /\ record.status = "OPEN"
    /\ Cardinality(before) < ScanLimit
    /\ record.retries < MaxRetryCount

\* ResolveFailure, a transaction of its own.
ResolvedOr(old) == {"RESOLVED"} \cup (IF "resolve" \in Faults THEN {old} ELSE {})

RetryUnchanged == <<outbox, bootVars, engineVars, pipeline, unsafeOrders>>

\* Mutant: the record is resolved whatever the settlement returned.
ResolveUnsettled(i) ==
    /\ RetryWorkerRuns
    /\ Retried(failedSettlements[i], SettlementsBefore(i)) /\ failedSettlements[i].transient
    /\ SettleTrade(i) \/ (SettleFails(i) /\ UNCHANGED accountVars)
    /\ failedSettlements' = [failedSettlements EXCEPT ![i].status = "RESOLVED"]
    /\ UNCHANGED <<failedTerminals, RetryUnchanged>>

\* retryFailedSettlements for one record.
RetryFailedSettlement(i) ==
    /\ RetryWorkerRuns
    /\ Retried(failedSettlements[i], SettlementsBefore(i)) /\ failedSettlements[i].transient
    /\ \/ /\ SettleTrade(i)
          /\ \E result \in ResolvedOr("OPEN") :
                 failedSettlements' = [failedSettlements EXCEPT ![i].status = result]
       \/ RecordFailure(i) /\ UNCHANGED accountVars
    /\ UNCHANGED <<failedTerminals, RetryUnchanged>>

RetryTerminal(o) ==
    \/ /\ CompleteOrder(o, failedTerminals[o].filled)
       /\ \E result \in ResolvedOr("OPEN") :
              failedTerminals' = [failedTerminals EXCEPT ![o].status = result]
    \/ /\ CompleteFails(o, failedTerminals[o].filled)
       /\ RecordTerminalFailure(o, failedTerminals[o].filled)
       /\ UNCHANGED accountVars

\* Mutant: the retry does not look at the order's failed settlements.
RetryUnguarded(o) ==
    /\ RetryWorkerRuns
    /\ Retried(failedTerminals[o], TerminalsBefore(o))
    /\ RetryTerminal(o)
    /\ UNCHANGED <<failedSettlements, RetryUnchanged>>

\* retryFailedCompletions for a market order, retryFailedCancellations for a
\* limit order; a record whose order has a failed settlement is passed over.
RetryFailedTerminal(o) ==
    /\ RetryWorkerRuns
    /\ Retried(failedTerminals[o], TerminalsBefore(o))
    /\ ~HasOpenFailureForOrder(o)
    /\ RetryTerminal(o)
    /\ UNCHANGED <<failedSettlements, RetryUnchanged>>

-----------------------------------------------------------------------------
(* Crash and boot.                                                         *)

\* Everything in memory is gone: the book, the events not yet committed, what
\* the writer is trying to insert, the pipeline and its quarantine.
Crash ==
    /\ crashes < MaxCrashes
    /\ crashes' = crashes + 1
    /\ phase' = "replay"
    /\ replayed' = 0
    /\ finalized' = {}
    /\ book' = [o \in Orders |-> 0]
    /\ sweeping' = {}
    /\ execution' = << >>
    /\ writerStuck' = FALSE
    /\ pipeline' = {}
    /\ unsafeOrders' = {}
    /\ UNCHANGED <<dbVars, plan, openAtBoot>>

\* Mutant: the next page starts one row too far.
NextPendingSkipping == {i \in Rows : i > replayed + 1 /\ outbox[i].status = "PENDING"}

NextPending == {i \in Rows : i > replayed /\ outbox[i].status = "PENDING"}

\* The replayer processes the next PENDING row and marks it itself.
ReplayRow ==
    /\ phase = "replay"
    /\ NextPending # {}
    /\ LET i == Min(NextPending)
       IN  /\ RowSettled(i) \/ RowFailed(i) \/ RowExecuted(i) \/ RowDeferred(i) \/ RowPutOff(i)
           /\ MarkProcessed(i)
           /\ replayed' = i
    /\ UNCHANGED <<phase, crashes, finalized, plan, openAtBoot, engineVars, pipeline, unsafeOrders>>

\* A row that cannot be handled durably aborts the boot, and the next boot
\* starts over.
AbortReplay ==
    /\ phase = "replay"
    /\ NextPending # {}
    /\ RowCanBeLost(Min(NextPending))
    /\ replayed' = 0
    /\ UNCHANGED <<dbVars, phase, crashes, finalized, plan, openAtBoot, engineVars, pipeline,
                   unsafeOrders>>

ReplayDone ==
    /\ phase = "replay"
    /\ NextPending = {}
    /\ phase' = "finalize"
    /\ openAtBoot' = openAtBoot \cup
           {o \in Orders : HasOpenFailureForOrder(o) \/ failedTerminals[o].status = "OPEN"}
    /\ UNCHANGED <<dbVars, crashes, replayed, finalized, plan, engineVars, pipeline,
                   unsafeOrders>>

\* FindOpenMarketOrders.
StaleMarketOrders == {o \in Markets \ finalized : orderStatus[o] = "OPEN"}

\* The finalizer completes a market order with the fills the database has.
FinalizeOrder(o) ==
    /\ phase = "finalize"
    /\ o \in StaleMarketOrders
    /\ \/ CompleteOrder(o, filled[o]) /\ UNCHANGED failedTerminals
       \/ /\ CompleteFails(o, filled[o])
          /\ RecordTerminalFailure(o, filled[o]) \/ ("record" \in Faults /\ UNCHANGED failedTerminals)
          /\ UNCHANGED accountVars
    /\ finalized' = finalized \cup {o}
    /\ UNCHANGED <<outbox, failedSettlements, phase, crashes, replayed, plan, openAtBoot,
                   engineVars, pipeline, unsafeOrders>>

FinalizeDone ==
    /\ phase = "finalize"
    /\ StaleMarketOrders = {}
    /\ phase' = "bootstrap"
    /\ UNCHANGED <<dbVars, crashes, replayed, finalized, plan, openAtBoot, engineVars, pipeline,
                   unsafeOrders>>

\* Mutant: the whole amount goes back into the book.
RestoredWhole(o) == IF o \in Limits /\ orderStatus[o] = "OPEN" THEN o.amount ELSE 0

\* FindOpenOrdersForBootstrap and matchingOrderFromModelOrder.
Restored(o) == IF o \in Limits /\ orderStatus[o] = "OPEN" THEN o.amount - filled[o] ELSE 0

BootstrapOpenOrders ==
    /\ phase = "bootstrap"
    /\ book' = [o \in Orders |-> Restored(o)]
    /\ phase' = "live"
    /\ UNCHANGED <<dbVars, crashes, replayed, finalized, plan, openAtBoot, sweeping, execution,
                   writerStuck, pipeline, unsafeOrders>>

-----------------------------------------------------------------------------
NoTerminalRecord == [status |-> "NONE", retries |-> 0, filled |-> 0, at |-> 0]

\* Some orders have been accepted and are in the engine, the others are closed.
Init ==
    /\ outbox = << >> /\ settled = {} /\ failedSettlements = << >>
    /\ filled = [o \in Orders |-> 0]
    /\ plan \in Plans
    /\ orderStatus = [o \in Orders |-> IF o \in plan.open THEN "OPEN" ELSE "CANCELLED"]
    /\ hold = [o \in Orders |-> IF o \in plan.open THEN o.amount ELSE 0]
    /\ failedTerminals = [o \in Orders |-> NoTerminalRecord]
    /\ phase = "live" /\ crashes = 0 /\ replayed = 0 /\ finalized = {} /\ openAtBoot = {}
    /\ book = hold
    /\ sweeping = Markets \cap plan.open
    /\ execution = << >> /\ writerStuck = FALSE /\ pipeline = {} /\ unsafeOrders = {}

Engine ==
    \/ \E b, s \in Orders : MatchOrders(b, s)
    \/ \E o \in Orders : FinishMarketOrder(o) \/ CancelRestingOrder(o)

Pipeline == \E i \in Rows : ProcessRow(i) \/ LoseRow(i) \/ DropRow(i)

RetryWorker ==
    \/ \E i \in Rows : RetryFailedSettlement(i)
    \/ \E o \in Orders : RetryFailedTerminal(o)

Boot ==
    \/ ReplayRow \/ AbortReplay \/ ReplayDone
    \/ (\E o \in Orders : FinalizeOrder(o)) \/ FinalizeDone
    \/ BootstrapOpenOrders

Next == Engine \/ FlushAndForward \/ Pipeline \/ RetryWorker \/ Crash \/ Boot

Spec == Init /\ [][Next]_vars

\* A row is replayed and marked, the mark included.
ReplayMarksRow == ReplayRow /\ outbox' # outbox

\* Every goroutine goes on; the engine need not trade or cancel anything more.
\* A boot that fails is tried again until a row gets through.
FairSpec ==
    /\ Spec
    /\ WF_vars(FlushAndForward) /\ WF_vars(Pipeline) /\ WF_vars(RetryWorker) /\ WF_vars(Boot)
    /\ SF_vars(ReplayMarksRow)

-----------------------------------------------------------------------------
(* Properties.                                                             *)

\* Type invariant. Nothing is in the engine or the pipeline before the boot
\* sequence is through, and no order is filled beyond its amount.
TypeOK ==
    /\ \A i \in Rows : /\ outbox[i].kind \in {"TRADE", "DONE", "CANCEL"}
                       /\ outbox[i].status \in {"PENDING", "PROCESSED"}
    /\ settled \subseteq Rows
    /\ \A o \in Orders : filled[o] \in 0 .. o.amount /\ hold[o] \in 0 .. o.amount
    /\ orderStatus \in [Orders -> {"OPEN", "FILLED", "CANCELLED"}]
    /\ failedSettlements \in
           [Rows -> [status: {"NONE", "OPEN", "RESOLVED"}, retries: 0 .. MaxRetryCount,
                     transient: BOOLEAN, at: 0 .. Len(outbox)]]
    /\ \A o \in Orders : /\ failedTerminals[o].status \in {"NONE", "OPEN", "RESOLVED"}
                         /\ failedTerminals[o].retries \in 0 .. MaxRetryCount
    /\ phase \in {"replay", "finalize", "bootstrap", "live"}
    /\ crashes \in 0 .. MaxCrashes /\ replayed \in 0 .. Len(outbox)
    /\ pipeline \subseteq Rows /\ unsafeOrders \subseteq Orders
    /\ openAtBoot \subseteq Orders /\ plan \in Plans
    /\ \A o \in Orders : book[o] \in 0 .. o.amount
    /\ phase # "live" => execution = << >> /\ pipeline = {} /\ sweeping = {} /\ ~writerStuck

\* However often a trade is settled live, replayed and retried, it is applied
\* to its orders exactly once (the idempotency key in SettleTrade).
SettledExactlyOnce == \A o \in Orders : filled[o] = Cardinality(Trades(o) \cap settled)

\* A row that is marked PROCESSED has taken effect or is owned by an open
\* failure record: no committed event silently disappears.
NothingLost ==
    \A i \in Rows : outbox[i].status = "PROCESSED" =>
        IF IsTrade(i) THEN i \in settled \/ failedSettlements[i].status = "OPEN"
        ELSE \/ orderStatus[Owner(i)] # "OPEN"
             \/ failedTerminals[Owner(i)].status = "OPEN"

HoldCovers(o) == Cardinality(Trades(o) \ settled) <= hold[o]

\* The hold of an order covers every trade the engine has made of it and the
\* database does not have yet: "a hold may be released late, but never early"
\* (docs/superpowers/specs/2026-07-30-per-order-fence-and-terminal-durable-
\* defer-design.md).
HoldCoversTrades == \A o \in Orders : HoldCovers(o)

\* The same for every order that no restart has found with an open failure
\* record, whatever fails and wherever the process crashes.
HoldCoversTradesOfClean == \A o \in Orders \ openAtBoot : HoldCovers(o)

\* The lots of an order that are in the book, in flight or traded do not exceed
\* its amount, and none are in the book once its cancellation is committed.
BookIsWhatIsLeft(o) ==
    LET inFlight == {n \in DOMAIN execution :
                        execution[n].kind = "TRADE" /\ o \in execution[n].orders}
    IN  /\ book[o] + Cardinality(inFlight) + Cardinality(Trades(o)) <= o.amount
        /\ \A i \in Rows : outbox[i].kind = "CANCEL" /\ Owner(i) = o => book[o] = 0

\* What the bootstrap puts back into the book is what is neither traded nor
\* cancelled: "a crash before the commit rolls the match back, after it the
\* replay completes it" (docs/superpowers/specs/2026-07-12-trade-outbox-
\* graceful-shutdown-design.md).
CommittedStaysCommitted == \A o \in Orders : BookIsWhatIsLeft(o)

\* The same for every order that no restart has found with an open failure
\* record.
CommittedStaysCommittedOfClean == \A o \in Orders \ openAtBoot : BookIsWhatIsLeft(o)

MaxRows == MapThenSumSet(LAMBDA o : o.amount + 1, Orders)

TakenEffect(i) ==
    IF IsTrade(i) THEN i \in settled
    ELSE orderStatus[Owner(i)] # "OPEN" /\ hold[Owner(i)] = 0

\* A row committed since the last replay that neither the pipeline nor a failure
\* record has: the writer could not forward it, or not even its failure could be
\* recorded, or an order of it is quarantined. The next boot replays it.
LeftToBoot(i) ==
    /\ {"record", "flush"} \cap Faults # {}
    /\ phase = "live"
    /\ i \in Rows \ pipeline
    /\ i > replayed
    /\ outbox[i].status = "PENDING"
    /\ IF IsTrade(i) THEN failedSettlements[i].status = "NONE"
       ELSE failedTerminals[Owner(i)].status = "NONE"

\* The worker passes over a record that has used up its attempts, over one of a
\* trade whose error is not transient, and over one of a terminal event whose
\* order has a failed trade.
SettlementPassed(i) ==
    failedSettlements[i].retries = MaxRetryCount \/ ~failedSettlements[i].transient
TerminalPassed(o) ==
    failedTerminals[o].retries = MaxRetryCount \/ HasOpenFailureForOrder(o)

\* The record of the row has been given up, or as many records as one scan
\* returns come before it and are passed over.
LeftToOperator(i) ==
    IF IsTrade(i)
    THEN /\ failedSettlements[i].status = "OPEN"
         /\ \/ SettlementPassed(i)
            \/ Cardinality({j \in SettlementsBefore(i) : SettlementPassed(j)}) >= ScanLimit
    ELSE /\ failedTerminals[Owner(i)].status = "OPEN"
         /\ \/ failedTerminals[Owner(i)].retries = MaxRetryCount
            \/ Cardinality({p \in TerminalsBefore(Owner(i)) : TerminalPassed(p)}) >= ScanLimit

\* The row, or a trade that bars its terminal event, is out of reach of the
\* pipeline and the worker.
OutOfReach(i) ==
    \E j \in {i} \cup (IF IsTrade(i) THEN {} ELSE Trades(Owner(i))) :
        LeftToBoot(j) \/ LeftToOperator(j)

\* Every committed trade is settled and every committed terminal event releases
\* its hold in the end, by the pipeline, the replay or the retry worker, unless
\* from some point on the row, or for a terminal event a trade of its order, is
\* left to the next boot or to the operator. Without lost answers and unrecorded
\* failures nothing is left to a boot, whatever crashes.
EventsTakeEffect ==
    \A i \in 1 .. MaxRows :
        []<>(i \in Rows => TakenEffect(i)) \/ <>[](i \in Rows /\ OutOfReach(i))
=============================================================================
