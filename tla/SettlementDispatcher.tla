------------------------ MODULE SettlementDispatcher ------------------------
(***************************************************************************)
(* One partition of the settlement pipeline: the dispatcher goroutine and  *)
(* its per-order fence (src/cmd/settlement_pipeline.go and                 *)
(* settlement_dependency.go), the worker pool, and what a worker does with *)
(* a batch of trades or with a terminal event (settleTradeBatchWithFallback*)
(* and processSingleOutboxEvent in src/cmd/main.go).                       *)
(*                                                                         *)
(* Events is what the outbox writer has committed for this partition, in   *)
(* outbox order; an event is named by its outbox id, its index. A terminal *)
(* event (MarketOrderDone, OrderCancelled) releases what is left of its    *)
(* order's hold, so it must not run before the order's trades are settled. *)
(* Workers run batches in parallel and out of order; the dispatcher holds  *)
(* a terminal back until no batch of its order is outstanding, and         *)
(* broadcasts settled trades in dispatch order.                            *)
(*                                                                         *)
(* The pool is shared by all partitions. Jobs of other partitions only     *)
(* delay this one's, and are left out.                                     *)
(***************************************************************************)
EXTENDS SequencesExt

CONSTANTS
    Events,          \* the sequence of committed events
    QueueCap,        \* settlementWorkerQueueSize
    MaxBatch,        \* settlementBatchMaxSize
    Concurrency,     \* workers, and cap(jobs)
    RecordMayFail,   \* whether recording a failure can itself fail
    None             \* a nil pointer

Ids == DOMAIN Events
IsTrade(i) == Events[i].kind = "TRADE"
OrdersOf(i) == Events[i].orders
OrderIDs == UNION {OrdersOf(i) : i \in Ids}
EarlierTrades(i) == {j \in Ids : j < i /\ IsTrade(j) /\ OrdersOf(j) \cap OrdersOf(i) # {}}

\* The engine's contract: a trade has a buy and a sell order, and an order's
\* terminal event is its last event.
ASSUME EventsAssumption ==
    \A i \in Ids :
        /\ IF IsTrade(i) THEN Cardinality(OrdersOf(i)) = 2
                         ELSE Cardinality(OrdersOf(i)) = 1
        /\ ~IsTrade(i) => \A j \in Ids : j > i => OrdersOf(i) \cap OrdersOf(j) = {}

ASSUME SizesAssumption ==
    /\ QueueCap \in Nat \ {0}
    /\ MaxBatch \in Nat \ {0}
    /\ Concurrency \in Nat \ {0}
    /\ RecordMayFail \in BOOLEAN

VARIABLES
    \* The partition queue.
    forwarded,       \* how many events the outbox writer has forwarded
    queue,           \* the queue channel
    closed,          \* the writer has closed it
    \* The dispatcher goroutine.
    pc,              \* its next step
    queueOpen,       \* it has not yet seen the close
    carry,           \* an event taken from the queue and not yet looked at
    waiting,         \* consumed terminals, in arrival order
    readyJob,        \* the job prepared for dispatch
    nextJobID, nextSeq, nextBroadcast,
    pending,         \* results waiting for their turn to be broadcast, by seq
    \* Its dependencyTracker.
    inFlight,        \* per order, the batches not yet retired
    dispatched,      \* the orders touched by each outstanding job
    unsafeOrders,    \* orders whose terminal must not run
    \* The pool.
    jobs,            \* the jobs channel
    running,         \* the jobs the workers are executing
    completions,     \* the completions channel
    \* What is in the database and what the clients saw.
    status,          \* per event
    broadcasts,      \* the trades broadcast, in order
    \* History.
    unrecorded       \* the events whose failure could not be recorded

queueVars == <<forwarded, queue, closed>>
trackerVars == <<inFlight, dispatched, unsafeOrders>>
seqVars == <<nextJobID, nextSeq>>
broadcastVars == <<nextBroadcast, pending, broadcasts>>
poolVars == <<running, completions, status, unrecorded>>
vars == <<queueVars, pc, queueOpen, carry, waiting, readyJob, seqVars,
          broadcastVars, trackerVars, jobs, poolVars>>

-----------------------------------------------------------------------------
(* The dependency tracker.                                                 *)

outstanding == Cardinality(DOMAIN dispatched)

ready(i) == \A o \in OrdersOf(i) : inFlight[o] = 0

quarantined(i) == OrdersOf(i) \cap unsafeOrders # {}

touchedOrderIDs(batch) == UNION {OrdersOf(i) : i \in ToSet(batch)}

\* Mutant: an order counts once for each of its trades in the batch.
registerPerTrade(job) ==
    LET trades(o) == IF job.kind = "TRADE" THEN {i \in ToSet(job.batch) : o \in OrdersOf(i)}
                                           ELSE {}
    IN  /\ dispatched' = dispatched @@ (job.id :> {o \in OrderIDs : trades(o) # {}})
        /\ inFlight' = [o \in OrderIDs |-> inFlight[o] + Cardinality(trades(o))]
        /\ UNCHANGED unsafeOrders

register(job) ==
    LET orders == IF job.kind = "TRADE" THEN touchedOrderIDs(job.batch) ELSE {}
    IN  /\ dispatched' = dispatched @@ (job.id :> orders)
        /\ inFlight' = [o \in OrderIDs |->
                           IF o \in orders THEN inFlight[o] + 1 ELSE inFlight[o]]
        /\ UNCHANGED unsafeOrders

\* Mutant: a retired batch satisfies its orders' terminals whatever became of
\* its trades.
retireAsDurable(result) ==
    LET orders == dispatched[result.id]
    IN  /\ dispatched' = Restrict(dispatched, DOMAIN dispatched \ {result.id})
        /\ inFlight' = [o \in OrderIDs |->
                           IF o \in orders THEN Max({inFlight[o] - 1, 0}) ELSE inFlight[o]]
        /\ UNCHANGED unsafeOrders

retire(result) ==
    LET orders == dispatched[result.id]
    IN  /\ unsafeOrders' = unsafeOrders \cup result.undurable
        /\ dispatched' = Restrict(dispatched, DOMAIN dispatched \ {result.id})
        /\ inFlight' = [o \in OrderIDs |->
                           IF o \in orders THEN Max({inFlight[o] - 1, 0}) ELSE inFlight[o]]

-----------------------------------------------------------------------------
(* The outbox writer's end of the queue.                                   *)

Forward ==
    /\ forwarded < Len(Events)
    /\ Len(queue) < QueueCap
    /\ forwarded' = forwarded + 1
    /\ queue' = Append(queue, forwarded + 1)
    /\ UNCHANGED <<closed, pc, queueOpen, carry, waiting, readyJob, seqVars,
                   broadcastVars, trackerVars, jobs, poolVars>>

\* The writer returns once the engine has closed its channel: after the last
\* event.
CloseQueue ==
    /\ forwarded = Len(Events)
    /\ ~closed
    /\ closed' = TRUE
    /\ UNCHANGED <<forwarded, queue, pc, queueOpen, carry, waiting, readyJob,
                   seqVars, broadcastVars, trackerVars, jobs, poolVars>>

-----------------------------------------------------------------------------
(* The dispatcher loop. Each turn first looks for a terminal that may run  *)
(* (pc = "terminal"), then prepares a batch (pc = "batch"), then blocks    *)
(* until it can hand over a job, retire one or take an event (pc =         *)
(* "select").                                                              *)

MaxOutstanding == 2 * Concurrency

HasRoom == readyJob = None /\ outstanding < MaxOutstanding

ReadyTerminals == {n \in DOMAIN waiting : ready(waiting[n])}

TerminalJob(i) == [kind |-> "TERMINAL", id |-> nextJobID, seq |-> 0, batch |-> <<i>>]
TradeJob(b) == [kind |-> "TRADE", id |-> nextJobID, seq |-> nextSeq, batch |-> b]

\* takeReadyTerminal finds a terminal that may run.
TakeReadyTerminal ==
    /\ pc = "terminal"
    /\ HasRoom
    /\ ReadyTerminals # {}
    /\ LET n == Min(ReadyTerminals)
       IN  /\ ~quarantined(waiting[n])
           /\ waiting' = RemoveAt(waiting, n)
           /\ readyJob' = TerminalJob(waiting[n])
    /\ nextJobID' = nextJobID + 1
    /\ pc' = "batch"
    /\ UNCHANGED <<queueVars, queueOpen, carry, nextSeq, broadcastVars,
                   trackerVars, jobs, poolVars>>

\* takeReadyTerminal finds a terminal of a quarantined order first: it drops
\* that one and reports that there is none.
DropQuarantinedTerminal ==
    /\ pc = "terminal"
    /\ HasRoom
    /\ ReadyTerminals # {}
    /\ LET n == Min(ReadyTerminals)
       IN  /\ quarantined(waiting[n])
           /\ waiting' = RemoveAt(waiting, n)
           /\ unsafeOrders' = unsafeOrders \ OrdersOf(waiting[n])
    /\ pc' = "batch"
    /\ UNCHANGED <<queueVars, queueOpen, carry, readyJob, seqVars,
                   broadcastVars, inFlight, dispatched, jobs, poolVars>>

NoReadyTerminal ==
    /\ pc = "terminal"
    /\ ~HasRoom \/ ReadyTerminals = {}
    /\ pc' = "batch"
    /\ UNCHANGED <<queueVars, queueOpen, carry, waiting, readyJob, seqVars,
                   broadcastVars, trackerVars, jobs, poolVars>>

\* The event step (2) starts from, and what the queue holds behind it.
HasEvent == carry # None \/ (queueOpen /\ queue # << >>)
FirstEvent == IF carry # None THEN carry ELSE Head(queue)
Behind == IF carry # None THEN queue ELSE Tail(queue)

\* A duplicate of a waiting terminal is dropped.
appendWaiting(i) ==
    IF \E n \in DOMAIN waiting : OrdersOf(waiting[n]) = OrdersOf(i)
    THEN waiting ELSE Append(waiting, i)

ConsumeTerminal ==
    /\ pc = "batch"
    /\ HasRoom
    /\ HasEvent
    /\ ~IsTrade(FirstEvent)
    /\ waiting' = appendWaiting(FirstEvent)
    /\ carry' = None
    /\ queue' = Behind
    /\ pc' = "terminal"
    /\ UNCHANGED <<forwarded, closed, queueOpen, readyJob, seqVars,
                   broadcastVars, trackerVars, jobs, poolVars>>

\* Mutant: one trade too many.
CollectedInclusive(q) ==
    Max({n \in 0 .. Len(q) : n <= MaxBatch /\ \A m \in 1 .. n : IsTrade(q[m])})

\* How many trades collectTradeBatch takes from q before it meets a terminal,
\* the end of q or the size limit.
Collected(q) ==
    Max({n \in 0 .. Len(q) : n < MaxBatch /\ \A m \in 1 .. n : IsTrade(q[m])})

\* collectTradeBatch: below the size limit it receives once more, and gets the
\* terminal that ends the run of trades, or sees the close.
PrepareBatch ==
    /\ pc = "batch"
    /\ HasRoom
    /\ HasEvent
    /\ IsTrade(FirstEvent)
    /\ LET n == Collected(Behind)
           more == n + 1 < MaxBatch
           broken == more /\ n < Len(Behind)
       IN  /\ readyJob' = TradeJob(<<FirstEvent>> \o SubSeq(Behind, 1, n))
           /\ carry' = IF broken THEN Behind[n + 1] ELSE None
           /\ queue' = SubSeq(Behind, IF broken THEN n + 2 ELSE n + 1, Len(Behind))
           /\ queueOpen' = (queueOpen /\ ~(more /\ n = Len(Behind) /\ closed))
    /\ nextJobID' = nextJobID + 1
    /\ nextSeq' = nextSeq + 1
    /\ pc' = "select"
    /\ UNCHANGED <<forwarded, closed, waiting, broadcastVars, trackerVars, jobs,
                   poolVars>>

SeesClose == HasRoom /\ carry = None /\ queueOpen /\ queue = << >> /\ closed

NoBatch ==
    /\ pc = "batch"
    /\ ~HasRoom \/ ~HasEvent
    /\ queueOpen' = (queueOpen /\ ~SeesClose)
    /\ pc' = "select"
    /\ UNCHANGED <<queueVars, carry, waiting, readyJob, seqVars, broadcastVars,
                   trackerVars, jobs, poolVars>>

Dispatch ==
    /\ pc = "select"
    /\ readyJob # None
    /\ Len(jobs) < Concurrency
    /\ jobs' = Append(jobs, readyJob)
    /\ register(readyJob)
    /\ readyJob' = None
    /\ pc' = "terminal"
    /\ UNCHANGED <<queueVars, queueOpen, carry, waiting, seqVars, broadcastVars,
                   poolVars>>

\* Mutant: a result is broadcast as soon as it is in.
flushOnArrival(results) ==
    /\ broadcasts' = broadcasts \o FlattenSeq(SetToSeq({results[s] : s \in DOMAIN results}))
    /\ pending' = << >>
    /\ UNCHANGED nextBroadcast

\* Broadcasts the results whose turn has come and keeps the others.
flushBroadcasts(results) ==
    LET next == Min({s \in nextBroadcast .. nextSeq : s \notin DOMAIN results})
        turns == nextBroadcast .. next - 1
    IN  /\ broadcasts' = broadcasts \o
               FlattenSeq([n \in 1 .. next - nextBroadcast |-> results[nextBroadcast + n - 1]])
        /\ pending' = Restrict(results, DOMAIN results \ turns)
        /\ nextBroadcast' = next

RetireResult ==
    /\ pc = "select"
    /\ completions # << >>
    /\ LET result == Head(completions)
       IN  /\ retire(result)
           /\ IF result.kind = "TRADE"
              THEN flushBroadcasts(pending @@ (result.seq :> result.messages))
              ELSE UNCHANGED broadcastVars
    /\ completions' = Tail(completions)
    /\ pc' = "terminal"
    /\ UNCHANGED <<queueVars, queueOpen, carry, waiting, readyJob, seqVars, jobs,
                   running, status, unrecorded>>

TakesInput == queueOpen /\ carry = None /\ HasRoom

ReceiveEvent ==
    /\ pc = "select"
    /\ TakesInput
    /\ queue # << >>
    /\ carry' = Head(queue)
    /\ queue' = Tail(queue)
    /\ pc' = "terminal"
    /\ UNCHANGED <<forwarded, closed, queueOpen, waiting, readyJob, seqVars,
                   broadcastVars, trackerVars, jobs, poolVars>>

ReceiveClose ==
    /\ pc = "select"
    /\ TakesInput
    /\ queue = << >>
    /\ closed
    /\ queueOpen' = FALSE
    /\ pc' = "terminal"
    /\ UNCHANGED <<queueVars, carry, waiting, readyJob, seqVars, broadcastVars,
                   trackerVars, jobs, poolVars>>

\* Mutant: the jobs still outstanding are forgotten.
ExitOverOutstanding ==
    /\ pc = "select"
    /\ ~queueOpen /\ readyJob = None /\ carry = None /\ waiting = << >>
    /\ pc' = "exited"
    /\ UNCHANGED <<queueVars, queueOpen, carry, waiting, readyJob, seqVars,
                   broadcastVars, trackerVars, jobs, poolVars>>

\* The closing flushBroadcasts finds nothing: every result was flushed when it
\* came in.
Exit ==
    /\ pc = "select"
    /\ ~queueOpen /\ readyJob = None /\ outstanding = 0
    /\ carry = None /\ waiting = << >>
    /\ pc' = "exited"
    /\ UNCHANGED <<queueVars, queueOpen, carry, waiting, readyJob, seqVars,
                   broadcastVars, trackerVars, jobs, poolVars>>

-----------------------------------------------------------------------------
(* The workers. A running job says what its worker does next, which events *)
(* it still has to process, and what its completion will report.           *)

Execution(job, step, rest, undurable, messages) ==
    [job |-> job, step |-> step, rest |-> rest, undurable |-> undurable,
     messages |-> messages]

\* The worker of r goes on as r2.
Becomes(r, r2) == running' = (running \ {r}) \cup {r2}

SetStatus(S, value) == status' = [i \in Ids |-> IF i \in S THEN value ELSE status[i]]

WorkerUnchanged == <<queueVars, pc, queueOpen, carry, waiting, readyJob, seqVars,
                     broadcastVars, trackerVars>>

StartJob ==
    /\ jobs # << >>
    /\ Cardinality(running) < Concurrency
    /\ LET job == Head(jobs)
           step == IF job.kind = "TRADE" THEN "batch" ELSE "guard"
       IN  running' = running \cup {Execution(job, step, job.batch, {}, << >>)}
    /\ jobs' = Tail(jobs)
    /\ UNCHANGED <<WorkerUnchanged, completions, status, unrecorded>>

\* SettleTradeBatch commits.
SettleBatch(r) ==
    /\ r.step = "batch"
    /\ SetStatus(ToSet(r.rest), "SETTLED")
    /\ Becomes(r, Execution(r.job, "done", << >>, {}, r.rest))
    /\ UNCHANGED <<WorkerUnchanged, jobs, completions, unrecorded>>

\* The batch ran into the statement timeout, and all of it is recorded as
\* failed in one transaction.
HandOffBatch(r) ==
    /\ r.step = "batch"
    /\ SetStatus(ToSet(r.rest), "FAILED")
    /\ Becomes(r, Execution(r.job, "done", << >>, {}, << >>))
    /\ UNCHANGED <<WorkerUnchanged, jobs, completions, unrecorded>>

undurableOrderIDsFromTradeBatch(batch) == touchedOrderIDs(batch)

HandOffFails(r) ==
    /\ r.step = "batch"
    /\ RecordMayFail
    /\ Becomes(r, Execution(r.job, "done", << >>,
                            undurableOrderIDsFromTradeBatch(r.rest), << >>))
    /\ unrecorded' = unrecorded \cup ToSet(r.rest)
    /\ UNCHANGED <<WorkerUnchanged, jobs, completions, status>>

\* Any other error: the trades are settled one by one.
FallBack(r) ==
    /\ r.step = "batch"
    /\ Becomes(r, [r EXCEPT !.step = "single"])
    /\ UNCHANGED <<WorkerUnchanged, jobs, completions, status, unrecorded>>

\* processTradeSettlement settles the trade.
SettleSingle(r) ==
    /\ r.step = "single"
    /\ r.rest # << >>
    /\ SetStatus({Head(r.rest)}, "SETTLED")
    /\ Becomes(r, Execution(r.job, "single", Tail(r.rest), r.undurable,
                            Append(r.messages, Head(r.rest))))
    /\ UNCHANGED <<WorkerUnchanged, jobs, completions, unrecorded>>

\* It cannot, and records the failure.
RecordFailure(r) ==
    /\ r.step = "single"
    /\ r.rest # << >>
    /\ SetStatus({Head(r.rest)}, "FAILED")
    /\ Becomes(r, Execution(r.job, "single", Tail(r.rest), r.undurable, r.messages))
    /\ UNCHANGED <<WorkerUnchanged, jobs, completions, unrecorded>>

\* It cannot, and cannot record the failure either: the event stays PENDING in
\* the outbox.
RecordFails(r) ==
    /\ r.step = "single"
    /\ r.rest # << >>
    /\ RecordMayFail
    /\ Becomes(r, Execution(r.job, "single", Tail(r.rest),
                            r.undurable \cup OrdersOf(Head(r.rest)), r.messages))
    /\ unrecorded' = unrecorded \cup {Head(r.rest)}
    /\ UNCHANGED <<WorkerUnchanged, jobs, completions, status>>

\* HasOpenFailureForOrder for the order of a terminal.
dependencyBlocked(i) ==
    \E j \in Ids : IsTrade(j) /\ status[j] = "FAILED" /\ OrdersOf(i) \subseteq OrdersOf(j)

\* The guard query of a terminal finds no open failure.
PassGuard(r) ==
    /\ r.step = "guard"
    /\ ~dependencyBlocked(r.rest[1])
    /\ Becomes(r, [r EXCEPT !.step = "complete"])
    /\ UNCHANGED <<WorkerUnchanged, jobs, completions, status, unrecorded>>

\* A market order's completion is refused while the order's fills fall short
\* of what the engine reported; a cancellation releases what is left.
Completable(i) ==
    Events[i].kind = "DONE" => \A j \in EarlierTrades(i) : status[j] = "SETTLED"

CompleteTerminal(r) ==
    /\ r.step = "complete"
    /\ Completable(r.rest[1])
    /\ SetStatus({r.rest[1]}, "EXECUTED")
    /\ Becomes(r, Execution(r.job, "done", << >>, {}, << >>))
    /\ UNCHANGED <<WorkerUnchanged, jobs, completions, unrecorded>>

\* The guard found an open failure, or it or the completion failed: the
\* terminal is recorded for the retry worker.
DeferTerminal(r) ==
    /\ r.step \in {"guard", "complete"}
    /\ SetStatus({r.rest[1]}, "DEFERRED")
    /\ Becomes(r, Execution(r.job, "done", << >>, {}, << >>))
    /\ UNCHANGED <<WorkerUnchanged, jobs, completions, unrecorded>>

\* Recording it fails too: the event stays PENDING in the outbox.
LeaveTerminal(r) ==
    /\ r.step \in {"guard", "complete"}
    /\ RecordMayFail
    /\ Becomes(r, Execution(r.job, "done", << >>, {}, << >>))
    /\ unrecorded' = unrecorded \cup {r.rest[1]}
    /\ UNCHANGED <<WorkerUnchanged, jobs, completions, status>>

Finished(r) == r.step = "done" \/ (r.step = "single" /\ r.rest = << >>)

\* The worker sends the result and is free for the next job.
SendResult(r) ==
    /\ Finished(r)
    /\ Len(completions) < MaxOutstanding
    /\ completions' = Append(completions,
           [kind |-> r.job.kind, id |-> r.job.id, seq |-> r.job.seq,
            messages |-> r.messages, undurable |-> r.undurable])
    /\ running' = running \ {r}
    /\ UNCHANGED <<WorkerUnchanged, jobs, status, unrecorded>>

-----------------------------------------------------------------------------
Init ==
    /\ forwarded = 0 /\ queue = << >> /\ closed = FALSE
    /\ pc = "terminal" /\ queueOpen = TRUE /\ carry = None
    /\ waiting = << >> /\ readyJob = None
    /\ nextJobID = 1 /\ nextSeq = 1 /\ nextBroadcast = 1
    /\ pending = << >> /\ broadcasts = << >>
    /\ inFlight = [o \in OrderIDs |-> 0]
    /\ dispatched = << >> /\ unsafeOrders = {}
    /\ jobs = << >> /\ running = {} /\ completions = << >>
    /\ status = [i \in Ids |-> "PENDING"] /\ unrecorded = {}

Writer == Forward \/ CloseQueue

Dispatcher ==
    \/ TakeReadyTerminal \/ DropQuarantinedTerminal \/ NoReadyTerminal
    \/ ConsumeTerminal \/ PrepareBatch \/ NoBatch
    \/ Dispatch \/ RetireResult \/ ReceiveEvent \/ ReceiveClose \/ Exit

WorkerStep(r) ==
    \/ SettleBatch(r) \/ HandOffBatch(r) \/ HandOffFails(r) \/ FallBack(r)
    \/ SettleSingle(r) \/ RecordFailure(r) \/ RecordFails(r)
    \/ PassGuard(r) \/ CompleteTerminal(r) \/ DeferTerminal(r) \/ LeaveTerminal(r)
    \/ SendResult(r)

Workers == StartJob \/ \E r \in running : WorkerStep(r)

Next == Writer \/ Dispatcher \/ Workers

Spec == Init /\ [][Next]_vars

\* The engine stops at shutdown, and the Go scheduler runs every goroutine that
\* is not blocked.
FairSpec == Spec /\ WF_vars(Writer) /\ WF_vars(Dispatcher) /\ WF_vars(Workers)

-----------------------------------------------------------------------------
(* Properties.                                                             *)

Batch == {b \in Seq(Ids) : Len(b) \in 1 .. MaxBatch}
Job == [kind: {"TRADE", "TERMINAL"}, id: Nat, seq: Nat, batch: Batch]
Result == [kind: {"TRADE", "TERMINAL"}, id: Nat, seq: Nat, messages: Seq(Ids),
           undurable: SUBSET OrderIDs]
Step == {"batch", "single", "guard", "complete", "done"}

\* Type invariant of the dispatcher's and the pool's variables; the jobs
\* channel, the completions channel, the pool and the batches stay within their
\* sizes.
TypeOK ==
    /\ forwarded \in 0 .. Len(Events) /\ closed \in BOOLEAN
    /\ queue \in Seq(Ids) /\ Len(queue) <= QueueCap
    /\ pc \in {"terminal", "batch", "select", "exited"}
    /\ queueOpen \in BOOLEAN
    /\ carry \in Ids \cup {None}
    /\ waiting \in Seq(Ids)
    /\ readyJob \in Job \cup {None}
    /\ nextJobID \in Nat \ {0} /\ nextSeq \in Nat \ {0}
    /\ nextBroadcast \in 1 .. nextSeq
    /\ DOMAIN pending \subseteq nextBroadcast .. nextSeq - 1
    /\ \A s \in DOMAIN pending : pending[s] \in Seq(Ids)
    /\ broadcasts \in Seq(Ids)
    /\ inFlight \in [OrderIDs -> Nat]
    /\ DOMAIN dispatched \subseteq 1 .. nextJobID - 1
    /\ \A j \in DOMAIN dispatched : dispatched[j] \subseteq OrderIDs
    /\ unsafeOrders \subseteq OrderIDs
    /\ jobs \in Seq(Job) /\ Len(jobs) <= Concurrency
    /\ Cardinality(running) <= Concurrency
    /\ \A r \in running : /\ r.job \in Job /\ r.step \in Step
                          /\ r.rest \in Seq(Ids) /\ r.messages \in Seq(Ids)
                          /\ r.undurable \subseteq OrderIDs
    /\ completions \in Seq(Result) /\ Len(completions) <= MaxOutstanding
    /\ status \in [Ids -> {"PENDING", "SETTLED", "FAILED", "EXECUTED", "DEFERRED"}]

\* The rest of an order's hold is released only after every trade of the order
\* is settled: not while a batch is still running, not over a trade recorded as
\* failed, and not over one that could be neither settled nor recorded (the
\* fence, the guard query and the quarantine of settlement_pipeline.go).
TerminalAfterTrades ==
    \A i \in Ids :
        status[i] = "EXECUTED" => \A j \in EarlierTrades(i) : status[j] = "SETTLED"

\* The dispatcher, its workers and its channels keep the contract of the
\* pipeline: nothing takes effect twice, terminals run over settled trades only,
\* and the broadcasts of flushBroadcasts are the settled trades in the order of
\* the engine, complete when the dispatcher returns.
Contract == INSTANCE SettlementContract WITH returned <- (pc = "exited")
ImplementsContract == Contract!Spec

\* The dispatcher returns only when every event of its queue is settled,
\* executed or durably recorded (graceful drain). What is still PENDING, for the
\* replay of the next boot, is an event whose failure could not be recorded, or a
\* terminal barred by such a trade of its order; every other event is handled,
\* whatever else failed.
HandledAtExit ==
    pc = "exited" =>
        /\ queue = << >> /\ carry = None /\ waiting = << >>
        /\ jobs = << >> /\ running = {} /\ completions = << >>
        /\ \A i \in Ids : status[i] = "PENDING" =>
               i \in unrecorded \/ (~IsTrade(i) /\ EarlierTrades(i) \cap unrecorded # {})

\* Once the queue is closed the dispatcher returns, so that shutdown can go on
\* (settlementWg in main.go), unless an order is quarantined.
DrainCompletes == closed ~> (pc = "exited" \/ unsafeOrders # {})

\* A terminal that has been consumed leaves the waiting list again: "a terminal
\* already consumed is always dispatched once its dependency is released"
\* (settlement_pipeline.go, step 3 of the loop).
WaitingDispatched ==
    \A i \in Ids : i \in ToSet(waiting) ~> i \notin ToSet(waiting)
=============================================================================
