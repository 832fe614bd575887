# Formal model of Go-exchange-back

TLA+ modules for the stateful core of the exchange backend: order intake with its hold
batches and idempotency keys, the matching engine shard, cancel commands, the settlement
pipeline and what it leaves in the database across failures and restarts, the ledger and
the transfers that use it. TLC checks small instances; TLAPS proves invariants of the
engine, of the cancel commands, of the recovery and of the settlement contract for every
instance. `PROJECT.json` maps every definition to the Go lines it translates and lists
the runs, mutants, findings, hazards and theorems.

## The system

A modular monolith: one Go process, PostgreSQL, WebSocket clients.

| Part | Code | State | Operations | Model |
|---|---|---|---|---|
| Order book | `internal/matching/orderbook.go` | price levels, FIFO each | add, remove, best counterparty | `OrderBook` |
| Engine shard | `internal/matching/engine.go`, `quantum_config.go` | book, active sweep, latches, bounded channels, snapshot cache | one turn of the scheduler, `CancelOrder`, `TrySubmitOrder`, `Stop` | `MatchingEngine` |
| Sharding | `internal/matching/sharded.go` | one forwarder per shard | receive, signal capacity, merge | forwarder in `MatchingEngine` |
| Outbox writer | `service/outbox_writer.go`, `repository/trade_outbox_repository.go` | batch in hand | commit with the ends of cancel commands, forward | `SettlementRecovery`, `SettlementDispatcher`, `CancelCommands` |
| Dispatcher and pool | `cmd/settlement_pipeline.go`, `settlement_dependency.go` | in-flight counts, waiting terminals, quarantine, two channels | prepare, dispatch, retire, broadcast, drain | `SettlementDispatcher` |
| Settlement, terminals | `service/settlement_*.go`, `order_service.go`, `cmd/main.go` | trades, orders, holds, outbox rows | settle, complete, cancel, record, defer | both settlement modules |
| Failure records, retry | `service/failed_*.go`, `settlement_retry_worker.go` | OPEN / RESOLVED records | classified, capped and guarded retry, resolve | `SettlementRecovery` |
| Boot, shutdown | `cmd/main.go`, `cancel_command_lifecycle.go`, `outbox_replayer.go`, `stale_market_order_finalizer.go`, `matching_bootstrap_service.go` | PENDING rows, open orders, pending commands | replay, finalize, bootstrap, barrier, drain | `SettlementRecovery`, `CancelCommands` |
| Cancel commands | `service/cancel_command_worker.go` | command rows, in-flight table | dispatch, retry, await outbox, NOOP | `CancelCommands` |
| Order intake | `service/order_service.go`, `hold_coordinator.go`, `handler/order_handler.go` | idempotency keys, hold batches | claim, hold, submit, reject, replay | `OrderIntake` |
| Ledger, reconciliation | `service/ledger_service.go`, `reconciliation_worker.go` | journals, postings, balances | record, check | `Ledger` |
| Transfers | `service/transfer_*.go` | transfer rows, events | request, dispatch, poll, callback, confirm | `Transfers` |
| WebSocket hub, rate limit, auth, market data, other handlers, metrics | see `PROJECT.json` | | | not modelled |

An order is held in the database, submitted to its shard's `OrderCh`, matched in slices,
and its trades go through `ExecutionCh`, the forwarder, the outbox (write-ahead) and the
dispatcher of its symbol into settlement transactions. A terminal event (market order
done, order cancelled) releases what is left of the hold.

## Modules

**OrderBook**: a book maps side and price to a sequence; an empty sequence is a level
that is not in the B-tree. `BestMatch` is the counterparty of the four `best*` helpers:
best price within the limit, oldest order of another user.

**MatchingEngine**: one shard. `pc` follows `runTurn`: cancel phase (`processCancel`,
`answerCancel`, `rejectCancel`), ticker, slice (`SliceBegin`, one `MatchTrade` per trade,
`SliceYield` or `SliceFinish`), stop latch and admission, then parking, idling or exit
(`TurnEnd`, `Select*`, `Exit`). Go's `select` is a choice among the ready cases. Prices
and quantities are whole multiples of the tick and the smallest unit; a market buy's
quantity is the truncated quotient of its budget. The forwarder, the ticker and the
callers of `SubmitOrder`, `TrySubmitOrder`, `CancelOrder` and `Stop` are processes of
their own. A panic in `sendExecution` sets `panicked` and stops the loop. `accepted`,
`admitted`, `forwarded` and `progress` are history.

**SettlementDispatcher**: `runPartitionDispatcher` of one partition (`pc` is the step of
its loop), its `dependencyTracker`, and the workers. A job runs in the steps of the code:
batch; on the statement timeout the atomic hand-off; on any other error one by one;
a terminal first asks for open failures, then executes. `status` is what the database
holds for each event; `unrecorded` is history, the events of which not even the failure
reached the database.

**SettlementRecovery**: the database through failures and crashes. Amounts are lots and
a trade is of one lot. The engine is reduced to what it emits and the dispatcher to its
fence (a terminal waits for the earlier rows of its order) and its quarantine. `Faults`
names the database operations that may fail. A crash clears everything in memory; the
boot runs replay, finalizer and bootstrap one row or order at a time, so that a crash can
hit between any two; the retry worker starts before the bootstrap, as in `main`.

A failed settlement is transient or not by its SQLSTATE, as `ClassifyFailedSettlement`
has it; only transient ones are retried, up to `MaxRetryCount`. The retry worker sees the
`ScanLimit` oldest open records of each of the three tables (`at` is the order of
`occurred_at`), those it will not retry included. The outbox commit may take effect and
return an error (fault "flush"): the writer then repeats an insert that violates the primary
key until the process ends (`writerStuck`), and the rows wait for the next replay. A plan
says how often the process may crash, which operations may fail and which orders are open.

**SettlementContract**: what a partition promises, in three variables: the status of each
event, the trades broadcast, whether the dispatcher has returned. `SettlementDispatcher`
instantiates it with `returned <- (pc = "exited")`; a batch is one `Settle` or `Fail` of a
set of trades, `flushBroadcasts` one `Broadcast`, every other step stutters.

**CancelCommands**: `CancelOrder` (the 202), the worker (`pc` is the step of `Run`, each
engine call is an element of `cancels` until the engine takes it and of `results` until
`Run` receives it), the transaction that commits events and ends their commands, and the
life of the process: replay, bootstrap, barrier, HTTP, ordered shutdown, crash. An order
is where the engine has it (`place`), has one unit, and is filled or cancelled. What goes
wrong is a choice bounded by `MaxFaults`: a call that times out, a failed statement, an
order stored by a commit that returned an error or left open by a failed compensation
(place "stranded"), an event that fails to settle and becomes a failure record (`owed`), and
an outbox commit whose answer is lost (`unforwarded` rows; the writer is stuck until a
restart). `reopened` is history: the orders that a start gave to the engine although an
event of theirs was owed, which is finding 3 seen from here. A backoff may end at any time
outside a turn of `Run`. A failed HTTP shutdown and a barrier that times out end the process
in the code and are `Crash` here.

**OrderIntake**: calls of `CreateOrder` with an idempotency key. A body is its amount, so
that bodies compete for the balance; the fingerprint of a body is the body. The
coordinator collects, and `HoldBatch` is the group transaction: keys claimed, leaders and
followers, the fold over the balance, orders, holds and outcomes. A statement timeout, an
error before the commit took effect and one after it are separate actions; the fallback
does one owner per step. Then the handoff to the engine, the compensation, the UNKNOWN
outcome and the answer given to the client.

**Ledger**: not a state machine but operators on a ledger value (journals and balances),
used inside the transactions of `OrderIntake` and `Transfers`. `Recordable` says whether
`Record` returns no error. `Reconciled` is one round of the reconciliation worker's ledger
checks.

**Transfers**: the handlers and the poller are agents that interleave at every commit and
every call of the processor. `processor` is which one is wired: "fake" is the one `main`
wires, which accepts everything, answers every poll with PENDING (`SetResult` is for tests)
and forgets everything in a restart; "other" stands for any implementation of the interface
and may fail or answer anything. Callbacks come any number of times with any outcome; the
key of their event is the sender's id and not the transfer. (Their route is registered in
the development group only.) A request is more than 30 minutes old at poll `LatePoll` at the
latest: the waits double from 10 seconds, so that in the code it is so at the ninth.

`MC*` modules hold the instances. Operators introduced by a comment `Mutant:` are
deliberately wrong variants that show that a property can fail.

## Runs

| Run | Shows | States |
|---|---|---|
| `MCEngineCancels` | a sweep in two slices with two cancel calls for the order that rests between them, timeouts, ticker, shutdown: orders end once (`TerminalIsFinal`), none vanishes (`OrdersAccountedFor`), admission is FIFO, cancel answers are true, one progress point per turn, snapshots fresh, exit drained | 2.9 M |
| `MCEngineMatching` | limit and market orders in all orders of arrival: no panic, quantities conserved, book not crossed (except for a user's own orders), limits, amounts and budgets kept, price-time priority | 2.2 M |
| `MCEngineLiveness` | sweeps end, accepted orders are admitted, `Stop` drains | 0.2 M |
| `MCEngineStalled` | cancels are answered although the downstream may stop for ever | 0.4 M |
| `MCDispatcher` | per-order fence, drain (at exit an event is open only if its failure could not be recorded, or if it is the terminal of such a trade), and refinement of `SettlementContract` (broadcasts in engine order and complete, holds released over settled trades) | 0.2 M |
| `MCDispatcherWedge` | **violated**: a ready terminal may wait for ever (finding 1) | |
| `MCRecovery` | one crash with every fault, or two crashes: settled exactly once, nothing lost, no early release and no lot matched twice for orders without an open record at a restart; every event takes effect unless it stays with the operator, behind a scan full of records that are passed over, or with the next boot | 0.4 M |
| `MCRecoveryFinalizer` | **violated**: early release at boot (finding 2) | |
| `MCRecoveryBootstrap` | **violated**: traded or cancelled lots back in the book (finding 3) | |
| `MCTransfers` | the ledger has exactly the journals the statuses stand for (`MoneyFollowsStatus`), a final result is never revised in silence (`FinalResults`), every transfer is decided or flagged for an operator (`TransfersAttended`) | 0.3 M |
| `MCCancelCommands` | a command ends as what happened (`CommandsTruthful`), recovered cancels come before new orders, every accepted cancel closes its order unless that stays out of reach | 0.4 M |
| `MCOrderIntake` | one order, one hold and one submission per key (`HeldOnce`), no answer is or becomes untrue and a stored result wins over a refusal under new rules (`AnswersTrue`), every call is answered | 0.2 M |

**Bounds.** Engine: the smallest channels `validateExecutionCapacity` admits (capacity 3,
one trade per slice, one cancel per quota) so that parking, rejection and a full channel
all happen; the orders are chosen so that a sweep needs two slices, a price level holds
two orders, a user meets its own order and a market buy ends on a truncated quotient.
Dispatcher: batches of two, two workers and a queue of two, so that a batch is cut by its
size, by a terminal and by an empty queue, and results overtake each other. Recovery: two
lots per order allow a trade that settles beside one that fails; two crashes allow one
during the boot that follows the other; a cap of two allows a retry that fails and one
that gives up; a scan of one record lets one that is passed over hide the next. Three plans
share the orders out: every fault or two crashes for a market order against a resting one,
settlement, terminal and flush faults for two limit orders. `MaxRows` bounds the rows of the
liveness properties. Cancel commands: two
orders, one engine call at a time and a scan of one, so that a command in backoff can block
another; one fault and one restart. Order intake: a request, its repetition and another
body under one key, and an order that competes for the balance, in batches of two through
a channel of two; two mishaps (failed statements or restarts) allow an ambiguous commit
followed by a failure in the fallback, and an ambiguous compensation followed by a failed
UNKNOWN. Transfers: a withdrawal, its repetition, one beyond the balance and a deposit under
one key, two mishaps, one failed submission, two polls and two callback ids. A request is
polled no more than `LatePoll` times: the last poll flags it, and the later ones repeat
that. Where the system comes to rest once its clients do, deadlock is not checked; in the engine runs it
is, with termination as an explicit step.

**Fairness.** Weak fairness of each goroutine (engine loop, forwarder, dispatcher,
workers, writer, retry worker, boot): the Go scheduler runs whatever can run. The ticker
ticks. Clients owe nothing, no crash or fault is forced, and `MCEngineStalled` gives the
forwarder no fairness. In the recovery, a replay that fails to mark a row may be aborted
and repeated, but not for ever (strong fairness of the mark), and a retry that can be neither
made nor recorded is tried again, not for ever. In the cancel commands the worker's `select`
picks among ready cases at random, so that a result in the channel is received in the end,
and a backoff passes although the worker is busy with other commands (strong fairness per
command); nothing is assumed of the retry worker there, an event may stay owed. In the
transfers only the poller is fair: neither handlers nor callbacks are relied upon, and the
processor need not decide anything, but its `Submit` fails finitely often (`MaxFailures`). In the
order intake no call takes infinitely many steps, so weak fairness of the whole suffices.

## Findings

1. After dropping one quarantined terminal `takeReadyTerminal` returns nil without
   looking further, and the dispatcher blocks although another terminal is ready; at
   shutdown it never exits. It needs a trade whose failure could not be recorded.
2. The stale market order finalizer does not ask for open failed settlements and passes
   the database's own fills, so a restart releases a hold that a failed trade still needs.
3. The bootstrap's `amount - filled_amount` counts the lots of failed trades as open, and a
   cancellation in a failure record does not keep its order out of the bootstrap.

Findings 2 and 3 need a restart while a failure record is open; for every other order the
same properties hold in `MCRecovery` (`HoldCoversTradesOfClean`,
`CommittedStaysCommittedOfClean`).

Also seen while modelling, and allowed for in the properties. After an outbox commit that
took effect and returned an error `flushAndForward` inserts the same rows with their ids
again, for ever: nothing more is committed or settled for any symbol until a restart
(`OutOfReach` in both modules). The retry worker's scan returns the 50 oldest open records
also when they are never retried, so that as many given-up ones hide every later one
(`LeftToOperator`). The wired processor never decides a transfer, so without callbacks every
transfer ends with an operator; and a request whose `Submit` fails for ever stays RECEIVED
and is never flagged. A cancel for an order whose compensation failed is retried until a
restart brings the order into the engine. After a start that found an event of an order
owed, its command may end as NOOP or PROCESSED against what then happens to it, or the
batch with its event may never commit (`reopened`). An error of the driver in
the fallback of the hold coordinator is answered 400 although the statement may have taken
effect; an order whose group commit was ambiguous is answered 202 and reaches the engine
only after a restart; a repetition behind another body of its key in one batch is answered
409; after an ambiguous compensation and a failed UNKNOWN the answer says PENDING while the
row says REJECTED; restored orders may trade with each other before the barrier.

## Proofs

`OrderBookProofs` has the lemmas about the book: adding and removing keep the type and
keep every resting order at its own side and price (`WellPlaced`), and the best match of
an order that can trade is a resting order of the other side.

`MatchingEngineProofs` proves, for all orders, commands, prices and all capacities that
satisfy `validateExecutionCapacity` (`QuantumAssumption`):

    IndInv == TypeOK /\ WellPlaced(book) /\ Reserved /\ NoPanic

is inductive (`EngineInvariant`). `NoPanic` alone is not: that `sendExecution` finds a
slot follows from `Reserved` (while a slice runs, the free slots cover its remaining
reservation, and the reservation covers the trades still allowed and one
MarketOrderDone), which needs the capacity check at the start of the slice, the types,
and `WellPlaced` to know that a match is a resting order. From it follow `TypeCorrect`
and `EngineNeverPanics`.
`TurnProgressesOnce` has an inductive strengthening of its own (`TurnInv`: at which steps
of the turn progress was made). `AdmissionIsFIFO` and `ExitIsDrained` rest on `IndInv` and
`DrainInv` (the loop blocks, drains and exits only without work in hand).

`CancelCommandsInvariant` and `CancelCommandsProofs` prove, for all orders, call limits,
faults and restarts, that

    IndInv == Types /\ Known /\ OneCommand /\ PlacesOpen /\ Named /\ Emitted /\ Committed
                /\ Owing /\ Ended /\ Started

is inductive (`CancelInvariant`). That a status is truthful is not inductive alone: a late
result or a second engine call could end a command differently, were it not that an order
has one command, is in one place or in one event, and that the event of a cancellation
finds its command pending. Ambiguous commits, failed compensations and failed settlements
are part of the model proved about; what they leave behind (stranded orders, unforwarded
rows, owed events) is accounted for in `PlacesOpen`, `Committed` and `Owing`. From it follow
`StatusTruthful` (`CommandsTruthful`), `RecoveredFirst` (`RecoveredCancelsFirst`) and
`BatchesCommit`: the row count in the outbox transaction rolls no batch back that is not
committed already. All of it leaves out the orders of `reopened`, for which it is false.

`SettlementRecoveryProofs` proves, for all orders, all plans of faults and crashes and every
retry limit, that

    IndInv == Types /\ Resolved /\ HoldIsWhatIsLeft /\ SettledExactlyOnce /\ NothingLost

is inductive (`RecoveryInvariant`). `NothingLost` needs `Resolved`: a record is resolved
only for a settled trade or a closed order, and a closed order stays closed, which is also
why `EnsureDeferred` may leave a resolved record as it is. Every action is first shown to
be an accounts step and a records step over unchanged rows; one lemma (`DatabaseStep`)
then carries the invariant. From it follow `SettlesOnce`, `LosesNothing` and
`HoldsAreExact`; the last says what a hold is, not that a terminal came at the right time
(findings 2 and 3).

`SettlementContractProofs` proves what the abstract contract is worth: a partition that
keeps it releases holds over settled trades only and has a public feed that is in engine
order and complete at the end (`ContractPromises`), for every sequence of events. That
`SettlementDispatcher` keeps it is checked by `MCDispatcher`. `MinimumLemmas` has the one
fact about `Min` that the others use.

Only model-checked: price-time priority, conservation of quantities, cancel answers,
snapshot freshness, the refinement of the contract by the dispatcher, that holds cover the
trades still to settle and what the bootstrap restores, order intake, transfers, the
ledger, and all liveness (out of the prover's reach, as are ENABLED and induction over
data).

## Not modelled

- Fees, average prices and the postings of a trade: their correctness is rounding of
  decimals, which whole lots do not have.
- `LedgerService.Reverse`: nothing calls it.
- A settlement, hand-off or confirmation transaction that commits and returns an error: it
  is repeated or recorded as failed, and the repetition finds the trade settled (as after a
  crash between commit and mark, which is modelled). That a statement timeout ends a round of
  the retry worker, and the batch limit of the transfer poller, which orders by
  `next_check_at`: both only delay.
- Symbol routing by hash; corrupt outbox rows (manual recovery); an operator's resolution
  of a failure record; the reconciliation check for stale market orders and the monitor of
  idempotency keys, which look at ages only.
- The WebSocket hub: one goroutine owns all its state, nothing outlives a connection and
  delivery is best effort.
- The rate limiter (floating-point time under one mutex), authentication (no shared state),
  market data and rules (tables read at the start), handlers that only read, configuration,
  metrics, logging, migrations.

A terminal that waits in the quarantine of an order until the restart (finding 1 aside) is
a limit of memory and not of behaviour; no property covers it.
