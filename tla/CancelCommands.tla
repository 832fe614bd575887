--------------------------- MODULE CancelCommands ---------------------------
(***************************************************************************)
(* Durable cancellation: CancelOrder stores a command, CancelCommandWorker *)
(* carries it to the engine, the outbox writer commits the OrderCancelled  *)
(* event together with the end of the command, and settlement closes the   *)
(* order (src/internal/service/cancel_command_worker.go, order_service.go, *)
(* src/internal/repository/cancel_command_repository.go and                *)
(* trade_outbox_repository.go, src/cmd/cancel_command_lifecycle.go).       *)
(*                                                                         *)
(* The engine, MatchingEngine's subject, is reduced to where an order is   *)
(* and to its queue of cancels; settlement, SettlementRecovery's, to       *)
(* applying committed events in order or leaving them to a failure record. *)
(* A fill is a complete one: a partial one leaves an order as cancellable  *)
(* as it was. Time passes at will.                                         *)
(***************************************************************************)
EXTENDS Naturals, FiniteSets, Sequences, Functions

CONSTANTS
    Orders,
    MaxDispatch,  \* engine calls at a time
    ScanLimit,    \* rows of one scan of the pending commands
    MaxFaults,    \* how many engine calls may time out and transactions fail
    MaxRestarts   \* how many crashes and shutdowns there may be

ASSUME CancelAssumption ==
    /\ MaxDispatch \in Nat \ {0} /\ ScanLimit \in Nat \ {0}
    /\ MaxFaults \in Nat /\ MaxRestarts \in Nat

VARIABLES
    \* In the database.
    orderStatus,  \* "NONE" before the order is placed; "PENDING" stands for PARTIAL too
    commands,     \* cancel_commands in id order: [order, status]
    outbox,       \* committed events that are not handled: [kind, order]
    owed,         \* committed events that failed to settle and have an open failure
                  \* record. A set: of two equal ones only one can still take effect
    \* The engine and the outbox writer.
    place,        \* where the order is: "handoff" (stored, not submitted yet), the
                  \* engine's "intake" or "book", "stranded" (stored, and given up
                  \* without a word to the engine), or "nowhere"
    cancels,      \* its queued cancels: [command, waiting]; waiting: the caller is.
                  \* A set, as calls are concurrent; equal ones nobody waits for
                  \* count once, as the second finds nothing to do
    execution,    \* emitted events that are not committed: [kind, order, command]
    unforwarded,  \* the rows at the end of outbox that the writer takes for uncommitted
    \* The worker.
    pc,
    inFlight,     \* the phase of each command it knows of
    results,      \* results of engine calls it has not received: [command, result]
    checked,      \* the command it is about to mark NOOP, 0 if none
    \* The process.
    phase, faults, restarts,
    recovered,    \* the orders whose command was pending at the last start
    reopened      \* history: the orders a start gave to the engine with an event owed

dbVars == <<orderStatus, commands, outbox, owed>>
engineVars == <<place, cancels, execution, unforwarded>>
workerVars == <<pc, inFlight, results, checked>>
processVars == <<phase, faults, restarts, recovered, reopened>>
vars == <<dbVars, engineVars, workerVars, processVars>>

Commands == DOMAIN commands
OrderOf(c) == commands[c].order
Pending == {c \in Commands : commands[c].status = "PENDING"}
isCancellableOrderStatus(status) == status = "PENDING"
EngineRuns == phase \in {"barrier", "open", "stopping"}

\* Something goes wrong.
Fault ==
    /\ faults < MaxFaults
    /\ faults' = faults + 1
    /\ UNCHANGED <<phase, restarts, recovered, reopened>>

-----------------------------------------------------------------------------
(* HTTP.                                                                   *)

\* CreateOrder commits the order with its hold, and submits it afterwards. A
\* commit that returns an error all the same leaves a stored order that
\* CreateOrder drops.
StoreOrder(o) ==
    /\ phase = "open" /\ orderStatus[o] = "NONE"
    /\ orderStatus' = [orderStatus EXCEPT ![o] = "PENDING"]
    /\ \/ place' = [place EXCEPT ![o] = "handoff"] /\ UNCHANGED processVars
       \/ place' = [place EXCEPT ![o] = "stranded"] /\ Fault
    /\ UNCHANGED <<commands, outbox, owed, cancels, execution, unforwarded, workerVars>>

SubmitOrder(o) ==
    /\ place[o] = "handoff"
    /\ place' = [place EXCEPT ![o] = "intake"]
    /\ UNCHANGED <<dbVars, cancels, execution, unforwarded, workerVars, processVars>>

\* The engine's queue is full: the order is rejected in the database, in a
\* transaction that is tried once. When it fails the order stays open.
RejectOrder(o) ==
    /\ place[o] = "handoff"
    /\ \/ /\ place' = [place EXCEPT ![o] = "nowhere"]
          /\ orderStatus' = [orderStatus EXCEPT ![o] = "REJECTED"]
          /\ UNCHANGED processVars
       \/ /\ place' = [place EXCEPT ![o] = "stranded"]
          /\ Fault
          /\ UNCHANGED orderStatus
    /\ UNCHANGED <<commands, outbox, owed, cancels, execution, unforwarded, workerVars>>

\* One transaction on the locked order. An order has one command, whatever
\* became of it; the answer is 202 when it is stored. (Waking the worker only
\* brings its next turn forward.)
CancelOrder(o) ==
    /\ phase = "open"
    /\ isCancellableOrderStatus(orderStatus[o])
    /\ \A c \in Commands : OrderOf(c) # o
    /\ commands' = Append(commands, [order |-> o, status |-> "PENDING"])
    /\ inFlight' = Append(inFlight, "none")
    /\ UNCHANGED <<orderStatus, outbox, owed, engineVars, pc, results, checked, processVars>>

-----------------------------------------------------------------------------
(* The engine, the outbox writer and settlement.                           *)

TakeOrder(o) ==
    /\ EngineRuns /\ place[o] = "intake"
    /\ place' = [place EXCEPT ![o] = "book"]
    /\ UNCHANGED <<dbVars, cancels, execution, unforwarded, workerVars, processVars>>

\* Restored orders can trade with each other too, if a crash lost their trade.
FillOrder(o) ==
    /\ EngineRuns /\ place[o] = "book"
    /\ place' = [place EXCEPT ![o] = "nowhere"]
    /\ execution' = Append(execution, [kind |-> "TRADE", order |-> o, command |-> 0])
    /\ UNCHANGED <<dbVars, cancels, unforwarded, workerVars, processVars>>

\* The engine answers the caller, if it is still there, and emits the event.
processCancel(q) ==
    /\ EngineRuns /\ q \in cancels
    /\ LET o == OrderOf(q.command)
           found == place[o] = "book"
       IN  /\ IF found
              THEN /\ place' = [place EXCEPT ![o] = "nowhere"]
                   /\ execution' = Append(execution, [kind |-> "CANCEL", order |-> o,
                                                      command |-> q.command])
              ELSE UNCHANGED <<place, execution>>
           /\ results' = IF q.waiting
                         THEN results \cup {[command |-> q.command,
                                             result |-> IF found THEN "ok" ELSE "notFound"]}
                         ELSE results
    /\ cancels' = cancels \ {q}
    /\ UNCHANGED <<dbVars, unforwarded, pc, inFlight, checked, processVars>>

CommandIDs(events) == {e.command : e \in Range(events)} \ {0}

\* Events and the ends of their commands, in one transaction. If one of the
\* commands is not pending, the transaction rolls back and is tried again. So it
\* is, for ever, after a commit that returned an error: the rows of the batch
\* carry the ids they were stored with. Nothing of the batch is forwarded, and
\* nothing that comes after it is committed, before the next start.
InsertBatchAndMarkCancelCommands ==
    /\ execution # << >> /\ unforwarded = 0
    /\ CommandIDs(execution) \subseteq Pending
    /\ outbox' = outbox \o [n \in DOMAIN execution |->
                              [kind |-> execution[n].kind, order |-> execution[n].order]]
    /\ commands' = [c \in Commands |-> IF c \in CommandIDs(execution)
                                       THEN [commands[c] EXCEPT !.status = "PROCESSED"]
                                       ELSE commands[c]]
    /\ execution' = << >>
    /\ \/ unforwarded' = 0 /\ UNCHANGED processVars
       \/ unforwarded' = Len(execution) /\ Fault
    /\ UNCHANGED <<orderStatus, owed, place, cancels, workerVars>>

Settled(event) == IF event.kind = "TRADE" THEN "FILLED" ELSE "CANCELLED"

\* SettleTrade needs an open order. A cancellation waits for the failed trades
\* of its order, and does nothing to a closed one.
CanTakeEffect(event) ==
    IF event.kind = "TRADE" THEN orderStatus[event.order] = "PENDING"
    ELSE [kind |-> "TRADE", order |-> event.order] \notin owed

TakeEffect(event) ==
    orderStatus' = [orderStatus EXCEPT ![event.order] =
                       IF @ = "PENDING" THEN Settled(event) ELSE @]

\* The next committed event takes effect, live or in the boot replay, or is left
\* to a failure record.
Settle ==
    /\ outbox # << >> /\ Len(outbox) > unforwarded
    /\ LET event == Head(outbox)
       IN  \/ /\ CanTakeEffect(event) /\ TakeEffect(event)
              /\ UNCHANGED <<owed, processVars>>
           \/ /\ owed' = owed \cup {event}
              /\ IF CanTakeEffect(event) THEN Fault ELSE UNCHANGED processVars
              /\ UNCHANGED orderStatus
    /\ outbox' = Tail(outbox)
    /\ UNCHANGED <<commands, engineVars, workerVars>>

\* The retry worker, started when the replay is over, gets an event through. It
\* need not: an event whose error is permanent is left to the operator.
RetryOwed(event) ==
    /\ phase = "replay" => outbox = << >>
    /\ CanTakeEffect(event) /\ TakeEffect(event)
    /\ owed' = owed \ {event}
    /\ UNCHANGED <<commands, outbox, engineVars, workerVars, processVars>>

-----------------------------------------------------------------------------
(* The worker. Run is one goroutine; each engine call is another.          *)

\* The engine calls that run or have a result to be received.
Dispatching == {c \in Commands : inFlight[c] = "dispatching" /\ c # checked}
ShuttingDown == phase = "stopping"

\* A call ends without an answer: the command never got into the queue, or it
\* is still there and will be processed when nobody waits for it.
CancelTimesOut(q) ==
    /\ EngineRuns /\ q \in cancels /\ q.waiting
    /\ Fault
    /\ \/ cancels' = cancels \ {q}
       \/ cancels' = (cancels \ {q}) \cup {[command |-> q.command, waiting |-> FALSE]}
    /\ results' = results \cup {[command |-> q.command, result |-> "timeout"]}
    /\ UNCHANGED <<dbVars, place, execution, unforwarded, pc, inFlight, checked>>

SetPhase(c, p) == inFlight' = [inFlight EXCEPT ![c] = p]

\* "backoff" until nextAttemptAt, "ready" from then on. The delay, of 100
\* milliseconds and doubled up to 5 seconds, does not pass within the turn of Run
\* that sets it: a command that is retried for ever leaves room for later ones.
scheduleRetry(c) == SetPhase(c, "backoff")

nextAttemptAt(c) ==
    /\ EngineRuns /\ pc = "select" /\ inFlight[c] = "backoff"
    /\ SetPhase(c, "ready")
    /\ UNCHANGED <<dbVars, engineVars, pc, results, checked, processVars>>

\* Mutant: the database is not asked.
applyNotFoundAlways(c) ==
    /\ pc' = "noop" /\ checked' = c
    /\ UNCHANGED <<inFlight, processVars>>

\* The engine does not have the order: only what the database says of the
\* order decides whether that ends the command.
applyNotFound(c) ==
    \/ /\ ~isCancellableOrderStatus(orderStatus[OrderOf(c)])
       /\ pc' = "noop" /\ checked' = c
       /\ UNCHANGED <<inFlight, processVars>>
    \/ /\ scheduleRetry(c)
       /\ pc' = "release" /\ UNCHANGED checked
       /\ IF isCancellableOrderStatus(orderStatus[OrderOf(c)])
          THEN UNCHANGED processVars
          ELSE Fault

applyResult(r) ==
    CASE r.result = "ok" -> /\ SetPhase(r.command, "awaiting")
                            /\ pc' = "release" /\ UNCHANGED <<checked, processVars>>
      [] r.result = "notFound" -> applyNotFound(r.command)
      [] r.result = "timeout" -> /\ scheduleRetry(r.command)
                                 /\ pc' = "release" /\ UNCHANGED <<checked, processVars>>

ReceiveResult(r) ==
    /\ EngineRuns /\ pc = "select"
    /\ results' = results \ {r}
    /\ applyResult(r)
    /\ UNCHANGED <<dbVars, engineVars>>

\* The statement leaves a command that is not pending alone. It can fail before
\* or after it took effect.
MarkNoop ==
    /\ pc = "noop"
    /\ LET c == checked
           marked == [commands EXCEPT ![c].status = IF @ = "PENDING" THEN "NOOP" ELSE @]
       IN  \/ /\ commands' = marked /\ SetPhase(c, "none")
              /\ UNCHANGED processVars
           \/ /\ Fault
              /\ commands' \in {commands, marked}
              /\ scheduleRetry(c)
    /\ pc' = "release" /\ checked' = 0
    /\ UNCHANGED <<orderStatus, outbox, owed, engineVars, results>>

\* A wake-up or a tick.
Tick ==
    /\ EngineRuns /\ pc = "select"
    /\ pc' = "release"
    /\ UNCHANGED <<dbVars, engineVars, inFlight, results, checked, processVars>>

\* Nothing new is started once the shutdown has begun.
releaseCompleted ==
    /\ pc = "release"
    /\ IF ShuttingDown
       THEN pc' = "drain" /\ UNCHANGED inFlight
       ELSE /\ pc' = "dispatch"
            /\ inFlight' = [c \in Commands |-> IF inFlight[c] = "awaiting" /\ c \notin Pending
                                               THEN "none" ELSE inFlight[c]]
    /\ UNCHANGED <<dbVars, engineVars, results, checked, processVars>>

\* Mutant: a command stays blocked when its backoff has passed.
blockedIDsAll == {c \in Commands : inFlight[c] # "none"}

blockedIDs == {c \in Commands : inFlight[c] \notin {"none", "ready"}}

\* The first limit pending commands that are not excluded.
FindPending(excluded, limit) ==
    {c \in Pending \ excluded :
        Cardinality({b \in Pending \ excluded : b <= c}) <= limit}

\* Mutant: the calls that run are not counted.
dispatchReadyAll ==
    /\ pc = "dispatch"
    /\ LET started == FindPending(blockedIDs, ScanLimit)
       IN  /\ inFlight' = [c \in Commands |-> IF c \in started THEN "dispatching" ELSE inFlight[c]]
           /\ cancels' = cancels \cup {[command |-> c, waiting |-> TRUE] : c \in started}
    /\ pc' = "select"
    /\ UNCHANGED <<dbVars, place, execution, unforwarded, results, checked, processVars>>

dispatchReady ==
    /\ pc = "dispatch"
    /\ LET found == FindPending(blockedIDs, ScanLimit)
           free == MaxDispatch - Cardinality(Dispatching)
           started == {c \in found : Cardinality({b \in found : b <= c}) <= free}
       IN  /\ inFlight' = [c \in Commands |-> IF c \in started THEN "dispatching" ELSE inFlight[c]]
           /\ cancels' = cancels \cup {[command |-> c, waiting |-> TRUE] : c \in started}
    /\ pc' = "select"
    /\ UNCHANGED <<dbVars, place, execution, unforwarded, results, checked, processVars>>

\* After the shutdown signal: the calls that run are waited for, their results
\* dropped.
drainDispatches ==
    /\ ShuttingDown
    /\ \/ pc = "select" /\ pc' = "drain" /\ UNCHANGED <<results, inFlight>>
       \/ /\ pc = "drain"
          /\ \E r \in results : results' = results \ {r} /\ SetPhase(r.command, "none")
          /\ UNCHANGED pc
       \/ pc = "drain" /\ Dispatching = {} /\ pc' = "stopped" /\ UNCHANGED <<results, inFlight>>
    /\ UNCHANGED <<dbVars, engineVars, checked, processVars>>

-----------------------------------------------------------------------------
(* Start, shutdown and crash.                                              *)

\* The open orders go to the engine once the committed events are handled, and
\* the worker starts. An order whose event is owed is still open in the database.
BootstrapOpenOrders ==
    /\ phase = "replay" /\ outbox = << >>
    /\ place' = [o \in Orders |-> IF isCancellableOrderStatus(orderStatus[o])
                                  THEN "intake" ELSE "nowhere"]
    /\ phase' = "barrier" /\ pc' = "select"
    /\ reopened' = reopened \cup {o \in Orders : /\ isCancellableOrderStatus(orderStatus[o])
                                                /\ \E event \in owed : event.order = o}
    /\ UNCHANGED <<dbVars, cancels, execution, unforwarded, inFlight, results, checked, faults,
                   restarts, recovered>>

\* Mutant: the barrier waits for the calls, not for the ends of the commands.
WaitUntilDispatched ==
    /\ phase = "barrier" /\ \A c \in Pending : inFlight[c] \notin {"none", "dispatching"}
    /\ phase' = "open"
    /\ UNCHANGED <<dbVars, engineVars, workerVars, faults, restarts, recovered, reopened>>

WaitUntilDrained ==
    /\ phase = "barrier" /\ Pending = {}
    /\ phase' = "open"
    /\ UNCHANGED <<dbVars, engineVars, workerVars, faults, restarts, recovered, reopened>>

\* HTTP is closed when no CreateOrder is under way.
Shutdown ==
    /\ phase = "open" /\ restarts < MaxRestarts
    /\ \A o \in Orders : place[o] # "handoff"
    /\ phase' = "stopping"
    /\ UNCHANGED <<dbVars, engineVars, workerVars, faults, restarts, recovered, reopened>>

\* A new process: the memory of the old one is gone.
Restart ==
    /\ phase' = "replay" /\ restarts' = restarts + 1
    /\ recovered' = {OrderOf(c) : c \in Pending}
    /\ place' = [o \in Orders |-> "nowhere"]
    /\ cancels' = {} /\ execution' = << >> /\ unforwarded' = 0
    /\ pc' = "stopped" /\ checked' = 0 /\ results' = {}
    /\ inFlight' = [c \in Commands |-> "none"]
    /\ UNCHANGED <<dbVars, faults, reopened>>

\* The engine stops after the worker and empties its queues; the outbox writer
\* commits what it was given. Settlement may be cut short.
ShutdownComplete ==
    /\ ShuttingDown /\ pc = "stopped"
    /\ cancels = {} /\ execution = << >> /\ unforwarded = 0
    /\ \A o \in Orders : place[o] # "intake"
    /\ Restart

Crash == restarts < MaxRestarts /\ Restart

Init ==
    /\ orderStatus = [o \in Orders |-> "NONE"]
    /\ commands = << >> /\ outbox = << >> /\ owed = {}
    /\ place = [o \in Orders |-> "nowhere"]
    /\ cancels = {} /\ execution = << >> /\ unforwarded = 0
    /\ pc = "stopped" /\ inFlight = << >> /\ results = {} /\ checked = 0
    /\ phase = "replay" /\ faults = 0 /\ restarts = 0 /\ recovered = {} /\ reopened = {}

Worker ==
    \/ \E r \in results : ReceiveResult(r)
    \/ MarkNoop \/ Tick \/ releaseCompleted \/ dispatchReady \/ drainDispatches

Next ==
    \/ \E o \in Orders : StoreOrder(o) \/ SubmitOrder(o) \/ RejectOrder(o) \/ CancelOrder(o)
    \/ \E o \in Orders : TakeOrder(o) \/ FillOrder(o)
    \/ \E q \in cancels : processCancel(q) \/ CancelTimesOut(q)
    \/ InsertBatchAndMarkCancelCommands \/ Settle
    \/ \E event \in owed : RetryOwed(event)
    \/ \E c \in Commands : nextAttemptAt(c)
    \/ Worker
    \/ BootstrapOpenOrders \/ WaitUntilDrained \/ Shutdown \/ ShutdownComplete \/ Crash

\* The engine, the outbox writer, settlement, the start and the shutdown go on
\* while they can, and a handler that stored an order submits it. Run is always
\* woken by its ticker; its select picks among ready cases at random, and both
\* the cancels and their results come through channels, so that each of them
\* is received in the end. A command is in backoff or has a result, never both.
Fairness ==
    /\ WF_vars(InsertBatchAndMarkCancelCommands) /\ WF_vars(Settle)
    /\ \A o \in Orders : WF_vars(SubmitOrder(o) \/ RejectOrder(o)) /\ WF_vars(TakeOrder(o))
    /\ WF_vars(Worker)
    /\ \A i \in 1 .. Cardinality(Orders) :
          /\ WF_vars(\E q \in cancels : q.command = i /\ processCancel(q))
          /\ SF_vars(\/ \E r \in results : r.command = i /\ ReceiveResult(r)
                     \/ i \in Commands /\ nextAttemptAt(i))
    /\ WF_vars(BootstrapOpenOrders) /\ WF_vars(WaitUntilDrained) /\ WF_vars(ShutdownComplete)

Spec == Init /\ [][Next]_vars /\ Fairness

-----------------------------------------------------------------------------
(* Properties.                                                             *)

Final == {"FILLED", "CANCELLED", "REJECTED"}

\* Every variable has its type; the worker never has more than MaxDispatch
\* engine calls running, each command in at most one of them.
TypeOK ==
    /\ orderStatus \in [Orders -> {"NONE", "PENDING"} \cup Final]
    /\ Range(commands) \subseteq [order : Orders, status : {"PENDING", "PROCESSED", "NOOP"}]
    /\ Range(outbox) \cup owed \subseteq [kind : {"TRADE", "CANCEL"}, order : Orders]
    /\ unforwarded \in 0 .. Len(outbox)
    /\ place \in [Orders -> {"nowhere", "handoff", "intake", "book", "stranded"}]
    /\ cancels \subseteq [command : Commands, waiting : BOOLEAN]
    /\ Range(execution) \subseteq [kind : {"TRADE", "CANCEL"}, order : Orders,
                                   command : Commands \cup {0}]
    /\ pc \in {"select", "noop", "release", "dispatch", "drain", "stopped"}
    /\ Len(inFlight) = Len(commands)
    /\ Range(inFlight) \subseteq {"none", "dispatching", "awaiting", "backoff", "ready"}
    /\ results \subseteq [command : Dispatching, result : {"ok", "notFound", "timeout"}]
    /\ checked \in Commands \cup {0}
    /\ phase \in {"replay", "barrier", "open", "stopping"}
    /\ faults \in 0 .. MaxFaults /\ restarts \in 0 .. MaxRestarts
    /\ recovered \subseteq Orders /\ reopened \subseteq Orders
    /\ Cardinality(Dispatching) <= MaxDispatch
    /\ \A c \in Dispatching :
          Cardinality({q \in cancels : q.command = c /\ q.waiting})
            + Cardinality({r \in results : r.command = c}) = 1

EventsOf(c) == {n \in DOMAIN execution : execution[n].command = c}

\* The status of a command never contradicts the events of its order, so that
\* the transaction that commits a batch of events finds the pending commands it
\* must end: the only batch it refuses is one that it has committed without
\* knowing. A pending command has at most one event that waits to be committed.
\* A processed one has its event committed and no other to come. A command ended
\* as NOOP cancelled nothing: its order was filled or rejected, and no late call
\* of the engine can still cancel it. Not so for an order that a start gave back
\* to the engine although a committed event of it had not taken effect.
\* (applyNotFound, MarkNoop and InsertBatchAndMarkCancelCommands.)
CommandsTruthful ==
    \A c \in Commands :
        LET o == OrderOf(c) IN
        o \notin reopened =>
            CASE commands[c].status = "PENDING" -> \A m, n \in EventsOf(c) : m = n
              [] commands[c].status = "PROCESSED" ->
                    /\ EventsOf(c) = {}
                    /\ \/ orderStatus[o] = "CANCELLED"
                       \/ [kind |-> "CANCEL", order |-> o] \in Range(outbox) \cup owed
              [] commands[c].status = "NOOP" ->
                    /\ EventsOf(c) = {} /\ place[o] = "nowhere"
                    /\ orderStatus[o] \in {"FILLED", "REJECTED"}

\* When HTTP opens after a restart, no order whose cancel command was still
\* pending at the restart is in the engine or on its way there: a new order
\* cannot trade with it (runCancelCommandStartupBarrier). Not so for an order
\* that the start gave to the engine with an event owed.
RecoveredCancelsFirst ==
    phase = "open" => \A o \in recovered \ reopened : place[o] = "nowhere"

\* The outbox writer retries a batch that can never commit.
WriterStuck == unforwarded > 0 \/ ~(CommandIDs(execution) \subseteq Pending)

\* What only a restart, the operator or nobody can end: the order is in the
\* database and not in the engine, the writer is stuck, an event of the order
\* has not taken effect, or had not when a start gave the order to the engine.
OutOfReach(o) ==
    \/ place[o] = "stranded"
    \/ WriterStuck
    \/ \E event \in owed : event.order = o
    \/ o \in reopened

\* A cancel answered with 202 is never forgotten: its command ends and its
\* order closes, through engine calls that time out, failed statements,
\* shutdowns and crashes, unless the order stays out of reach for ever. A
\* restart brings an order that CreateOrder gave up, and the events of a stuck
\* writer, back within reach. (Commands are never removed and closed orders
\* stay closed: what holds again and again from the cancel on holds for good.)
CancelsTakeEffect ==
    \A o \in Orders :
        \/ []<>((\E c \in Commands : OrderOf(c) = o) =>
                    orderStatus[o] \in Final /\ \A c \in Pending : OrderOf(c) # o)
        \/ <>[]OutOfReach(o)
=============================================================================
