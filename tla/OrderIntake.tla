---------------------------- MODULE OrderIntake ----------------------------
(***************************************************************************)
(* CreateOrder from the request to the answer: the idempotency key, the    *)
(* group commit of HoldCoordinator that stores keys, orders and holds, the *)
(* handoff to the engine, its compensation and the recorded outcome        *)
(* (src/internal/service/order_service.go, hold_coordinator.go and         *)
(* order_ledger.go, src/internal/repository/order_idempotency_repository.go*)
(* and src/internal/handler/order_handler.go).                             *)
(*                                                                         *)
(* One user and one asset; a request body is the amount it holds, and its  *)
(* fingerprint is the body. An order is named after the call that stored   *)
(* it. The engine is reduced to the orders submitted to it; one that it    *)
(* finishes is cancelled, as far as its hold is concerned.                 *)
(***************************************************************************)
EXTENDS Ledger

CONSTANTS
    Calls,        \* [id, key, body]: calls with one key are a request and its repetitions
    Funds,        \* what the user has
    Policies,     \* the sets of bodies that the market rules of a process may allow
    InputCap,     \* capacity of the coordinator's input channel
    BatchSize,    \* requests in one batch
    MaxMishaps    \* how many database errors and crashes

ASSUME IntakeAssumption ==
    /\ \A c, d \in Calls : c.id \in Nat \ {0} /\ c.body \in Nat \ {0} /\ (c.id = d.id => c = d)
    /\ {Funds, InputCap, BatchSize, MaxMishaps} \subseteq Nat
    /\ BatchSize > 0

VARIABLES
    \* In the database.
    keys,       \* order_idempotency_keys: at most one [body, order, outcome] per key
    orders,     \* status of the order of each call, "NONE" if there is none
    ledger,
    \* The handlers.
    pc,         \* of each call
    answer,     \* of each call: [code, order, outcome]
    \* The coordinator.
    input, batch,
    mode,       \* "collect", or "fallback" when the batch is redone one by one
    results,    \* in the fallback: results of the requests done so far, by position
    \* The process.
    submitted,  \* how often this process gave each order to the engine
    allowed,    \* the bodies its market rules allow
    mishaps

dbVars == <<keys, orders, ledger>>
callVars == <<pc, answer>>
holdVars == <<input, batch, mode, results>>
processVars == <<submitted, allowed, mishaps>>
vars == <<dbVars, callVars, holdVars, processVars>>

User == "user"
Asset == "KRW"
IDs == {c.id : c \in Calls}
Keys == {c.key : c \in Calls}
CallOf(id) == CHOOSE c \in Calls : c.id = id

NoAnswer == [code |-> 0, order |-> 0, outcome |-> ""]
Refusal(code) == [code |-> code, order |-> 0, outcome |-> ""]

Mishap ==
    /\ mishaps < MaxMishaps
    /\ mishaps' = mishaps + 1
    /\ UNCHANGED <<submitted, allowed>>

-----------------------------------------------------------------------------
(* The journals of an order.                                               *)

holdAmountFor(c) == c.body

orderHoldPostings(c) ==
    << Posting("USER_AVAILABLE", User, Asset, -holdAmountFor(c)),
       Posting("USER_LOCKED", User, Asset, holdAmountFor(c)) >>

orderReleasePostings(c) ==
    << Posting("USER_LOCKED", User, Asset, -holdAmountFor(c)),
       Posting("USER_AVAILABLE", User, Asset, holdAmountFor(c)) >>

HoldJournal(c) ==
    Journal("ORDER_HOLD", <<"order-hold", c.id>>, c.id, orderHoldPostings(c))

ReleaseJournal(c, reason) ==
    Journal("ORDER_RELEASE", <<"order-release", c.id, reason>>, c.id, orderReleasePostings(c))

-----------------------------------------------------------------------------
(* Answers.                                                                *)

\* serviceErrorStatus, and the outcomes that CreateOrder of the handler tells
\* apart: a stored result is 200 only when the order was accepted.
statusOfOutcome(outcome) ==
    CASE outcome = "ACCEPTED" -> 200
      [] outcome = "PENDING" -> 202
      [] outcome \in {"REJECTED", "UNKNOWN"} -> 503

OutcomeAnswer(order, outcome) ==
    [code |-> statusOfOutcome(outcome), order |-> order, outcome |-> outcome]

\* A failed handoff is 503 whatever became of the compensation.
HandoffAnswer(order, outcome) == [code |-> 503, order |-> order, outcome |-> outcome]

replayResult(record, c) ==
    IF record.body # c.body THEN Refusal(409) ELSE OutcomeAnswer(record.order, record.outcome)

SetAnswer(c, a) ==
    /\ answer' = [answer EXCEPT ![c] = a]
    /\ pc' = [pc EXCEPT ![c] = "answered"]

\* Mutant: the key is not looked up.
rejectRegardless(c, code) ==
    /\ SetAnswer(c, Refusal(code))
    /\ \/ UNCHANGED processVars
       \/ Mishap

\* The stored result if the key is known; the refusal otherwise, or 503 if the
\* key cannot be looked up.
rejectUnlessReplay(c, code) ==
    \/ /\ IF keys[c.key] = {}
          THEN SetAnswer(c, Refusal(code))
          ELSE \E record \in keys[c.key] : SetAnswer(c, replayResult(record, c))
       /\ UNCHANGED processVars
    \/ /\ Mishap
       /\ SetAnswer(c, Refusal(503))

-----------------------------------------------------------------------------
(* CreateOrder up to the coordinator.                                      *)

validateMarketPolicy(c) == c.body \in allowed

\* The engine may be too full to let an order in, which is its own matter.
CreateOrder(c) ==
    /\ pc[c] = "idle"
    /\ IF validateMarketPolicy(c) THEN rejectUnlessReplay(c, 503) ELSE rejectUnlessReplay(c, 422)
    /\ UNCHANGED <<dbVars, holdVars>>

\* Mutant: the channel has no capacity.
SubmitUnbounded(c) ==
    /\ pc[c] = "idle" /\ validateMarketPolicy(c)
    /\ input' = Append(input, c)
    /\ pc' = [pc EXCEPT ![c] = "waiting"]
    /\ UNCHANGED <<dbVars, answer, batch, mode, results, processVars>>

\* Never blocks: a full channel is 503.
SubmitWithIdempotency(c) ==
    /\ pc[c] = "idle" /\ validateMarketPolicy(c)
    /\ IF Len(input) < InputCap
       THEN /\ input' = Append(input, c)
            /\ pc' = [pc EXCEPT ![c] = "waiting"]
            /\ UNCHANGED answer
       ELSE SetAnswer(c, Refusal(503)) /\ UNCHANGED input
    /\ UNCHANGED <<dbVars, batch, mode, results, processVars>>

-----------------------------------------------------------------------------
(* HoldCoordinator.                                                        *)

\* groupIdempotentRequests: the first request with a key is an owner; a later
\* one follows it if the bodies agree, and is a conflict if not.
Leader(reqs, n) == Min({m \in DOMAIN reqs : reqs[m].key = reqs[n].key})
Owners(reqs) == {n \in DOMAIN reqs : Leader(reqs, n) = n}

Result(err, order, owner, existing) ==
    [err |-> err, order |-> order, owner |-> owner, existing |-> existing]
Failed(err) == Result(err, 0, TRUE, {})

\* Mutant: the copy keeps the role of the leader.
applyFollowerResultsAsOwner(reqs, owned) ==
    [n \in DOMAIN reqs |->
        LET l == Leader(reqs, n) IN
        IF reqs[n].body = reqs[l].body THEN owned[l] ELSE Failed("conflict")]

\* The results of all requests from those of the owners.
applyFollowerResults(reqs, owned) ==
    [n \in DOMAIN reqs |->
        LET l == Leader(reqs, n) IN
        CASE n = l -> owned[n]
          [] n # l /\ reqs[n].body = reqs[l].body -> [owned[l] EXCEPT !.owner = FALSE]
          [] n # l /\ reqs[n].body # reqs[l].body -> Failed("conflict")]

\* claimIdempotencyKeys: the owners whose key was not stored before.
Active(reqs) == {n \in Owners(reqs) : keys[reqs[n].key] = {}}

\* What is left of the balance after the first n requests took theirs in turn.
AvailableAfter(reqs) ==
    LET left[n \in 0 .. Len(reqs)] ==
            IF n = 0 THEN Balance(ledger, "USER_AVAILABLE", User, Asset)
            ELSE IF n \in Active(reqs) /\ left[n - 1] >= holdAmountFor(reqs[n])
                 THEN left[n - 1] - holdAmountFor(reqs[n]) ELSE left[n - 1]
    IN  left

Passing(reqs) ==
    {n \in Active(reqs) : AvailableAfter(reqs)[n - 1] >= holdAmountFor(reqs[n])}

\* InsertNew and SetOrderAndOutcome of one transaction.
Stored(c) == {[body |-> c.body, order |-> c.id, outcome |-> "PENDING"]}

\* The calls of C get their key, their order and their hold. The keys of the
\* others are not in the table when the transaction commits.
PersistAndHold(C) ==
    /\ keys' = [k \in Keys |-> UNION ({keys[k]} \cup {Stored(c) : c \in {d \in C : d.key = k}})]
    /\ orders' = [id \in IDs |-> IF id \in {c.id : c \in C} THEN "PENDING" ELSE orders[id]]
    /\ ledger' = FoldSet(LAMBDA c, l : Record(l, HoldJournal(c)), ledger, C)

OwnedResult(reqs, n) ==
    CASE n \notin Active(reqs) -> Result("", 0, FALSE, keys[reqs[n].key])
      [] n \in Passing(reqs) -> Result("", reqs[n].id, TRUE, {})
      [] n \in Active(reqs) \ Passing(reqs) -> Failed("insufficient")

\* serviceErrorStatus; an error of the driver is none the function knows and
\* takes its default.
errorStatus(err) ==
    CASE err \in {"conflict", "insufficient"} -> 409
      [] err = "unavailable" -> 503
      [] err = "database" -> 400

\* followerResult, and the answer to an error.
ResultAnswer(c, r) ==
    CASE r.err # "" -> Refusal(errorStatus(r.err))
      [] r.err = "" /\ r.existing # {} -> replayResult(CHOOSE record \in r.existing : TRUE, c)
      [] r.err = "" /\ r.existing = {} -> OutcomeAnswer(r.order, "PENDING")

Own(r) == r.err = "" /\ r.owner

\* Each request gets its result; an owner goes on to the engine.
Deliver(res) ==
    LET ResultOf(c) == res[CHOOSE n \in DOMAIN batch : batch[n] = c]
        delivered == Range(batch)
    IN  /\ pc' = [c \in Calls |->
                     IF c \notin delivered THEN pc[c]
                     ELSE IF Own(ResultOf(c)) THEN "handoff" ELSE "answered"]
        /\ answer' = [c \in Calls |->
                         IF c \notin delivered \/ Own(ResultOf(c)) THEN answer[c]
                         ELSE ResultAnswer(c, ResultOf(c))]
        /\ batch' = << >> /\ mode' = "collect" /\ results' = << >>
        /\ UNCHANGED input

collectBatch ==
    /\ mode = "collect" /\ input # << >> /\ Len(batch) < BatchSize
    /\ batch' = Append(batch, Head(input))
    /\ input' = Tail(input)
    /\ UNCHANGED <<dbVars, callVars, mode, results, processVars>>

\* The batch is full or its time is up.
HoldBatch ==
    /\ mode = "collect" /\ batch # << >>
    /\ PersistAndHold({batch[n] : n \in Passing(batch)})
    /\ Deliver(applyFollowerResults(batch, [n \in Owners(batch) |-> OwnedResult(batch, n)]))
    /\ UNCHANGED processVars

\* Mutant: the requests of the batch are forgotten.
StatementTimeoutForgotten ==
    /\ mode = "collect" /\ batch # << >>
    /\ Mishap
    /\ batch' = << >>
    /\ UNCHANGED <<dbVars, callVars, input, mode, results>>

\* 57014: everybody is told to try again.
StatementTimeout ==
    /\ mode = "collect" /\ batch # << >>
    /\ Mishap
    /\ Deliver([n \in DOMAIN batch |-> Failed("unavailable")])
    /\ UNCHANGED dbVars

\* Another error, before or after the transaction took effect.
HoldBatchFails ==
    /\ mode = "collect" /\ batch # << >>
    /\ Mishap
    /\ \/ UNCHANGED dbVars
       \/ PersistAndHold({batch[n] : n \in Passing(batch)})
    /\ mode' = "fallback"
    /\ UNCHANGED <<callVars, input, batch, results>>

\* One owner in a transaction of its own; the ledger refuses what the balance
\* does not cover.
persistAndHoldIdempotent ==
    /\ mode = "fallback" /\ DOMAIN results # Owners(batch)
    /\ LET n == Min(Owners(batch) \ DOMAIN results)
           c == batch[n]
           fresh == keys[c.key] = {}
           holds == fresh /\ Recordable(ledger, HoldJournal(c))
           Done(r) == results' = [m \in DOMAIN results \cup {n} |->
                                    IF m = n THEN r ELSE results[m]]
       IN  \/ /\ IF holds THEN PersistAndHold({c}) ELSE UNCHANGED dbVars
              /\ Done(IF ~fresh THEN Result("", 0, FALSE, keys[c.key])
                      ELSE IF holds THEN Result("", c.id, TRUE, {}) ELSE Failed("insufficient"))
              /\ UNCHANGED processVars
           \/ /\ Mishap
              /\ UNCHANGED dbVars \/ (holds /\ PersistAndHold({c}))
              /\ Done(Failed("database"))
    /\ UNCHANGED <<callVars, input, batch, mode>>

fallbackPerRequest ==
    /\ mode = "fallback" /\ DOMAIN results = Owners(batch)
    /\ Deliver(applyFollowerResults(batch, results))
    /\ UNCHANGED <<dbVars, processVars>>

-----------------------------------------------------------------------------
(* The handoff to the engine.                                              *)

UpdateOutcome(c, outcome) ==
    keys' = [keys EXCEPT ![c.key] = {[record EXCEPT !.outcome = outcome] : record \in @}]

\* The engine takes the order in time, or it never gets it.
TrySubmitOrder(c) ==
    /\ pc[c] = "handoff"
    /\ \/ /\ submitted' = [submitted EXCEPT ![c.id] = @ + 1]
          /\ pc' = [pc EXCEPT ![c] = "accepting"]
       \/ /\ pc' = [pc EXCEPT ![c] = "compensating"]
          /\ UNCHANGED submitted
    /\ UNCHANGED <<dbVars, answer, holdVars, allowed, mishaps>>

\* The answer is ACCEPTED whether or not the outcome could be stored.
RecordAccepted(c) ==
    /\ pc[c] = "accepting"
    /\ SetAnswer(c, OutcomeAnswer(c.id, "ACCEPTED"))
    /\ \/ UpdateOutcome(c, "ACCEPTED") /\ UNCHANGED processVars
       \/ UNCHANGED keys /\ Mishap
    /\ UNCHANGED <<orders, ledger, holdVars>>

\* The compensation: hold, order and outcome in one transaction.
Compensate(c) ==
    /\ ledger' = Record(ledger, ReleaseJournal(c, "rejected"))
    /\ orders' = [orders EXCEPT ![c.id] = "REJECTED"]
    /\ UpdateOutcome(c, "REJECTED")

rejectAcceptedOrderWithIdempotency(c) ==
    /\ pc[c] = "compensating"
    /\ \/ /\ Recordable(ledger, ReleaseJournal(c, "rejected"))
          /\ Compensate(c)
          /\ SetAnswer(c, HandoffAnswer(c.id, "REJECTED"))
          /\ UNCHANGED processVars
       \/ /\ Mishap
          /\ UNCHANGED dbVars \/ Compensate(c)
          /\ pc' = [pc EXCEPT ![c] = "unknown"] /\ UNCHANGED answer
    /\ UNCHANGED holdVars

\* After a failed compensation. If not even this can be stored, the answer
\* says what the table says.
RecordUnknown(c) ==
    /\ pc[c] = "unknown"
    /\ \/ /\ UpdateOutcome(c, "UNKNOWN")
          /\ SetAnswer(c, HandoffAnswer(c.id, "UNKNOWN"))
          /\ UNCHANGED processVars
       \/ /\ Mishap
          /\ UNCHANGED keys
          /\ SetAnswer(c, HandoffAnswer(c.id, "PENDING"))
    /\ UNCHANGED <<orders, ledger, holdVars>>

-----------------------------------------------------------------------------
(* The engine and restarts.                                                *)

\* An order that the engine has ends; what is left of its hold is released.
ProcessOrderCancellation(c) ==
    /\ submitted[c.id] > 0 /\ orders[c.id] = "PENDING"
    /\ Recordable(ledger, ReleaseJournal(c, "cancel"))
    /\ ledger' = Record(ledger, ReleaseJournal(c, "cancel"))
    /\ orders' = [orders EXCEPT ![c.id] = "CANCELLED"]
    /\ UNCHANGED <<keys, callVars, holdVars, processVars>>

\* A crash, and the start that follows it: new market rules, and the open
\* orders in the engine. Nobody is left to answer the calls that ran.
Restart ==
    /\ mishaps < MaxMishaps /\ mishaps' = mishaps + 1
    /\ pc' = [c \in Calls |-> IF pc[c] \in {"idle", "answered"} THEN pc[c] ELSE "lost"]
    /\ input' = << >> /\ batch' = << >> /\ mode' = "collect" /\ results' = << >>
    /\ submitted' = [id \in IDs |-> IF orders[id] = "PENDING" THEN 1 ELSE 0]
    /\ allowed' \in Policies
    /\ UNCHANGED <<dbVars, answer>>

Init ==
    /\ keys = [k \in Keys |-> {}]
    /\ orders = [id \in IDs |-> "NONE"]
    /\ ledger = FundWallet(EmptyLedger, User, Asset, Funds, "start")
    /\ pc = [c \in Calls |-> "idle"] /\ answer = [c \in Calls |-> NoAnswer]
    /\ input = << >> /\ batch = << >> /\ mode = "collect" /\ results = << >>
    /\ submitted = [id \in IDs |-> 0]
    /\ allowed = UNION Policies
    /\ mishaps = 0

Coordinator ==
    \/ collectBatch
    \/ HoldBatch \/ StatementTimeout \/ HoldBatchFails
    \/ persistAndHoldIdempotent \/ fallbackPerRequest

Handoff(c) ==
    \/ TrySubmitOrder(c) \/ RecordAccepted(c)
    \/ rejectAcceptedOrderWithIdempotency(c) \/ RecordUnknown(c)

Next ==
    \/ \E c \in Calls : CreateOrder(c) \/ SubmitWithIdempotency(c)
    \/ Coordinator
    \/ \E c \in Calls : Handoff(c)
    \/ \E c \in Calls : ProcessOrderCancellation(c)
    \/ Restart

\* While the coordinator or a handler can go on, one of them does; a batch that
\* is not full goes when its timer fires. Nothing more is assumed of the
\* scheduler: no call takes infinitely many steps.
Spec == Init /\ [][Next]_vars /\ WF_vars(Coordinator \/ \E c \in Calls : Handoff(c))

-----------------------------------------------------------------------------
(* Properties.                                                             *)

Existing == {c \in Calls : orders[c.id] # "NONE"}
Open == {c \in Calls : orders[c.id] = "PENDING"}
Outcomes == {"PENDING", "ACCEPTED", "REJECTED", "UNKNOWN"}

\* Every variable has its type, and neither the channel nor a batch exceeds its
\* size.
TypeOK ==
    /\ \A k \in Keys : keys[k] \subseteq [body : {c.body : c \in Calls}, order : IDs,
                                          outcome : Outcomes]
    /\ orders \in [IDs -> {"NONE", "PENDING", "REJECTED", "CANCELLED"}]
    /\ pc \in [Calls -> {"idle", "waiting", "handoff", "accepting", "compensating", "unknown",
                         "answered", "lost"}]
    /\ \A c \in Calls :
          answer[c] \in {NoAnswer} \cup [code : {200, 202, 400, 409, 422, 503},
                                        order : IDs \cup {0}, outcome : Outcomes \cup {""}]
    /\ Range(input) \cup Range(batch) \subseteq Calls
    /\ Len(input) <= InputCap /\ Len(batch) <= BatchSize
    /\ \A c \in Range(input) \cup Range(batch) : pc[c] = "waiting"
    /\ mode \in {"collect", "fallback"} /\ DOMAIN results \subseteq Owners(batch)
    /\ submitted \in [IDs -> Nat] /\ allowed \in Policies \cup {UNION Policies}
    /\ mishaps \in 0 .. MaxMishaps

\* However often a request is repeated, and whatever fails or restarts, it
\* becomes one order with one hold that reaches the engine once per process:
\* a key is in the table exactly when its order is, the order is the first
\* body sent with the key, the locked balance is what the open orders hold,
\* the ledger reconciles, and the engine only has orders that hold their money.
\* (HoldBatch with groupIdempotentRequests and applyFollowerResults, its
\* fallback, and rejectAcceptedOrderWithIdempotency.)
HeldOnce ==
    /\ \A k \in Keys :
          {[body |-> c.body, order |-> c.id] : c \in {d \in Existing : d.key = k}}
            = {[body |-> record.body, order |-> record.order] : record \in keys[k]}
    /\ \A k \in Keys : Cardinality(keys[k]) <= 1
    /\ \A c \in Calls : c \in Existing <=> HoldJournal(c) \in ledger.journals
    /\ Balance(ledger, "USER_LOCKED", User, Asset) = MapThenSumSet(holdAmountFor, Open)
    /\ Reconciled(ledger)
    /\ \A c \in Calls : /\ submitted[c.id] <= 1
                        /\ submitted[c.id] = 1 => orders[c.id] \in {"PENDING", "CANCELLED"}

\* What an outcome says of an order.
Holds(id, outcome) ==
    CASE outcome = "ACCEPTED" -> orders[id] = "CANCELLED" \/ (orders[id] = "PENDING" /\ submitted[id] = 1)
      [] outcome = "REJECTED" -> orders[id] = "REJECTED"
      [] outcome \in {"PENDING", "UNKNOWN"} -> orders[id] # "NONE"

\* What an answer or a stored outcome says is so, then and later: an order
\* reported as accepted has reached the engine, one reported as rejected has
\* released its hold for good, one reported otherwise exists; the order reported
\* has the key and the body of the call; and a call that is refused (409, 422,
\* 503 without an order) has left no order behind. (A 400, the answer to a
\* failed statement in the fallback, says nothing: the statement may have taken
\* effect.)
NothingOverstated ==
    /\ \A k \in Keys : \A record \in keys[k] : Holds(record.order, record.outcome)
    /\ \A c \in Calls :
          /\ answer[c].order # 0 =>
                /\ CallOf(answer[c].order).key = c.key
                /\ CallOf(answer[c].order).body = c.body
                /\ Holds(answer[c].order, answer[c].outcome)
          /\ answer[c].order = 0 /\ answer[c].code \in {409, 422, 503} => c \notin Existing

\* A refusal for the rules or the balance is not given over a stored result.
RefusesUnknownKey(c) ==
    answer[c] # answer'[c] /\ answer'[c] = Refusal(422) => keys[c.key] = {}

\* No answer of CreateOrder and no stored outcome ever says more than is so, and
\* the stored result of a key wins over a refusal, whatever the rules have
\* become since it was stored.
AnswersTrue == []NothingOverstated /\ [][\A c \in Calls : RefusesUnknownKey(c)]_vars

Running == {c \in Calls : pc[c] \notin {"idle", "answered", "lost"}}

\* Calls that were let in are answered, unless the process dies: no request is
\* left behind in a batch, a fallback or a failed compensation. (As the calls
\* are finitely many, it is enough that there comes a time when none runs.)
CallsAnswered == Running # {} ~> Running = {}
=============================================================================
